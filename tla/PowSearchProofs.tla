-------------------------- MODULE PowSearchProofs ---------------------------
(***************************************************************************)
(* Machine-checked proofs about PowSearch, for any hash, any target and any *)
(* number of threads and rounds.                                            *)
(*                                                                          *)
(* The threads share magic_flag and _solution without a lock. What keeps    *)
(* the search right is where each of them has come in its own share: what   *)
(* it has passed does not have the target's hash, and what it reports has.  *)
(***************************************************************************)
EXTENDS PowSearch, PowProofs

(* The main thread has created t in this round.                             *)
Begun(t) == main \in {"join", "joined"} \/ (main = "create" /\ t < j)

Searches == main \in {"create", "join", "joined"}

TypeInv ==
  /\ main \in {"reset", "create", "join", "joined"} /\ j \in Threads /\ round \in 0 .. MaxRounds
  /\ at \in [Threads -> {"none", "check", "try", "found", "done"}]
  /\ i \in [Threads -> Nat] /\ magic_flag \in {0, 1}
  /\ target \in 0 .. POW_LIMIT - 1 /\ _solution \in 0 .. POW_LIMIT - 1
  /\ before \in 0 .. POW_LIMIT - 1

(* Where the threads are: a thread of an earlier round is gone, one of this *)
(* round is in its share, and main counts those that are done.              *)
PlaceInv ==
  \A t \in Threads :
    /\ ~Begun(t) => at[t] \in {"none", "done"}
    /\ at[t] = "none" => ~Begun(t)
    /\ main = "joined" \/ (main = "join" /\ t < j) => at[t] = "done"
    /\ Begun(t) => i[t] \in Start(t) .. End(t)
    /\ at[t] \in {"try", "found"} => i[t] < End(t)

(* What they have found.                                                    *)
FoundInv ==
  /\ \A t \in Threads : Begun(t) =>
       /\ \A x \in Start(t) .. i[t] - 1 : pow_hash(x) # target
       /\ at[t] = "found" => pow_hash(i[t]) = target
       /\ at[t] = "done" /\ magic_flag = 0 => i[t] = End(t)
  /\ Searches =>
       IF magic_flag = 1 \/ \E t \in Threads : at[t] = "found"
       THEN pow_hash(_solution) = target /\ Findable(target) # {}
       ELSE _solution = before

SearchInv == TypeInv /\ PlaceInv /\ FoundInv

LEMMA ThreadsAre == Threads \subseteq Nat /\ 0 \in Threads /\ \A t \in Threads : t < nthreads
  BY PowAssumption DEF Threads

(* j runs through the threads and ends at zero.                             *)
LEMMA Counting ==
  ASSUME NEW k \in Threads
  PROVE  /\ k + 1 = nthreads => (k + 1) % nthreads = 0
         /\ k + 1 # nthreads => (k + 1) % nthreads = k + 1
         /\ (k + 1) % nthreads \in Threads
         /\ k + 1 # nthreads => k + 1 < nthreads
  <1>1. k \in Nat /\ nthreads \in Nat \ {0} /\ k + 1 <= nthreads
    BY PowAssumption DEF Threads
  <1>2. k + 1 = nthreads => (k + 1) % nthreads = 0
    BY <1>1
  <1>3. k + 1 # nthreads => (k + 1) % nthreads = k + 1
    BY <1>1
  <1> QED BY <1>1, <1>2, <1>3 DEF Threads

LEMMA SearchInit == Init => SearchInv
  <1> SUFFICES ASSUME Init PROVE SearchInv
    OBVIOUS
  <1>1. TypeInv
    BY ThreadsAre, SearchAssumption, PowAssumption DEF Init, TypeInv
  <1>2. \A t \in Threads : ~Begun(t)
    BY DEF Init, Begun
  <1>3. PlaceInv /\ FoundInv
    BY <1>2 DEF Init, PlaceInv, FoundInv, Searches
  <1> QED BY <1>1, <1>3 DEF SearchInv

LEMMA MainKeeps == SearchInv /\ Main => SearchInv'
  <1> SUFFICES ASSUME SearchInv, Main PROVE SearchInv'
    OBVIOUS
  <1> USE DEF SearchInv
  <1>1. CASE Reset
    <2>1. /\ main = "reset" /\ main' = "create" /\ magic_flag' = 0 /\ j' = 0 /\ before' = _solution
          /\ UNCHANGED <<at, i, target, _solution, round>>
      BY <1>1 DEF Reset
    <2>2. TypeInv'
      BY <2>1, ThreadsAre DEF TypeInv
    <2>3. \A t \in Threads : /\ ~Begun(t) /\ ~Begun(t)' /\ at'[t] \in {"none", "done"}
      BY <2>1, ThreadsAre DEF Begun, PlaceInv
    <2>4. PlaceInv'
      BY <2>1, <2>3 DEF PlaceInv
    <2>5. FoundInv'
      BY <2>1, <2>3 DEF FoundInv
    <2> QED BY <2>2, <2>4, <2>5
  <1>2. CASE Create
    <2>1. PICK k \in Threads :
            /\ main = "create" /\ at' = [at EXCEPT ![k] = "check"] /\ i' = [i EXCEPT ![k] = Start(k)]
            /\ j' = (k + 1) % nthreads /\ main' = (IF k + 1 = nthreads THEN "join" ELSE "create")
            /\ UNCHANGED <<target, magic_flag, _solution, before, round>> /\ j = k
      BY <1>2 DEF Create, TypeInv
    <2>2. Start(k) \in Nat /\ Start(k) <= End(k) /\ End(k) \in Nat
      BY <2>1, ShareBounds
    <2>3. TypeInv'
      BY <2>1, <2>2, Counting DEF TypeInv
    <2>4. /\ ~Begun(k) /\ Begun(k)'
          /\ \A t \in Threads \ {k} : Begun(t)' <=> Begun(t)
      <3>1. ASSUME NEW t \in Threads
            PROVE  t \in Nat /\ k \in Nat /\ nthreads \in Nat /\ t < nthreads
        BY <2>1, ThreadsAre, PowAssumption
      <3>2. ~Begun(k)
        BY <2>1, <3>1 DEF Begun
      <3>3. CASE k + 1 = nthreads
        BY <2>1, <3>1, <3>2, <3>3 DEF Begun
      <3>4. CASE k + 1 # nthreads
        <4>1. main' = "create" /\ j' = k + 1
          BY <2>1, <3>4, Counting
        <4> QED BY <2>1, <3>1, <3>2, <4>1 DEF Begun
      <3> QED BY <3>2, <3>3, <3>4
    <2>5. /\ at'[k] = "check" /\ i'[k] = Start(k)
          /\ \A t \in Threads \ {k} : at'[t] = at[t] /\ i'[t] = i[t]
      BY <2>1, <2>3 DEF TypeInv
    <2>6. main' # "joined" /\ (main' = "join" => j' = 0)
      BY <2>1, Counting
    <2>7. PlaceInv'
      <3>1. \A t \in Threads : ~(main' = "joined" \/ (main' = "join" /\ t < j'))
        BY <2>6, ThreadsAre
      <3>2. Start(k) \in Start(k) .. End(k)
        BY <2>2
      <3> QED BY <2>4, <2>5, <3>1, <3>2 DEF PlaceInv
    <2>8. (\E t \in Threads : at'[t] = "found") <=> (\E t \in Threads : at[t] = "found")
      BY <2>1, <2>4, <2>5 DEF PlaceInv
    <2>9. \A t \in Threads : Begun(t)' =>
            /\ \A x \in Start(t) .. i'[t] - 1 : pow_hash(x) # target'
            /\ at'[t] = "found" => pow_hash(i'[t]) = target'
            /\ at'[t] = "done" /\ magic_flag' = 0 => i'[t] = End(t)
      BY <2>1, <2>2, <2>4, <2>5 DEF FoundInv
    <2>10. FoundInv'
      BY <2>1, <2>8, <2>9 DEF FoundInv, Searches
    <2> QED BY <2>3, <2>7, <2>10
  <1>3. CASE Join
    <2>1. /\ main = "join" /\ at[j] = "done" /\ j' = (j + 1) % nthreads
          /\ main' = IF j + 1 = nthreads THEN "joined" ELSE "join"
          /\ UNCHANGED <<at, i, target, magic_flag, _solution, before, round>> /\ j \in Threads
      BY <1>3 DEF Join, TypeInv
    <2>2. TypeInv'
      BY <2>1, Counting DEF TypeInv
    <2>3. \A t \in Threads : Begun(t) /\ Begun(t)'
      BY <2>1 DEF Begun
    <2>4. \A t \in Threads : main' = "joined" \/ (main' = "join" /\ t < j') => at'[t] = "done"
      <3> TAKE t \in Threads
      <3>1. t \in Nat /\ j \in Nat /\ nthreads \in Nat /\ t < nthreads
        BY <2>1, ThreadsAre, PowAssumption
      <3>2. main' = "joined" \/ (main' = "join" /\ t < j') => t <= j
        BY <2>1, <3>1, Counting
      <3> QED BY <2>1, <3>1, <3>2 DEF PlaceInv
    <2>5. PlaceInv'
      BY <2>1, <2>3, <2>4 DEF PlaceInv
    <2>6. FoundInv'
      BY <2>1, <2>3 DEF FoundInv, Searches
    <2> QED BY <2>2, <2>5, <2>6
  <1>4. CASE NextRound
    <2>1. /\ main = "joined" /\ round < MaxRounds /\ round' = round + 1
          /\ main' = "reset" /\ target' = _solution
          /\ UNCHANGED <<j, at, i, magic_flag, _solution, before>>
      BY <1>4 DEF NextRound
    <2>2. TypeInv'
      BY <2>1, SearchAssumption DEF TypeInv
    <2>3. \A t \in Threads : ~Begun(t)' /\ at'[t] = "done"
      BY <2>1 DEF Begun, PlaceInv
    <2> QED BY <2>1, <2>2, <2>3 DEF PlaceInv, FoundInv, Searches
  <1> QED BY <1>1, <1>2, <1>3, <1>4 DEF Main

LEMMA ThreadKeeps == \A t \in Threads : SearchInv /\ Thread(t) => SearchInv'
  <1> SUFFICES ASSUME NEW t \in Threads, SearchInv, Thread(t) PROVE SearchInv'
    OBVIOUS
  <1> USE DEF SearchInv
  <1>0. /\ UNCHANGED <<main, j, target, before, round>>
        /\ \A u \in Threads : Begun(u)' <=> Begun(u)
    BY DEF Thread, Check, Try, Found, Begun
  <1>1. /\ Start(t) \in Nat /\ End(t) \in Nat /\ End(t) <= POW_LIMIT - 1
    BY ShareBounds
  <1>2. CASE Check(t)
    <2>1. /\ at[t] = "check" /\ at' = [at EXCEPT ![t] = IF Searching(t) THEN "try" ELSE "done"]
          /\ UNCHANGED <<i, magic_flag, _solution>>
      BY <1>2 DEF Check
    <2>2. TypeInv'
      BY <1>0, <2>1 DEF TypeInv
    <2>3. /\ Begun(t) /\ at'[t] = IF Searching(t) THEN "try" ELSE "done"
          /\ \A u \in Threads \ {t} : at'[u] = at[u]
      BY <2>1 DEF TypeInv, PlaceInv
    <2>4. i[t] \in Start(t) .. End(t)
      BY <2>3 DEF PlaceInv
    <2>5. main # "joined" /\ ~(main = "join" /\ t < j)
      BY <2>1 DEF PlaceInv
    <2>6. /\ at'[t] = "try" => i[t] < End(t)
          /\ at'[t] = "done" /\ magic_flag = 0 => i[t] = End(t)
      BY <1>1, <2>3, <2>4 DEF Searching
    <2>7. PlaceInv'
      BY <1>0, <2>1, <2>3, <2>5, <2>6 DEF PlaceInv
    <2>8. (\E u \in Threads : at'[u] = "found") <=> (\E u \in Threads : at[u] = "found")
      BY <2>1, <2>3
    <2>9. FoundInv'
      BY <1>0, <2>1, <2>3, <2>6, <2>8 DEF FoundInv, Searches
    <2> QED BY <2>2, <2>7, <2>9
  <1>3. CASE Try(t)
    <2>1. at[t] = "try" /\ UNCHANGED magic_flag
      BY <1>3 DEF Try
    <2>2. /\ Begun(t) /\ i[t] \in Start(t) .. End(t) - 1 /\ i[t] \in Nat
          /\ main # "joined" /\ ~(main = "join" /\ t < j)
      BY <1>1, <2>1 DEF PlaceInv, TypeInv
    <2>3. i[t] \in 0 .. POW_LIMIT - 1
      BY <1>1, <2>2, PowAssumption
    <2>4. CASE /\ pow_hash(i[t]) = target /\ _solution' = i[t]
               /\ at' = [at EXCEPT ![t] = "found"] /\ UNCHANGED i
      <3>1. TypeInv'
        BY <1>0, <2>1, <2>3, <2>4 DEF TypeInv
      <3>2. at'[t] = "found" /\ \A u \in Threads \ {t} : at'[u] = at[u]
        BY <2>4 DEF TypeInv
      <3>3. PlaceInv'
        <4>1. i[t] < End(t) /\ UNCHANGED <<main, j, i>>
          BY <1>0, <2>1, <2>4 DEF PlaceInv
        <4> QED BY <1>0, <2>2, <3>2, <4>1 DEF PlaceInv
      <3>4. i[t] \in Findable(target)
        BY <2>2, <2>4 DEF Findable, Searched
      <3>5. FoundInv'
        BY <1>0, <2>1, <2>4, <3>2, <3>4 DEF FoundInv
      <3> QED BY <3>1, <3>3, <3>5
    <2>5. CASE /\ pow_hash(i[t]) # target /\ i' = [i EXCEPT ![t] = i[t] + 1]
               /\ at' = [at EXCEPT ![t] = "check"] /\ UNCHANGED _solution
      <3>1. TypeInv'
        BY <1>0, <2>1, <2>2, <2>5 DEF TypeInv
      <3>2. /\ at'[t] = "check" /\ i'[t] = i[t] + 1
            /\ \A u \in Threads \ {t} : at'[u] = at[u] /\ i'[u] = i[u]
        BY <2>5 DEF TypeInv
      <3>3. PlaceInv'
        BY <1>0, <1>1, <2>1, <2>2, <3>2 DEF PlaceInv
      <3>4. \A x \in Start(t) .. i'[t] - 1 : pow_hash(x) # target
        <4>1. \A x \in Start(t) .. i[t] - 1 : pow_hash(x) # target
          BY <2>2 DEF FoundInv
        <4>2. \A x \in Start(t) .. i'[t] - 1 : x \in Start(t) .. i[t] - 1 \/ x = i[t]
          BY <1>1, <2>2, <3>2
        <4> QED BY <2>5, <4>1, <4>2
      <3>5. (\E u \in Threads : at'[u] = "found") <=> (\E u \in Threads : at[u] = "found")
        BY <2>1, <3>2
      <3>6. FoundInv'
        BY <1>0, <2>1, <2>5, <3>2, <3>4, <3>5 DEF FoundInv, Searches
      <3> QED BY <3>1, <3>3, <3>6
    <2> QED BY <1>3, <2>4, <2>5 DEF Try, NextArgument
  <1>4. CASE Found(t)
    <2>1. /\ at[t] = "found" /\ at' = [at EXCEPT ![t] = "done"] /\ magic_flag' = 1
          /\ UNCHANGED <<i, _solution>>
      BY <1>4 DEF Found
    <2>2. TypeInv'
      BY <1>0, <2>1 DEF TypeInv
    <2>3. at'[t] = "done" /\ \A u \in Threads \ {t} : at'[u] = at[u]
      BY <2>1 DEF TypeInv
    <2>4. PlaceInv'
      BY <1>0, <2>1, <2>3 DEF PlaceInv
    <2>5. FoundInv'
      BY <1>0, <2>1, <2>3 DEF FoundInv, Searches
    <2> QED BY <2>2, <2>4, <2>5
  <1> QED BY <1>2, <1>3, <1>4 DEF Thread

LEMMA SearchSafe == Spec => []SearchInv
  <1>1. SearchInv /\ UNCHANGED vars => SearchInv'
    BY DEF SearchInv, vars, TypeInv, PlaceInv, FoundInv, Begun, Searches
  <1>2. SearchInv /\ [Next]_vars => SearchInv'
    BY <1>1, MainKeeps, ThreadKeeps DEF Next
  <1> QED BY <1>2, SearchInit, PTL DEF Spec

(* The globals keep their types and work() never hashes an argument outside *)
(* the share main gave its thread, in no round.                             *)
THEOREM SharesAreKept == Spec => []TypeOK
  <1>1. ASSUME SearchInv, NEW t \in Threads, at[t] \in {"try", "found"}
        PROVE  i[t] \in Start(t) .. End(t) - 1
    <2>1. i[t] \in Start(t) .. End(t) /\ i[t] < End(t)
      BY <1>1 DEF SearchInv, PlaceInv
    <2> QED BY <2>1, ShareBounds
  <1>2. SearchInv => TypeOK
    BY <1>1 DEF SearchInv, TypeInv, TypeOK
  <1> QED BY <1>2, SearchSafe, PTL

(* When main has joined its threads (miner_launch.c, after the pthread_join *)
(* loop) _solution answers the target and magic_flag is up if any thread    *)
(* had the answer in its share; otherwise the last round's solution is      *)
(* still there. The early returns on magic_flag lose nothing.               *)
THEOREM JoinedKnowsResult == Spec => []SearchResult
  <1>1. ASSUME SearchInv, main = "joined", magic_flag = 0
        PROVE  Findable(target) = {}
    <2> SUFFICES ASSUME NEW x \in Findable(target) PROVE FALSE
      OBVIOUS
    <2>1. PICK t \in Threads : x \in Start(t) .. End(t) - 1 /\ pow_hash(x) = target
      BY DEF Findable, Searched
    <2>2. at[t] = "done" /\ Begun(t)
      BY <1>1 DEF SearchInv, PlaceInv, Begun
    <2>3. i[t] = End(t)
      BY <1>1, <2>2 DEF SearchInv, FoundInv
    <2> QED BY <1>1, <2>1, <2>2, <2>3 DEF SearchInv, FoundInv
  <1>2. ASSUME SearchInv, main = "joined"
        PROVE  ~\E t \in Threads : at[t] = "found"
    BY <1>2 DEF SearchInv, PlaceInv
  <1>3. SearchInv => SearchResult
    BY <1>1, <1>2 DEF SearchInv, FoundInv, Searches, TypeInv, SearchResult
  <1> QED BY <1>3, SearchSafe, PTL

(* With pow.c's hash a solution that a thread has stored is not replaced in *)
(* its round, although nothing orders the store and the flag: the only      *)
(* other store, by a thread that had not seen the flag yet, would be of the *)
(* same number.                                                             *)
THEOREM StoredOnce == Invertible /\ Spec => WrittenOnce
  <1> SUFFICES ASSUME Invertible PROVE Spec => WrittenOnce
    OBVIOUS
  <1>1. ASSUME SearchInv, [Next]_vars, _solution' # _solution
        PROVE  \A u \in Threads : at[u] # "found" /\ magic_flag = 0
    <2>1. PICK t \in Threads : at[t] = "try" /\ pow_hash(i[t]) = target /\ _solution' = i[t]
      BY <1>1 DEF Next, Main, Reset, Create, Join, NextRound, Thread, Check, Try, Found, vars
    <2>2. Begun(t) /\ i[t] \in Start(t) .. End(t) /\ i[t] < End(t)
      BY <1>1, <2>1 DEF SearchInv, PlaceInv
    <2>3. i[t] \in 0 .. POW_LIMIT - 1
      BY <2>2, ShareBounds, PowAssumption
    <2>4. pow_hash(_solution) # target
      BY <1>1, <2>1, <2>3, NoCollision DEF SearchInv, TypeInv
    <2>5. Searches
      BY <2>2 DEF Begun, Searches
    <2> QED BY <1>1, <2>4, <2>5 DEF SearchInv, TypeInv, FoundInv
  <1>2. SearchInv /\ [Next]_vars =>
          [_solution' # _solution => \A t \in Threads : at[t] # "found" /\ magic_flag = 0]_vars
    BY <1>1
  <1> QED BY <1>2, SearchSafe, PTL DEF Spec, WrittenOnce
=============================================================================
