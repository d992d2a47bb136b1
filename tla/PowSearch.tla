----------------------------- MODULE PowSearch -----------------------------
(***************************************************************************)
(* The search of Proyecto's miner: work() in launch/miner_launch.c and the  *)
(* loops of main that create and join the threads, round by round, each     *)
(* round with the last solution as its target. One step is one access to    *)
(* the globals magic_flag and _solution, which no lock protects.            *)
(***************************************************************************)
EXTENDS Pow

CONSTANT MaxRounds  \* bound: rounds one miner plays

ASSUME SearchAssumption == MaxRounds \in Nat

VARIABLES
  main,        \* statement of the main thread
  j,           \* its loop index
  at,          \* statement of each thread
  i,           \* argument each thread tries next
  target,      \* target of the round
  magic_flag,  \* a thread found the solution
  _solution,   \* the last solution found
  before,      \* _solution when the round began
  round

vars == <<main, j, at, i, target, magic_flag, _solution, before, round>>

Init ==
  /\ main = "reset" /\ j = 0 /\ round = 0
  /\ at = [t \in Threads |-> "none"] /\ i = [t \in Threads |-> 0]
  /\ target \in 0 .. POW_LIMIT - 1
  /\ magic_flag = 0 /\ _solution = 0 /\ before = 0

Reset_Forgotten ==  \* faulty variant: magic_flag = 0 is missing
  /\ main = "reset" /\ main' = "create" /\ j' = 0 /\ before' = _solution
  /\ UNCHANGED <<at, i, target, magic_flag, _solution, round>>

Reset ==
  /\ main = "reset" /\ main' = "create" /\ magic_flag' = 0 /\ j' = 0
  /\ before' = _solution
  /\ UNCHANGED <<at, i, target, _solution, round>>

Create ==
  /\ main = "create" /\ j < nthreads
  /\ at' = [at EXCEPT ![j] = "check"] /\ i' = [i EXCEPT ![j] = Start(j)]
  /\ j' = (j + 1) % nthreads
  /\ main' = IF j + 1 = nthreads THEN "join" ELSE "create"
  /\ UNCHANGED <<target, magic_flag, _solution, before, round>>

Join ==
  /\ main = "join" /\ at[j] = "done"
  /\ j' = (j + 1) % nthreads
  /\ main' = IF j + 1 = nthreads THEN "joined" ELSE "join"
  /\ UNCHANGED <<at, i, target, magic_flag, _solution, before, round>>

(* The solution of this round is the target of the next one.                *)
NextRound ==
  /\ main = "joined" /\ round < MaxRounds /\ round' = round + 1
  /\ main' = "reset" /\ target' = _solution
  /\ UNCHANGED <<j, at, i, magic_flag, _solution, before>>

Searching_OffByOne(t) == i[t] <= End(t) /\ magic_flag = 0  \* faulty variant

Searching(t) == i[t] < End(t) /\ magic_flag = 0

(* for(i = start; i < end; i++) { if(magic_flag) return; ...                *)
Check(t) ==
  /\ at[t] = "check"
  /\ at' = [at EXCEPT ![t] = IF Searching(t) THEN "try" ELSE "done"]
  /\ UNCHANGED <<main, j, i, target, magic_flag, _solution, before, round>>

NextArgument_Stuck(t) == i[t]  \* faulty variant: i++ is missing

NextArgument(t) == i[t] + 1

(* ... if(pow_hash(i) == target) { _solution = i; ...                       *)
Try(t) ==
  /\ at[t] = "try"
  /\ \/ /\ pow_hash(i[t]) = target
        /\ _solution' = i[t] /\ at' = [at EXCEPT ![t] = "found"] /\ UNCHANGED i
     \/ /\ pow_hash(i[t]) # target
        /\ i' = [i EXCEPT ![t] = NextArgument(t)] /\ at' = [at EXCEPT ![t] = "check"]
        /\ UNCHANGED _solution
  /\ UNCHANGED <<main, j, target, magic_flag, before, round>>

(* ... magic_flag = 1; return; } }                                          *)
Found(t) ==
  /\ at[t] = "found" /\ at' = [at EXCEPT ![t] = "done"] /\ magic_flag' = 1
  /\ UNCHANGED <<main, j, i, target, _solution, before, round>>

Main == Reset \/ Create \/ Join \/ NextRound

Thread(t) == Check(t) \/ Try(t) \/ Found(t)

Next == Main \/ \E t \in Threads : Thread(t)

Spec == Init /\ [][Next]_vars

(* pthreads are scheduled fairly.                                           *)
FairSpec == Spec /\ WF_vars(Main) /\ \A t \in Threads : WF_vars(Thread(t))

-----------------------------------------------------------------------------
(* Types; a thread never tries an argument outside its share.               *)
TypeOK ==
  /\ main \in {"reset", "create", "join", "joined"}
  /\ j \in Threads /\ round \in 0 .. MaxRounds
  /\ at \in [Threads -> {"none", "check", "try", "found", "done"}]
  /\ \A t \in Threads : at[t] \in {"try", "found"} => i[t] \in Start(t) .. End(t) - 1
  /\ target \in 0 .. POW_LIMIT - 1 /\ magic_flag \in {0, 1}
  /\ _solution \in 0 .. POW_LIMIT - 1

(* Joining the threads yields the argument of the target if anybody had to  *)
(* search it, and otherwise leaves the previous solution in place: early    *)
(* returns of the other threads never lose a solution.                      *)
SearchResult ==
  main = "joined" =>
    IF Findable(target) # {}
    THEN pow_hash(_solution) = target /\ magic_flag = 1
    ELSE _solution = before /\ magic_flag = 0

(* _solution is written at most once in a round: when a thread has found    *)
(* one, no other thread replaces it.                                        *)
WrittenOnce ==
  [][ _solution' # _solution => \A t \in Threads : at[t] # "found" /\ magic_flag = 0 ]_vars

(* Every search ends.                                                       *)
SearchEnds == main = "create" ~> main = "joined"
=============================================================================
