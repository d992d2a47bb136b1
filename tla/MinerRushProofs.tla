-------------------------- MODULE MinerRushProofs ---------------------------
(***************************************************************************)
(* Machine-checked proofs about MinerRush, for any hash, any target, any    *)
(* number of threads and rounds, any failures and any kills.                *)
(*                                                                          *)
(* Between the two processes there is one thing at a time: the pair, the    *)
(* pair being checked, or the answer. Only a miner that meets the end of    *)
(* monitorPipe sends again, and then there is nobody left to read it: both  *)
(* ends a miner does not keep always have the same holders.                 *)
(***************************************************************************)
EXTENDS MinerRush, PowProofs

Labels == {"none", "fork_miner", "fork_monitor", "close", "wait", "mine", "write", "read", "decide",
           "check"} \cup Ended

TypeInv ==
  /\ pc \in [Processes -> Labels]
  /\ holders \in [Ends -> SUBSET Processes]
  /\ minerPipe \in Seq(Pairs) /\ monitorPipe \in Seq(BOOLEAN)
  /\ rounds \in 1 .. MaxRounds /\ i \in 0 .. rounds
  /\ target \in 0 .. POW_LIMIT /\ pipeData \in Pairs /\ readData \in Pairs
  /\ magicFlag \in {0, 1} /\ resp \in BOOLEAN /\ nbytes \in {0, 2}
  /\ accepted \in Seq(Pairs) /\ mined \in Seq(0 .. POW_LIMIT)

(* Nobody can read minerPipe, nor write monitorPipe.                        *)
Gone == holders["minerPipe[0]"] = {}

HolderInv == holders["minerPipe[0]"] = holders["monitorPipe[1]"]

Quiet == minerPipe = <<>> /\ monitorPipe = <<>> /\ pc["monitor"] \notin {"check", "write"}

(* One pair or answer is under way, and what it is worth.                   *)
FlowInv ==
  /\ Len(minerPipe) + Len(monitorPipe) <= 1
  /\ pc["monitor"] \in {"check", "write"} => minerPipe = <<>> /\ monitorPipe = <<>>
  /\ i <= Len(accepted) /\ Len(accepted) <= i + 1 /\ Len(accepted) <= Len(mined)
  /\ minerPipe # <<>> \/ pc["monitor"] = "check" => Len(accepted) = i /\ Len(accepted) < Len(mined)
  /\ pc["monitor"] = "write" /\ Valid(readData) => Len(accepted) = i + 1
  /\ monitorPipe # <<>> /\ Head(monitorPipe) => Len(accepted) = i + 1

(* What the miner can rely on where it stands.                              *)
MinerInv ==
  /\ pc["mrush"] = "fork_miner" => pc["miner"] = "none"
  /\ pc["miner"] \in {"none", "close", "mine", "success"} =>
       Quiet /\ Len(accepted) = i /\ Len(mined) = i
  /\ pc["miner"] = "success" => i = rounds
  /\ pc["miner"] \in {"none", "close", "mine"} => magicFlag = 0
  /\ pc["miner"] \in {"write", "read", "decide"} => i < rounds /\ Len(mined) = i + 1
  /\ pc["miner"] = "write" => Gone \/ (Quiet /\ Len(accepted) = i)
  /\ pc["miner"] = "decide" /\ nbytes = 2 => Quiet /\ (resp => Len(accepted) = i + 1)
  /\ pc["miner"] = "decide" /\ nbytes # 2 => Gone

Answers(pair, t) == pair.target = t \/ Findable(t) = {}

(* Each pair belongs to its round, wherever it is.                          *)
ChainInv ==
  /\ \A k \in DOMAIN accepted : Answers(accepted[k], mined[k])
  /\ pc["miner"] \in {"write", "read", "decide"} => Answers(pipeData, mined[i + 1])
  /\ minerPipe # <<>> => Answers(Head(minerPipe), mined[Len(accepted) + 1])
  /\ pc["monitor"] = "check" => Answers(readData, mined[Len(accepted) + 1])

RushInv == TypeInv /\ HolderInv /\ FlowInv /\ MinerInv /\ ChainInv

LEMMA PairTypes ==
  /\ NoPair \in Pairs
  /\ \A t \in 0 .. POW_LIMIT : \A x \in Findable(t) : Pair(t, x) \in Pairs
  /\ \A p \in Pairs : p.solution \in 0 .. POW_LIMIT
  BY PowAssumption, SearchedRange DEF NoPair, Pair, Pairs, Findable

(* Closing loses holders, and the same ones at both ends that count.        *)
LEMMA Closing ==
  ASSUME TypeInv, HolderInv, NEW p \in Processes, NEW which \in SUBSET Ends, Close(p, which),
         "minerPipe[0]" \in which <=> "monitorPipe[1]" \in which
  PROVE  holders' \in [Ends -> SUBSET Processes] /\ HolderInv' /\ (Gone => Gone')
  <1>1. holders \in [Ends -> SUBSET Processes]
    BY DEF TypeInv
  <1>2. holders' = [e \in Ends |-> IF e \in which THEN holders[e] \ {p} ELSE holders[e]]
    BY DEF Close
  <1>3. holders' \in [Ends -> SUBSET Processes]
    BY <1>1, <1>2
  <1>4. /\ holders'["minerPipe[0]"] = IF "minerPipe[0]" \in which THEN holders["minerPipe[0]"] \ {p}
                                      ELSE holders["minerPipe[0]"]
        /\ holders'["monitorPipe[1]"] = IF "monitorPipe[1]" \in which
                                        THEN holders["monitorPipe[1]"] \ {p}
                                        ELSE holders["monitorPipe[1]"]
    BY <1>2 DEF Ends
  <1> QED BY <1>3, <1>4 DEF HolderInv, Gone

LEMMA RushInit == Init => RushInv
  <1> SUFFICES ASSUME Init PROVE RushInv
    OBVIOUS
  <1>1. /\ pc["mrush"] = "fork_miner" /\ pc["miner"] = "none" /\ pc["monitor"] = "none"
        /\ pc \in [Processes -> Labels]
    BY DEF Init, Processes, Labels
  <1>2. /\ minerPipe = <<>> /\ monitorPipe = <<>> /\ accepted = <<>> /\ mined = <<>> /\ i = 0
        /\ magicFlag = 0 /\ rounds \in 1 .. MaxRounds
        /\ holders \in [Ends -> SUBSET Processes] /\ HolderInv
    BY DEF Init, HolderInv, Ends, Processes
  <1>3. TypeInv
    <2>1. target \in 0 .. POW_LIMIT /\ pipeData \in Pairs /\ readData \in Pairs
          /\ resp \in BOOLEAN /\ nbytes \in {0, 2}
      BY PairTypes DEF Init
    <2>2. <<>> \in Seq(Pairs) /\ <<>> \in Seq(BOOLEAN) /\ <<>> \in Seq(0 .. POW_LIMIT)
      OBVIOUS
    <2>3. i \in 0 .. rounds
      BY <1>2, RushAssumption
    <2> QED BY <1>1, <1>2, <2>1, <2>2, <2>3 DEF TypeInv
  <1>4. /\ Len(minerPipe) = 0 /\ Len(monitorPipe) = 0 /\ Len(accepted) = 0 /\ Len(mined) = 0
        /\ DOMAIN accepted = {}
    BY <1>2
  <1>5. FlowInv
    <2>1. /\ Len(minerPipe) + Len(monitorPipe) <= 1 /\ i <= Len(accepted)
          /\ Len(accepted) <= i + 1 /\ Len(accepted) <= Len(mined)
      BY <1>2, <1>4
    <2>2. /\ minerPipe = <<>> /\ monitorPipe = <<>>
          /\ pc["monitor"] # "check" /\ pc["monitor"] # "write"
      BY <1>1, <1>2
    <2> QED BY <2>1, <2>2 DEF FlowInv
  <1>6. MinerInv
    BY <1>1, <1>2, <1>4 DEF MinerInv, Quiet
  <1>7. ChainInv
    BY <1>1, <1>2, <1>4 DEF ChainInv
  <1> QED BY <1>2, <1>3, <1>5, <1>6, <1>7 DEF RushInv

(* What FlowInv says of the lengths of pipes that are not empty.            *)
LEMMA Lengths ==
  ASSUME TypeInv, FlowInv
  PROVE  /\ i \in Nat /\ Len(accepted) \in Nat /\ Len(mined) \in Nat
         /\ minerPipe # <<>> => Len(minerPipe) = 1 /\ monitorPipe = <<>>
         /\ monitorPipe # <<>> => Len(monitorPipe) = 1 /\ minerPipe = <<>>
         /\ minerPipe # <<>> \/ monitorPipe # <<>> => pc["monitor"] \notin {"check", "write"}
         /\ Len(<<>>) = 0
  <1>1. Len(minerPipe) + Len(monitorPipe) <= 1
    BY DEF FlowInv
  <1>2. /\ minerPipe \in Seq(Pairs) /\ monitorPipe \in Seq(BOOLEAN) /\ i \in 0 .. rounds
        /\ accepted \in Seq(Pairs) /\ mined \in Seq(0 .. POW_LIMIT)
    BY DEF TypeInv
  <1>3. /\ minerPipe # <<>> => Len(minerPipe) >= 1
        /\ monitorPipe # <<>> => Len(monitorPipe) >= 1
        /\ Len(minerPipe) \in Nat /\ Len(monitorPipe) \in Nat
    BY <1>2
  <1>4. pc["monitor"] \in {"check", "write"} => minerPipe = <<>> /\ monitorPipe = <<>>
    BY DEF FlowInv
  <1>5. i \in Nat /\ Len(accepted) \in Nat /\ Len(mined) \in Nat
    BY <1>2
  <1>6. Len(<<>>) = 0
    OBVIOUS
  <1>7. /\ minerPipe # <<>> => Len(minerPipe) = 1 /\ Len(monitorPipe) = 0
        /\ monitorPipe # <<>> => Len(monitorPipe) = 1 /\ Len(minerPipe) = 0
    <2> DEFINE a == Len(minerPipe)
               b == Len(monitorPipe)
    <2>1. a \in Nat /\ b \in Nat /\ a + b <= 1
      BY <1>1, <1>3
    <2>2. minerPipe # <<>> => a >= 1
      BY <1>3
    <2>3. monitorPipe # <<>> => b >= 1
      BY <1>3
    <2> HIDE DEF a, b
    <2>4. /\ a >= 1 => a = 1 /\ b = 0
          /\ b >= 1 => b = 1 /\ a = 0
      BY <2>1
    <2> QED BY <2>2, <2>3, <2>4 DEF a, b
  <1> QED BY <1>3, <1>4, <1>5, <1>6, <1>7

(* A Goto moves one process.                                                *)
LEMMA Moves ==
  ASSUME TypeInv, NEW p \in Processes, NEW from, NEW to \in Labels, Goto(p, from, to)
  PROVE  /\ pc' \in [Processes -> Labels] /\ pc[p] = from /\ pc'[p] = to
         /\ \A q \in Processes \ {p} : pc'[q] = pc[q]
  BY DEF Goto, TypeInv

(* A step that moves no data and neither the monitor's nor the miner's part *)
(* in the protocol.                                                         *)
LEMMA DataStands ==
  ASSUME RushInv, UNCHANGED <<pipes, miner, monitor>>,
         pc' \in [Processes -> Labels], holders' \in [Ends -> SUBSET Processes], HolderInv',
         Gone => Gone',
         pc'["mrush"] = "fork_miner" => pc["mrush"] = "fork_miner" /\ pc'["miner"] = pc["miner"],
         \/ pc'["miner"] = pc["miner"]
         \/ pc[ "miner"] \in {"none", "close"} /\ pc'["miner"] \in {"close", "mine"}
         \/ pc["miner"] = "mine" /\ pc'["miner"] = "success" /\ i = rounds
         \/ pc'["miner"] \in {"failure", "killed"},
         \/ pc'["monitor"] = pc["monitor"]
         \/ pc'["monitor"] \notin {"check", "write"}
  PROVE  RushInv'
  <1>1. /\ UNCHANGED <<minerPipe, monitorPipe, rounds, i, target, pipeData, magicFlag, resp, nbytes,
                       mined, readData, accepted>>
    BY DEF pipes, miner, monitor
  <1>2. TypeInv'
    BY <1>1 DEF RushInv, TypeInv
  <1>3. FlowInv'
    BY <1>1 DEF RushInv, FlowInv, Valid
  <1>4. Quiet => Quiet'
    BY <1>1 DEF Quiet
  <1>5. MinerInv'
    BY <1>1, <1>4 DEF RushInv, MinerInv
  <1>6. ChainInv'
    BY <1>1 DEF RushInv, ChainInv
  <1> QED BY <1>2, <1>3, <1>5, <1>6 DEF RushInv

LEMMA MrushKeeps == RushInv /\ Main => RushInv'
  <1> SUFFICES ASSUME RushInv, Main PROVE RushInv'
    OBVIOUS
  <1>0. TypeInv /\ HolderInv /\ Ends \subseteq Ends /\ {"mrush", "miner", "monitor"} = Processes
    BY DEF RushInv, Processes
  <1>1. ASSUME NEW from \in {"fork_miner", "fork_monitor"}, NEW child \in {"miner", "monitor"},
               NEW to \in {"fork_monitor", "close"}, Fork(from, child, to),
               child = "miner" => from = "fork_miner"
        PROVE  RushInv'
    <2>1. CASE /\ pc["mrush"] = from
               /\ pc' = [pc EXCEPT !["mrush"] = to, ![child] = "close"]
               /\ holders' = [e \in Ends |-> IF "mrush" \in holders[e]
                                             THEN holders[e] \cup {child} ELSE holders[e]]
               /\ UNCHANGED <<pipes, miner, monitor, bounds>>
      <3>1. pc' \in [Processes -> Labels] /\ pc'["mrush"] # "fork_miner"
        BY <1>0, <1>1, <2>1 DEF TypeInv, Labels, Processes
      <3>2. /\ child = "miner" => pc["miner"] = "none" /\ pc'["miner"] = "close"
                                  /\ pc'["monitor"] = pc["monitor"]
            /\ child = "monitor" => pc'["monitor"] = "close" /\ pc'["miner"] = pc["miner"]
        BY <1>0, <1>1, <2>1 DEF TypeInv, Processes, RushInv, MinerInv
      <3>3. holders' \in [Ends -> SUBSET Processes]
        BY <1>0, <1>1, <2>1 DEF TypeInv
      <3>4. HolderInv' /\ (Gone => Gone')
        BY <1>0, <2>1 DEF HolderInv, Gone, Ends
      <3> QED BY <1>1, <2>1, <3>1, <3>2, <3>3, <3>4, DataStands
    <2>2. CASE Exit("mrush", from, "failure") /\ UNCHANGED <<pipes, miner, monitor, kills>>
      <3>1. /\ pc' \in [Processes -> Labels] /\ pc'["mrush"] = "failure"
            /\ pc'["miner"] = pc["miner"] /\ pc'["monitor"] = pc["monitor"]
        BY <1>0, <2>2, Moves DEF Exit, Labels, Ended, Processes
      <3>2. holders' \in [Ends -> SUBSET Processes] /\ HolderInv' /\ (Gone => Gone')
        BY <1>0, <2>2, Closing DEF Exit, Ends
      <3> QED BY <2>2, <3>1, <3>2, DataStands
    <2> QED BY <1>1, <2>1, <2>2 DEF Fork
  <1>2. ASSUME NEW from \in {"close", "wait"}, NEW to \in {"wait", "success"}, Goto("mrush", from, to),
               Close("mrush", Ends), UNCHANGED <<pipes, miner, monitor, bounds>>
        PROVE  RushInv'
    <2>1. /\ pc' \in [Processes -> Labels] /\ pc'["mrush"] = to
          /\ pc'["miner"] = pc["miner"] /\ pc'["monitor"] = pc["monitor"]
      BY <1>0, <1>2, Moves DEF Labels, Ended, Processes
    <2>2. holders' \in [Ends -> SUBSET Processes] /\ HolderInv' /\ (Gone => Gone')
      BY <1>0, <1>2, Closing DEF Ends
    <2> QED BY <1>2, <2>1, <2>2, DataStands
  <1>3. CASE Fork("fork_miner", "miner", "fork_monitor") \/ Fork("fork_monitor", "monitor", "close")
    BY <1>1, <1>3
  <1>4. CASE CloseAll \/ WaitForBoth
    BY <1>2, <1>4 DEF CloseAll, WaitForBoth, Exit
  <1> QED BY <1>3, <1>4 DEF Main

(* The ends of a process that fails or is killed are closed, no more.       *)
LEMMA EndKeeps ==
  ASSUME RushInv, NEW p \in {"miner", "monitor"}, NEW from, NEW to \in {"failure", "killed"},
         Exit(p, from, to), from # "none", UNCHANGED <<pipes, miner, monitor>>
  PROVE  RushInv'
  <1>1. /\ pc' \in [Processes -> Labels] /\ pc'[p] = to
        /\ \A q \in Processes \ {p} : pc'[q] = pc[q]
    BY Moves DEF Exit, Labels, Ended, Processes, RushInv
  <1>2. holders' \in [Ends -> SUBSET Processes] /\ HolderInv' /\ (Gone => Gone')
    BY Closing DEF Exit, Ends, RushInv, Processes
  <1>3. \/ pc'["monitor"] = pc["monitor"] /\ pc'["miner"] \in {"failure", "killed"}
        \/ pc'["miner"] = pc["miner"] /\ pc'["monitor"] \in {"failure", "killed"}
    BY <1>1 DEF Processes
  <1>4. pc'["mrush"] = "fork_miner" => pc["mrush"] = "fork_miner" /\ pc'["miner"] = pc["miner"]
    <2>1. pc[p] # "none" /\ pc'["mrush"] = pc["mrush"]
      BY <1>1 DEF Processes, Exit, Goto
    <2>2. p = "miner" => pc["mrush"] # "fork_miner"
      BY <2>1 DEF RushInv, MinerInv
    <2>3. p = "monitor" => pc'["miner"] = pc["miner"]
      BY <1>1 DEF Processes
    <2> QED BY <2>1, <2>2, <2>3
  <1> QED BY <1>1, <1>2, <1>3, <1>4, DataStands

-----------------------------------------------------------------------------
(* The miner.                                                               *)

LEMMA MinerClosesKeeps == RushInv /\ MinerCloses => RushInv'
  <1> SUFFICES ASSUME RushInv, MinerCloses PROVE RushInv'
    OBVIOUS
  <1>1. /\ pc' \in [Processes -> Labels] /\ pc["miner"] = "close" /\ pc'["miner"] = "mine"
        /\ pc'["mrush"] = pc["mrush"] /\ pc'["monitor"] = pc["monitor"]
    BY Moves DEF MinerCloses, Labels, Processes, RushInv
  <1>2. holders' \in [Ends -> SUBSET Processes] /\ HolderInv' /\ (Gone => Gone')
    BY Closing DEF MinerCloses, Ends, RushInv, Processes
  <1>3. pc["mrush"] # "fork_miner" /\ UNCHANGED <<pipes, miner, monitor>>
    BY <1>1 DEF RushInv, MinerInv, MinerCloses
  <1> QED BY <1>1, <1>2, <1>3, DataStands

LEMMA MineKeeps == RushInv /\ Mine => RushInv'
  <1> SUFFICES ASSUME RushInv, Mine PROVE RushInv'
    OBVIOUS
  <1>1. CASE /\ i < rounds /\ Goto("miner", "mine", "write") /\ UNCHANGED holders
             /\ mined' = Append(mined, target)
             /\ IF magicFlag = 1 \/ Findable(target) = {}
                THEN UNCHANGED <<pipeData, magicFlag>>
                ELSE /\ \E x \in Findable(target) : pipeData' = Pair(target, x)
                     /\ magicFlag' = 1
    <2>1. /\ pc' \in [Processes -> Labels] /\ pc["miner"] = "mine" /\ pc'["miner"] = "write"
          /\ pc'["mrush"] = pc["mrush"] /\ pc'["monitor"] = pc["monitor"]
      BY <1>1, Moves DEF Labels, Processes, RushInv
    <2>2. UNCHANGED <<holders, minerPipe, monitorPipe, rounds, i, target, resp, nbytes, readData, accepted>>
      BY <1>1 DEF Mine, pipes, monitor
    <2>3. /\ Quiet /\ Len(accepted) = i /\ Len(mined) = i /\ magicFlag = 0 /\ pc["mrush"] # "fork_miner"
      BY <2>1 DEF RushInv, MinerInv
    <2>4. /\ target \in 0 .. POW_LIMIT /\ mined \in Seq(0 .. POW_LIMIT) /\ accepted \in Seq(Pairs)
          /\ pipeData \in Pairs /\ magicFlag \in {0, 1} /\ i \in Nat
      BY DEF RushInv, TypeInv
    <2>5. /\ mined' \in Seq(0 .. POW_LIMIT) /\ Len(mined') = i + 1 /\ mined'[i + 1] = target
          /\ \A k \in DOMAIN accepted : mined'[k] = mined[k]
      BY <1>1, <2>3, <2>4
    <2>6. Answers(pipeData', target) /\ pipeData' \in Pairs /\ magicFlag' \in {0, 1}
      <3>1. CASE Findable(target) = {}
        BY <1>1, <2>4, <3>1 DEF Answers
      <3>2. CASE Findable(target) # {}
        <4>1. PICK x \in Findable(target) : pipeData' = Pair(target, x) /\ magicFlag' = 1
          BY <1>1, <2>3, <3>2
        <4> QED BY <2>4, <4>1, PairTypes DEF Answers, Pair
      <3> QED BY <3>1, <3>2
    <2>7. TypeInv'
      BY <2>1, <2>2, <2>5, <2>6 DEF RushInv, TypeInv
    <2>8. Quiet' /\ HolderInv'
      BY <2>1, <2>2, <2>3 DEF Quiet, HolderInv, RushInv
    <2>9. FlowInv'
      BY <2>1, <2>2, <2>3, <2>4, <2>5 DEF RushInv, FlowInv, Quiet
    <2>10. MinerInv'
      BY <1>1, <2>1, <2>2, <2>3, <2>5, <2>8 DEF MinerInv
    <2>11. ChainInv'
      BY <2>1, <2>2, <2>3, <2>5, <2>6, <2>8 DEF RushInv, ChainInv, Quiet
    <2> QED BY <2>7, <2>8, <2>9, <2>10, <2>11 DEF RushInv
  <1>2. CASE i = rounds /\ Exit("miner", "mine", "success") /\ UNCHANGED <<mined, pipeData, magicFlag>>
    <2>1. /\ pc' \in [Processes -> Labels] /\ pc["miner"] = "mine" /\ pc'["miner"] = "success"
          /\ pc'["mrush"] = pc["mrush"] /\ pc'["monitor"] = pc["monitor"]
      BY <1>2, Moves DEF Exit, Labels, Ended, Processes, RushInv
    <2>2. holders' \in [Ends -> SUBSET Processes] /\ HolderInv' /\ (Gone => Gone')
      BY <1>2, Closing DEF Exit, Ends, RushInv, Processes
    <2>3. pc["mrush"] # "fork_miner" /\ UNCHANGED <<pipes, miner, monitor>>
      BY <1>2, <2>1 DEF RushInv, MinerInv, Mine, miner, pipes, monitor
    <2> QED BY <1>2, <2>1, <2>2, <2>3, DataStands
  <1> QED BY <1>1, <1>2 DEF Mine

LEMMA SendPairKeeps == RushInv /\ SendPair => RushInv'
  <1> SUFFICES ASSUME RushInv, SendPair PROVE RushInv'
    OBVIOUS
  <1>1. CASE /\ holders["minerPipe[0]"] # {} /\ Goto("miner", "write", "read")
             /\ minerPipe' = Append(minerPipe, pipeData) /\ UNCHANGED holders
    <2>1. /\ pc' \in [Processes -> Labels] /\ pc["miner"] = "write" /\ pc'["miner"] = "read"
          /\ pc'["mrush"] = pc["mrush"] /\ pc'["monitor"] = pc["monitor"]
      BY <1>1, Moves DEF Labels, Processes, RushInv
    <2>2. UNCHANGED <<holders, monitorPipe, rounds, i, target, pipeData, magicFlag, resp, nbytes, mined,
                      readData, accepted>>
      BY <1>1 DEF SendPair, miner, monitor
    <2>3. /\ Quiet /\ Len(accepted) = i /\ Len(mined) = i + 1 /\ i < rounds
          /\ pc["mrush"] # "fork_miner"
      BY <1>1, <2>1 DEF RushInv, MinerInv, Gone
    <2>4. pipeData \in Pairs /\ i \in Nat /\ Len(monitorPipe) = 0 /\ Answers(pipeData, mined[i + 1])
      BY <2>1, <2>3 DEF RushInv, TypeInv, Quiet, ChainInv
    <2>5. /\ minerPipe' \in Seq(Pairs) /\ Len(minerPipe') = 1 /\ Head(minerPipe') = pipeData
      BY <1>1, <2>3, <2>4 DEF Quiet
    <2>6. TypeInv'
      BY <2>1, <2>2, <2>5 DEF RushInv, TypeInv
    <2>7. FlowInv'
      <3>1. Len(minerPipe') + Len(monitorPipe') <= 1
        BY <2>2, <2>4, <2>5
      <3>2. i <= Len(accepted) /\ Len(accepted) <= i + 1 /\ Len(accepted) < Len(mined)
        BY <2>3, <2>4
      <3> QED BY <2>1, <2>2, <2>3, <3>1, <3>2 DEF FlowInv, Quiet
    <2>8. MinerInv' /\ HolderInv'
      BY <2>1, <2>2, <2>3 DEF RushInv, MinerInv, HolderInv
    <2>9. ChainInv'
      BY <2>1, <2>2, <2>3, <2>4, <2>5 DEF RushInv, ChainInv, Quiet
    <2> QED BY <2>6, <2>7, <2>8, <2>9 DEF RushInv
  <1>2. CASE Exit("miner", "write", "killed") /\ UNCHANGED minerPipe
    BY <1>2, EndKeeps DEF SendPair, pipes
  <1> QED BY <1>1, <1>2 DEF SendPair

LEMMA GetAnswerKeeps == RushInv /\ GetAnswer => RushInv'
  <1> SUFFICES ASSUME RushInv, GetAnswer PROVE RushInv'
    OBVIOUS
  <1>1. /\ pc' \in [Processes -> Labels] /\ pc["miner"] = "read" /\ pc'["miner"] = "decide"
        /\ pc'["mrush"] = pc["mrush"] /\ pc'["monitor"] = pc["monitor"]
        /\ pc["mrush"] # "fork_miner"
    BY Moves DEF GetAnswer, Labels, Processes, RushInv, MinerInv
  <1>2. UNCHANGED <<holders, minerPipe, rounds, i, target, pipeData, magicFlag, mined, readData, accepted>>
    BY DEF GetAnswer, monitor
  <1>3. CASE /\ monitorPipe # <<>> /\ monitorPipe' = Tail(monitorPipe)
             /\ resp' = Head(monitorPipe) /\ nbytes' = 2
    <2>1. monitorPipe \in Seq(BOOLEAN) /\ minerPipe \in Seq(Pairs)
      BY DEF RushInv, TypeInv
    <2>2. Len(monitorPipe) = 1 /\ minerPipe = <<>> /\ pc["monitor"] \notin {"check", "write"}
      BY <1>3, Lengths DEF RushInv
    <2>3. minerPipe = <<>> /\ monitorPipe' = <<>> /\ resp' \in BOOLEAN
      BY <1>3, <2>1, <2>2
    <2>4. resp' => Len(accepted) = i + 1
      BY <1>3 DEF RushInv, FlowInv
    <2>5. TypeInv'
      BY <1>1, <1>2, <1>3, <2>3 DEF RushInv, TypeInv
    <2>6. FlowInv'
      <3>1. Len(minerPipe') + Len(monitorPipe') <= 1
        BY <1>2, <2>3, Lengths DEF RushInv
      <3>2. i <= Len(accepted) /\ Len(accepted) <= i + 1 /\ Len(accepted) <= Len(mined)
        BY DEF RushInv, FlowInv
      <3> QED BY <1>1, <1>2, <2>2, <2>3, <3>1, <3>2 DEF FlowInv
    <2>7. MinerInv' /\ HolderInv'
      BY <1>1, <1>2, <1>3, <2>2, <2>3, <2>4 DEF RushInv, MinerInv, HolderInv, Quiet
    <2>8. ChainInv'
      BY <1>1, <1>2, <2>2 DEF RushInv, ChainInv
    <2> QED BY <2>5, <2>6, <2>7, <2>8 DEF RushInv
  <1>4. CASE EndOfFile(monitorPipe, "monitorPipe[1]") /\ nbytes' = 0 /\ UNCHANGED <<monitorPipe, resp>>
    <2>1. Gone'
      BY <1>2, <1>4 DEF EndOfFile, RushInv, HolderInv, Gone
    <2>2. TypeInv'
      BY <1>1, <1>2, <1>4 DEF RushInv, TypeInv
    <2>3. FlowInv' /\ HolderInv'
      BY <1>1, <1>2, <1>4 DEF RushInv, FlowInv, HolderInv, Valid
    <2>4. MinerInv'
      BY <1>1, <1>2, <1>4, <2>1 DEF RushInv, MinerInv
    <2>5. ChainInv'
      BY <1>1, <1>2 DEF RushInv, ChainInv
    <2> QED BY <2>2, <2>3, <2>4, <2>5 DEF RushInv
  <1> QED BY <1>3, <1>4 DEF GetAnswer

LEMMA DecideKeeps == RushInv /\ Decide => RushInv'
  <1> SUFFICES ASSUME RushInv, Decide PROVE RushInv'
    OBVIOUS
  <1>1. CASE Exit("miner", "decide", "failure") /\ UNCHANGED <<i, target, magicFlag>>
    BY <1>1, EndKeeps DEF Decide, miner
  <1>2. CASE ~Answered /\ Goto("miner", "decide", "write") /\ UNCHANGED <<holders, i, target, magicFlag>>
    <2>1. /\ pc' \in [Processes -> Labels] /\ pc["miner"] = "decide" /\ pc'["miner"] = "write"
          /\ pc'["mrush"] = pc["mrush"] /\ pc'["monitor"] = pc["monitor"]
          /\ pc["mrush"] # "fork_miner"
      BY <1>2, Moves DEF Labels, Processes, RushInv, MinerInv
    <2>2. UNCHANGED <<holders, minerPipe, monitorPipe, rounds, i, target, pipeData, magicFlag, resp,
                      nbytes, mined, readData, accepted>>
      BY <1>2 DEF Decide, pipes, monitor
    <2>3. TypeInv' /\ HolderInv'
      BY <2>1, <2>2 DEF RushInv, TypeInv, HolderInv
    <2>4. FlowInv'
      BY <2>1, <2>2 DEF RushInv, FlowInv, Valid
    <2>5. MinerInv'
      BY <1>2, <2>1, <2>2 DEF RushInv, MinerInv, Gone, Answered
    <2>6. ChainInv'
      BY <2>1, <2>2 DEF RushInv, ChainInv
    <2> QED BY <2>3, <2>4, <2>5, <2>6 DEF RushInv
  <1>3. CASE /\ resp /\ Answered /\ Goto("miner", "decide", "mine")
             /\ target' = pipeData.solution /\ i' = i + 1
             /\ magicFlag' = NextMagicFlag /\ UNCHANGED holders
    <2>1. /\ pc' \in [Processes -> Labels] /\ pc["miner"] = "decide" /\ pc'["miner"] = "mine"
          /\ pc'["mrush"] = pc["mrush"] /\ pc'["monitor"] = pc["monitor"]
          /\ pc["mrush"] # "fork_miner"
      BY <1>3, Moves DEF Labels, Processes, RushInv, MinerInv
    <2>2. UNCHANGED <<holders, minerPipe, monitorPipe, rounds, pipeData, resp, nbytes, mined, readData,
                      accepted>>
      BY <1>3 DEF Decide, pipes, monitor
    <2>3. Quiet /\ Len(accepted) = i + 1 /\ Len(mined) = i + 1 /\ i < rounds
      BY <1>3, <2>1 DEF RushInv, MinerInv, Answered
    <2>4. rounds \in 1 .. MaxRounds /\ i \in 0 .. rounds /\ pipeData.solution \in 0 .. POW_LIMIT
      BY PairTypes DEF RushInv, TypeInv
    <2>5. i' \in 0 .. rounds /\ magicFlag' = 0
      BY <1>3, <2>3, <2>4, RushAssumption DEF NextMagicFlag
    <2>6. TypeInv'
      BY <1>3, <2>1, <2>2, <2>4, <2>5 DEF RushInv, TypeInv
    <2>7. FlowInv'
      <3>1. Len(minerPipe') + Len(monitorPipe') <= 1
        BY <2>2 DEF RushInv, FlowInv
      <3>2. i' = Len(accepted') /\ i' \in Nat /\ Len(mined') = i'
        BY <1>3, <2>2, <2>3, <2>4
      <3>3. i' <= Len(accepted') /\ Len(accepted') <= i' + 1 /\ Len(accepted') <= Len(mined')
        BY <3>2
      <3>4. /\ minerPipe' = <<>> /\ monitorPipe' = <<>>
            /\ pc'["monitor"] # "check" /\ pc'["monitor"] # "write"
        BY <2>1, <2>2, <2>3 DEF Quiet
      <3> QED BY <3>1, <3>3, <3>4 DEF FlowInv
    <2>8. MinerInv' /\ HolderInv'
      BY <1>3, <2>1, <2>2, <2>3, <2>5 DEF RushInv, MinerInv, HolderInv, Quiet
    <2>9. ChainInv'
      BY <2>1, <2>2, <2>3 DEF RushInv, ChainInv, Quiet
    <2> QED BY <2>6, <2>7, <2>8, <2>9 DEF RushInv
  <1> QED BY <1>1, <1>2, <1>3 DEF Decide

-----------------------------------------------------------------------------
(* The monitor.                                                             *)

LEMMA MonitorClosesKeeps == RushInv /\ MonitorCloses => RushInv'
  <1> SUFFICES ASSUME RushInv, MonitorCloses PROVE RushInv'
    OBVIOUS
  <1>1. /\ pc' \in [Processes -> Labels] /\ pc'["monitor"] = "read"
        /\ pc'["mrush"] = pc["mrush"] /\ pc'["miner"] = pc["miner"]
    BY Moves DEF MonitorCloses, Labels, Processes, RushInv
  <1>2. holders' \in [Ends -> SUBSET Processes] /\ HolderInv' /\ (Gone => Gone')
    BY Closing DEF MonitorCloses, MonitorsCopies, Ends, RushInv, Processes
  <1> QED BY <1>1, <1>2, DataStands DEF MonitorCloses

LEMMA GetPairKeeps == RushInv /\ GetPair => RushInv'
  <1> SUFFICES ASSUME RushInv, GetPair PROVE RushInv'
    OBVIOUS
  <1>1. CASE /\ minerPipe # <<>> /\ Goto("monitor", "read", "check")
             /\ readData' = Head(minerPipe) /\ minerPipe' = Tail(minerPipe)
             /\ UNCHANGED holders
    <2>1. /\ pc' \in [Processes -> Labels] /\ pc["monitor"] = "read" /\ pc'["monitor"] = "check"
          /\ pc'["mrush"] = pc["mrush"] /\ pc'["miner"] = pc["miner"]
      BY <1>1, Moves DEF Labels, Processes, RushInv
    <2>2. UNCHANGED <<holders, monitorPipe, rounds, i, target, pipeData, magicFlag, resp, nbytes, mined,
                      accepted>>
      BY <1>1 DEF GetPair, miner
    <2>3. minerPipe \in Seq(Pairs) /\ monitorPipe \in Seq(BOOLEAN)
      BY DEF RushInv, TypeInv
    <2>4. Len(minerPipe) = 1 /\ monitorPipe = <<>>
      BY <1>1, Lengths DEF RushInv
    <2>5. readData' \in Pairs /\ minerPipe' = <<>> /\ monitorPipe = <<>>
      BY <1>1, <2>3, <2>4
    <2>6. TypeInv' /\ HolderInv'
      <3>1. minerPipe' \in Seq(Pairs)
        BY <2>5
      <3> QED BY <2>1, <2>2, <2>5, <3>1 DEF RushInv, TypeInv, HolderInv
    <2>7. FlowInv'
      <3>1. Len(accepted) = i /\ Len(accepted) < Len(mined)
        BY <1>1 DEF RushInv, FlowInv
      <3>2. Len(minerPipe') + Len(monitorPipe') <= 1
        BY <2>2, <2>5, Lengths DEF RushInv
      <3>3. i <= Len(accepted) /\ Len(accepted) <= i + 1 /\ Len(accepted) <= Len(mined)
        BY DEF RushInv, FlowInv
      <3> QED BY <2>1, <2>2, <2>5, <3>1, <3>2, <3>3 DEF FlowInv
    <2>8. MinerInv'
      BY <1>1, <2>1, <2>2 DEF RushInv, MinerInv, Quiet, Gone
    <2>9. ChainInv'
      BY <1>1, <2>1, <2>2, <2>5 DEF RushInv, ChainInv
    <2> QED BY <2>6, <2>7, <2>8, <2>9 DEF RushInv
  <1>2. CASE Exit("monitor", "read", "success") /\ UNCHANGED <<readData, minerPipe>>
    <2>1. /\ pc' \in [Processes -> Labels] /\ pc'["monitor"] = "success"
          /\ pc'["mrush"] = pc["mrush"] /\ pc'["miner"] = pc["miner"]
      BY <1>2, Moves DEF Exit, Labels, Ended, Processes, RushInv
    <2>2. holders' \in [Ends -> SUBSET Processes] /\ HolderInv' /\ (Gone => Gone')
      BY <1>2, Closing DEF Exit, Ends, RushInv, Processes
    <2>3. UNCHANGED <<pipes, miner, monitor>>
      BY <1>2 DEF GetPair, pipes, monitor
    <2> QED BY <2>1, <2>2, <2>3, DataStands
  <1> QED BY <1>1, <1>2 DEF GetPair

LEMMA CheckKeeps == RushInv /\ Check => RushInv'
  <1> SUFFICES ASSUME RushInv, Check PROVE RushInv'
    OBVIOUS
  <1>1. /\ pc' \in [Processes -> Labels] /\ pc["monitor"] = "check" /\ pc'["monitor"] = "write"
        /\ pc'["mrush"] = pc["mrush"] /\ pc'["miner"] = pc["miner"]
    BY Moves DEF Check, Labels, Processes, RushInv
  <1>2. UNCHANGED <<holders, minerPipe, monitorPipe, rounds, i, target, pipeData, magicFlag, resp, nbytes,
                    mined, readData>>
    BY DEF Check, pipes, miner
  <1>3. /\ minerPipe = <<>> /\ monitorPipe = <<>> /\ Len(accepted) = i /\ i < Len(mined)
        /\ Answers(readData, mined[i + 1])
    BY <1>1 DEF RushInv, FlowInv, ChainInv
  <1>4. /\ accepted \in Seq(Pairs) /\ readData \in Pairs /\ i \in Nat /\ Len(mined) \in Nat
    BY DEF RushInv, TypeInv
  <1>5. /\ accepted' \in Seq(Pairs)
        /\ Len(accepted') = i \/ Len(accepted') = i + 1
        /\ Valid(readData) => Len(accepted') = i + 1
        /\ \A k \in DOMAIN accepted' : \/ k \in DOMAIN accepted /\ accepted'[k] = accepted[k]
                                       \/ k = i + 1 /\ accepted'[k] = readData
    <2>1. CASE Valid(readData)
      <3>1. accepted' = Append(accepted, readData)
        BY <2>1 DEF Check
      <3> QED BY <1>3, <1>4, <3>1
    <2>2. CASE ~Valid(readData)
      <3>1. accepted' = accepted
        BY <2>2 DEF Check
      <3> QED BY <1>3, <1>4, <2>2, <3>1
    <2> QED BY <2>1, <2>2
  <1>6. TypeInv' /\ HolderInv'
    BY <1>1, <1>2, <1>5 DEF RushInv, TypeInv, HolderInv
  <1>7. FlowInv'
    <2>1. Len(minerPipe') + Len(monitorPipe') <= 1
      BY <1>2 DEF RushInv, FlowInv
    <2>2. i <= Len(accepted') /\ Len(accepted') <= i + 1 /\ Len(accepted') <= Len(mined)
      BY <1>3, <1>4, <1>5
    <2>3. Valid(readData)' => Len(accepted') = i + 1
      BY <1>2, <1>5 DEF Valid
    <2> QED BY <1>1, <1>2, <1>3, <2>1, <2>2, <2>3 DEF FlowInv
  <1>8. MinerInv'
    BY <1>1, <1>2 DEF RushInv, MinerInv, Quiet, Gone
  <1>9. ChainInv'
    BY <1>1, <1>2, <1>3, <1>5 DEF RushInv, ChainInv
  <1> QED BY <1>6, <1>7, <1>8, <1>9 DEF RushInv

LEMMA SendAnswerKeeps == RushInv /\ SendAnswer => RushInv'
  <1> SUFFICES ASSUME RushInv, SendAnswer PROVE RushInv'
    OBVIOUS
  <1>1. CASE /\ Goto("monitor", "write", "read")
             /\ monitorPipe' = Append(monitorPipe, Valid(readData)) /\ UNCHANGED holders
    <2>1. /\ pc' \in [Processes -> Labels] /\ pc["monitor"] = "write" /\ pc'["monitor"] = "read"
          /\ pc'["mrush"] = pc["mrush"] /\ pc'["miner"] = pc["miner"]
      BY <1>1, Moves DEF Labels, Processes, RushInv
    <2>2. UNCHANGED <<holders, minerPipe, rounds, i, target, pipeData, magicFlag, resp, nbytes, mined,
                      readData, accepted>>
      BY <1>1 DEF SendAnswer, miner, monitor
    <2>3. minerPipe = <<>> /\ monitorPipe = <<>> /\ (Valid(readData) => Len(accepted) = i + 1)
      BY <2>1 DEF RushInv, FlowInv
    <2>4. Valid(readData) \in BOOLEAN
      BY DEF Valid
    <2> DEFINE v == Valid(readData)
    <2> HIDE DEF v
    <2>5. /\ monitorPipe' \in Seq(BOOLEAN) /\ Len(monitorPipe') = 1 /\ Head(monitorPipe') = v
      <3>1. v \in BOOLEAN /\ monitorPipe' = Append(<<>>, v)
        BY <1>1, <2>3, <2>4 DEF v
      <3> QED BY <3>1
    <2>6. TypeInv' /\ HolderInv'
      BY <2>1, <2>2, <2>5 DEF RushInv, TypeInv, HolderInv
    <2>7. FlowInv'
      <3>1. Head(monitorPipe') => Len(accepted) = i + 1
        BY <2>3, <2>5 DEF v
      <3>2. Len(minerPipe') + Len(monitorPipe') <= 1
        BY <2>2, <2>3, <2>5, Lengths DEF RushInv
      <3>3. i <= Len(accepted) /\ Len(accepted) <= i + 1 /\ Len(accepted) <= Len(mined)
        BY DEF RushInv, FlowInv
      <3> QED BY <2>1, <2>2, <2>3, <3>1, <3>2, <3>3 DEF FlowInv
    <2>8. MinerInv'
      BY <2>1, <2>2 DEF RushInv, MinerInv, Quiet, Gone
    <2>9. ChainInv'
      BY <2>1, <2>2 DEF RushInv, ChainInv
    <2> QED BY <2>6, <2>7, <2>8, <2>9 DEF RushInv
  <1>2. CASE Exit("monitor", "write", "killed") /\ UNCHANGED monitorPipe
    BY <1>2, EndKeeps DEF SendAnswer, pipes
  <1> QED BY <1>1, <1>2 DEF SendAnswer

LEMMA RushNext == RushInv /\ [Next]_vars => RushInv'
  <1> SUFFICES ASSUME RushInv, [Next]_vars PROVE RushInv'
    OBVIOUS
  <1>1. ASSUME NEW p \in {"miner", "monitor"}, Killed(p)
        PROVE  RushInv'
    BY <1>1, EndKeeps DEF Killed
  <1>2. CASE MineFails
    BY <1>2, EndKeeps DEF MineFails
  <1>3. CASE UNCHANGED vars
    BY <1>3 DEF vars, pipes, miner, monitor, RushInv, TypeInv, HolderInv, FlowInv, MinerInv, ChainInv,
                Quiet, Gone, Valid
  <1> QED BY <1>1, <1>2, <1>3, MrushKeeps, MinerClosesKeeps, MineKeeps, SendPairKeeps, GetAnswerKeeps,
             DecideKeeps, MonitorClosesKeeps, GetPairKeeps, CheckKeeps, SendAnswerKeeps
          DEF Next, Miner, Monitor

LEMMA RushSafe == Spec => []RushInv
  BY RushInit, RushNext, PTL DEF Spec

(* The variables keep their types, and minerPipe and monitorPipe together   *)
(* never hold more than one pair or answer: the write() calls of miner.c    *)
(* and monitor.c cannot fill a pipe.                                        *)
THEOREM OneUnderWay == Spec => []TypeOK
  <1>1. RushInv => TypeOK
    BY DEF RushInv, TypeInv, FlowInv, TypeOK
  <1> QED BY <1>1, RushSafe, PTL

(* The miner's loop counter advances on no answer but the monitor's verdict *)
(* on the pair of this round (miner.c, the do-while around write and read), *)
(* whoever fails or is killed; and it ends in success with as many accepted *)
(* pairs as mrush was asked for.                                            *)
THEOREM CountsWhatIsAccepted == Spec => []AdvancesOnlyAccepted
  <1>1. RushInv => AdvancesOnlyAccepted
    BY DEF RushInv, FlowInv, MinerInv, AdvancesOnlyAccepted
  <1> QED BY <1>1, RushSafe, PTL

(* The k-th pair the monitor prints as accepted answers the k-th target,    *)
(* unless no thread had that target's argument in its share and the old     *)
(* pair was sent again.                                                     *)
THEOREM ChainOfRounds == Spec => []ChainUnlessGap
  <1>1. RushInv => ChainUnlessGap
    BY DEF RushInv, ChainInv, Answers, ChainUnlessGap
  <1> QED BY <1>1, RushSafe, PTL
=============================================================================
