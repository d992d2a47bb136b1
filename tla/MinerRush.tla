----------------------------- MODULE MinerRush -----------------------------
(***************************************************************************)
(* P1/Ejercicio13: mrush forks a miner and a monitor that talk over two     *)
(* pipes. Each round the miner's threads search for the target's argument   *)
(* (PowSearch has the same search thread by thread, here it is one step),   *)
(* the miner sends the pair <target, solution> down minerPipe and waits for *)
(* the verdict on monitorPipe. When a pipe ends is decided by who still     *)
(* holds its descriptors, so the copies that fork makes and that the        *)
(* processes close are state. One step is one system call.                  *)
(***************************************************************************)
EXTENDS Pow, Sequences, FiniteSets

CONSTANTS
  MaxRounds,   \* bound: argv[2], the rounds mrush is asked for
  MaxFailures, \* bound: fork, malloc or pthread_create calls that fail
  MaxKills     \* bound: processes killed from outside

ASSUME RushAssumption ==
  MaxRounds \in Nat \ {0} /\ MaxFailures \in Nat /\ MaxKills \in Nat

Processes == {"mrush", "miner", "monitor"}

\* The four pipe ends.
Ends == {"minerPipe[0]", "minerPipe[1]", "monitorPipe[0]", "monitorPipe[1]"}

VARIABLES
  pc,          \* statement each process executes next
  holders,     \* processes that hold each pipe end open
  minerPipe, monitorPipe,  \* what is in the pipes
  rounds, i,   \* argv[2] and the loop counter of the miner
  target,      \* local target of the miner
  pipeData,    \* its global pair
  magicFlag,   \* its threads have found the solution
  resp,        \* its last answer; an uninitialised short before the first one
  nbytes,      \* what its last read returned
  readData,    \* the pair the monitor is checking
  accepted,    \* pairs the monitor has printed as accepted, in order
  mined,       \* targets of the rounds, in order
  failures, kills  \* counters of the bounds

miner == <<rounds, i, target, pipeData, magicFlag, resp, nbytes, mined>>
monitor == <<readData, accepted>>
pipes == <<minerPipe, monitorPipe>>
bounds == <<failures, kills>>
vars == <<pc, holders, pipes, miner, monitor, bounds>>

Pair(t, s) == [target |-> t, solution |-> s]

NoPair == Pair(0, 0)  \* a static struct is zero

Ended == {"success", "failure", "killed"}

Goto(p, from, to) == pc[p] = from /\ pc' = [pc EXCEPT ![p] = to]

\* p closes, or loses by exiting, its copies of some pipe ends.
Close(p, which) ==
  holders' = [e \in Ends |-> IF e \in which THEN holders[e] \ {p} ELSE holders[e]]

Exit(p, from, to) == Goto(p, from, to) /\ Close(p, Ends)

(* mrush has checked its arguments (0 <= target <= POW_LIMIT, rounds > 0)   *)
(* and created both pipes.                                                  *)
Init ==
  /\ pc = [p \in Processes |-> IF p = "mrush" THEN "fork_miner" ELSE "none"]
  /\ holders = [e \in Ends |-> {"mrush"}]
  /\ minerPipe = <<>> /\ monitorPipe = <<>>
  /\ target \in 0 .. POW_LIMIT /\ rounds \in 1 .. MaxRounds
  /\ i = 0 /\ pipeData = NoPair /\ magicFlag = 0 /\ resp \in BOOLEAN /\ nbytes = 0
  /\ readData = NoPair /\ accepted = <<>> /\ mined = <<>>
  /\ failures = 0 /\ kills = 0

-----------------------------------------------------------------------------
(* mrush.                                                                   *)

(* fork: the child gets a copy of every descriptor mrush holds.             *)
Fork(from, child, to) ==
  \/ /\ pc["mrush"] = from
     /\ pc' = [pc EXCEPT !["mrush"] = to, ![child] = "close"]
     /\ holders' = [e \in Ends |-> IF "mrush" \in holders[e]
                                   THEN holders[e] \cup {child} ELSE holders[e]]
     /\ UNCHANGED <<pipes, miner, monitor, bounds>>
  \/ /\ failures < MaxFailures /\ failures' = failures + 1
     /\ Exit("mrush", from, "failure")
     /\ UNCHANGED <<pipes, miner, monitor, kills>>

CloseAll ==
  /\ Goto("mrush", "close", "wait") /\ Close("mrush", Ends)
  /\ UNCHANGED <<pipes, miner, monitor, bounds>>

(* Its two threads wait for one child each and are joined.                  *)
WaitForBoth ==
  /\ pc["miner"] \in Ended /\ pc["monitor"] \in Ended
  /\ Exit("mrush", "wait", "success")
  /\ UNCHANGED <<pipes, miner, monitor, bounds>>

Main ==
  \/ Fork("fork_miner", "miner", "fork_monitor")
  \/ Fork("fork_monitor", "monitor", "close")
  \/ CloseAll \/ WaitForBoth

-----------------------------------------------------------------------------
(* The miner.                                                               *)

MinerCloses ==
  /\ Goto("miner", "close", "mine")
  /\ Close("miner", {"monitorPipe[1]", "minerPipe[0]"})
  /\ UNCHANGED <<pipes, miner, monitor, bounds>>

(* One round of the threads: who finds an argument stores the pair and      *)
(* raises the flag; when nobody does, the pair of the last round is still   *)
(* there.                                                                   *)
Mine ==
  /\ \/ /\ i < rounds /\ Goto("miner", "mine", "write") /\ UNCHANGED holders
        /\ mined' = Append(mined, target)
        /\ IF magicFlag = 1 \/ Findable(target) = {}
           THEN UNCHANGED <<pipeData, magicFlag>>
           ELSE /\ \E x \in Findable(target) : pipeData' = Pair(target, x)
                /\ magicFlag' = 1
     \/ /\ i = rounds /\ Exit("miner", "mine", "success")
        /\ UNCHANGED <<mined, pipeData, magicFlag>>
  /\ UNCHANGED <<pipes, rounds, i, target, resp, nbytes, monitor, bounds>>

MineFails ==
  /\ failures < MaxFailures /\ failures' = failures + 1
  /\ Exit("miner", "mine", "failure")
  /\ UNCHANGED <<pipes, miner, monitor, kills>>

(* write: SIGPIPE kills the writer when nobody can read.                    *)
SendPair ==
  /\ \/ /\ holders["minerPipe[0]"] # {} /\ Goto("miner", "write", "read")
        /\ minerPipe' = Append(minerPipe, pipeData) /\ UNCHANGED holders
     \/ /\ holders["minerPipe[0]"] = {} /\ Exit("miner", "write", "killed")
        /\ UNCHANGED minerPipe
  /\ UNCHANGED <<monitorPipe, miner, monitor, bounds>>

EndOfFile_NonBlocking(pipe, end) == pipe = <<>>  \* faulty variant

\* An empty pipe ends when nobody holds its writing end.
EndOfFile(pipe, end) == pipe = <<>> /\ holders[end] = {}

(* read: an answer, or end of file when nobody can write; then resp keeps   *)
(* what it had.                                                             *)
GetAnswer ==
  /\ Goto("miner", "read", "decide")
  /\ \/ /\ monitorPipe # <<>> /\ monitorPipe' = Tail(monitorPipe)
        /\ resp' = Head(monitorPipe) /\ nbytes' = 2
     \/ /\ EndOfFile(monitorPipe, "monitorPipe[1]")
        /\ nbytes' = 0 /\ UNCHANGED <<monitorPipe, resp>>
  /\ UNCHANGED <<holders, minerPipe, rounds, i, target, pipeData, magicFlag, mined, monitor,
                 bounds>>

Answered_Always == TRUE  \* faulty variant: no while(nbytes < sizeof(short))

Answered == nbytes = 2

NextMagicFlag_Kept == magicFlag  \* faulty variant: the flag is not reset

NextMagicFlag == 0

(* An invalidated solution ends the miner, no answer sends the pair again,  *)
(* a validated one is the next target.                                      *)
Decide ==
  /\ \/ /\ ~resp /\ Exit("miner", "decide", "failure")
        /\ UNCHANGED <<i, target, magicFlag>>
     \/ /\ resp /\ ~Answered /\ Goto("miner", "decide", "write")
        /\ UNCHANGED <<holders, i, target, magicFlag>>
     \/ /\ resp /\ Answered /\ Goto("miner", "decide", "mine")
        /\ target' = pipeData.solution /\ i' = i + 1
        /\ magicFlag' = NextMagicFlag /\ UNCHANGED holders
  /\ UNCHANGED <<pipes, rounds, pipeData, resp, nbytes, mined, monitor, bounds>>

Miner == MinerCloses \/ Mine \/ SendPair \/ GetAnswer \/ Decide

-----------------------------------------------------------------------------
(* The monitor.                                                             *)

MonitorsCopies_KeepsWriter == {"monitorPipe[0]"}  \* faulty variant

\* The copies the monitor has no use for.
MonitorsCopies == {"monitorPipe[0]", "minerPipe[1]"}

MonitorCloses ==
  /\ Goto("monitor", "close", "read") /\ Close("monitor", MonitorsCopies)
  /\ UNCHANGED <<pipes, miner, monitor, bounds>>

GetPair ==
  /\ \/ /\ minerPipe # <<>> /\ Goto("monitor", "read", "check")
        /\ readData' = Head(minerPipe) /\ minerPipe' = Tail(minerPipe)
        /\ UNCHANGED holders
     \/ /\ EndOfFile(minerPipe, "minerPipe[1]")
        /\ Exit("monitor", "read", "success") /\ UNCHANGED <<readData, minerPipe>>
  /\ UNCHANGED <<monitorPipe, miner, accepted, bounds>>

Valid(pair) == pow_hash(pair.solution) = pair.target

(* Print the verdict, then write it; SIGPIPE if the miner is gone.          *)
Check ==
  /\ Goto("monitor", "check", "write")
  /\ accepted' = IF Valid(readData) THEN Append(accepted, readData) ELSE accepted
  /\ UNCHANGED <<holders, pipes, miner, readData, bounds>>

SendAnswer ==
  /\ \/ /\ holders["monitorPipe[0]"] # {} /\ Goto("monitor", "write", "read")
        /\ monitorPipe' = Append(monitorPipe, Valid(readData)) /\ UNCHANGED holders
     \/ /\ holders["monitorPipe[0]"] = {} /\ Exit("monitor", "write", "killed")
        /\ UNCHANGED monitorPipe
  /\ UNCHANGED <<minerPipe, miner, monitor, bounds>>

Monitor == MonitorCloses \/ GetPair \/ Check \/ SendAnswer

(* A child is killed from outside, which mrush reports as "abnormally".     *)
Killed(p) ==
  /\ kills < MaxKills /\ kills' = kills + 1
  /\ pc[p] \notin Ended \cup {"none"} /\ Exit(p, pc[p], "killed")
  /\ UNCHANGED <<pipes, miner, monitor, failures>>

Next == Main \/ Miner \/ MineFails \/ Monitor \/ Killed("miner") \/ Killed("monitor")

Spec == Init /\ [][Next]_vars

(* The kernel schedules all three processes; nothing has to fail.           *)
FairSpec == Spec /\ WF_vars(Main) /\ WF_vars(Miner) /\ WF_vars(Monitor)

-----------------------------------------------------------------------------
(* Properties.                                                              *)

Pairs == [target : 0 .. POW_LIMIT, solution : 0 .. POW_LIMIT - 1]

(* Types; at most one pair and one answer are in the pipes.                 *)
TypeOK ==
  /\ holders \in [Ends -> SUBSET Processes]
  /\ minerPipe \in Seq(Pairs) /\ monitorPipe \in Seq(BOOLEAN)
  /\ Len(minerPipe) + Len(monitorPipe) <= 1
  /\ rounds \in 1 .. MaxRounds /\ i \in 0 .. rounds
  /\ target \in 0 .. POW_LIMIT /\ pipeData \in Pairs /\ readData \in Pairs
  /\ magicFlag \in {0, 1} /\ resp \in BOOLEAN /\ nbytes \in {0, 2}

(* A round is counted exactly when the monitor accepted its pair: the miner *)
(* never advances on an answer that is stale, lost with a killed monitor or *)
(* left over from an earlier round.                                         *)
AdvancesOnlyAccepted ==
  /\ i <= Len(accepted) /\ Len(accepted) <= i + 1
  /\ pc["miner"] = "success" => Len(accepted) = rounds

(* What the miner reports as its chain is one: each accepted pair answers   *)
(* the target of its round, unless the threads had no such argument to      *)
(* search.                                                                  *)
ChainUnlessGap ==
  \A k \in DOMAIN accepted :
    accepted[k].target = mined[k] \/ Findable(mined[k]) = {}

(* mrush ends, with both children reaped, whoever is killed or fails: every *)
(* read that can get no more data sees the end of its pipe. Its children    *)
(* end too when mrush itself could not fork.                                *)
EveryoneEnds ==
  /\ <>(pc["mrush"] \in Ended)
  /\ \A p \in {"miner", "monitor"} : [](pc[p] # "none" => <>(pc[p] \in Ended))

-----------------------------------------------------------------------------
(* "the miner sends the target and the solution it obtained": what is       *)
(* accepted in a round answers the target of that round.                    *)
AcceptedAnswersRound == \A k \in DOMAIN accepted : accepted[k].target = mined[k]
=============================================================================
