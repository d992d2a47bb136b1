-------------------------- MODULE SystemLifecycle --------------------------
(***************************************************************************)
(* The life of the segment SYSTEM_SHM ("/deadlift_shm") of Proyecto: who    *)
(* opens, creates, initialises, maps and unlinks it. Every process that     *)
(* leaves unlinks the NAME, not the segment it has mapped, so segments and  *)
(* the name are kept apart: a process stays on the segment it mapped.       *)
(*                                                                          *)
(* The rounds between registration and leaving are those of MinerRounds;    *)
(* the two sections that matter here, registration and deletion, are one    *)
(* step each, and so is the section that sets monitor_up. A semaphore is    *)
(* its value, and "asleep" is a sem_wait on a semaphore that was not        *)
(* initialised: sem_init forgets the sleeper, so only a signal wakes it.    *)
(* A wait is interrupted here only on a semaphore of value 0 that nobody    *)
(* holds (not initialised, or destroyed by the last miner); the sections    *)
(* that an interruption makes overlap are those of MinerRounds.             *)
(*                                                                          *)
(* Every miner forks a register child before it opens the segment, and      *)
(* waits for it at the end. What the child writes is the ledger of          *)
(* MinerRounds; here it lives until every write end of its pipe is closed.  *)
(* It has no handlers, so a signal for the whole process group (Ctrl-C, or  *)
(* kill(0, SIGUSR1) for an empty slot of the table) kills it.               *)
(***************************************************************************)
EXTENDS MinerLib, FiniteSets

CONSTANTS
  Procs,        \* miner processes that may be launched
  Monitors,     \* monitor programs that may be launched
  Seconds,      \* values of argv[1] they are launched with
  Threads,      \* values of argv[2]
  MaxSegments,  \* bound: segments ever created under the name
  MaxSignals,   \* bound: sem_waits and naps that a signal interrupts
  MaxFailures,  \* bound: error exits of running miners
  MaxKills      \* bound: register children killed by a signal

ASSUME LifecycleAssumption ==
  /\ IsFiniteSet(Procs) /\ IsFiniteSet(Monitors) /\ Procs \cap Monitors = {}
  /\ Seconds \subseteq Nat /\ Threads \subseteq Nat
  /\ MaxSegments \in Nat \ {0} /\ MaxSignals \in Nat /\ MaxFailures \in Nat
  /\ MaxKills \in Nat

Segments == 1 .. MaxSegments

NoSegment == 0

VARIABLES
  pc,       \* statement each process executes next
  n_sec,    \* argv[1] of each miner, 0 before it is launched
  name,     \* the segment the name refers to, or NoSegment
  created,  \* how many segments have been created
  mapped,   \* the segment each process has opened or mapped
  sized,    \* ftruncate has been called
  inits,    \* how many times the semaphore of a segment was initialised
  mutex,    \* its value
  members,  \* the processes in the table of a segment
  signals,  \* how many calls a signal has interrupted
  register, \* the register child of each miner
  writers   \* who holds the write end of its pipe

vars == <<pc, n_sec, name, created, mapped, sized, inits, mutex, members, signals,
          register, writers>>

segments == <<created, sized, inits>>
contents == <<mutex, members>>
child == <<register, writers>>

Goto(p, from, to) == pc[p] = from /\ pc' = [pc EXCEPT ![p] = to]

\* A process that closes its write end, or ends.
Exits(p) == writers' = [writers EXCEPT ![p] = @ \ {"miner"}] /\ UNCHANGED register

Init ==
  /\ pc = [p \in Procs \cup Monitors |-> "start"]
  /\ n_sec = [p \in Procs |-> 0]
  /\ name = NoSegment /\ created = 0 /\ signals = 0
  /\ mapped = [p \in Procs \cup Monitors |-> NoSegment]
  /\ sized = [s \in Segments |-> FALSE] /\ inits = [s \in Segments |-> 0]
  /\ mutex = [s \in Segments |-> 0] /\ members = [s \in Segments |-> {}]
  /\ register = [p \in Procs |-> "none"] /\ writers = [p \in Procs |-> {}]

-----------------------------------------------------------------------------
(* A miner starts.                                                          *)

(* ./miner <NSECONDS> <NTHREADS>: check_args exits unless it likes both.    *)
(* Then pipe and fork: from here on both processes hold its write end.      *)
Launch(p) ==
  /\ \E sec \in Seconds, thr \in Threads :
       /\ n_sec' = [n_sec EXCEPT ![p] = sec]
       /\ \/ ~CheckArgs(3, sec, thr) /\ Goto(p, "start", "refused") /\ UNCHANGED child
          \/ /\ CheckArgs(3, sec, thr) /\ Goto(p, "start", "open")
             /\ register' = [register EXCEPT ![p] = "forked"]
             /\ writers' = [writers EXCEPT ![p] = {"miner", "register"}]
  /\ UNCHANGED <<name, segments, mapped, contents, signals>>

Open_IgnoresMissing(p) ==  \* faulty variant: fd_shm == -1 is not looked at
  /\ Goto(p, "open", "check_room") /\ mapped' = [mapped EXCEPT ![p] = name]
  /\ UNCHANGED <<n_sec, name, segments, contents, signals, child>>

(* fd_shm = shm_open(SYSTEM_SHM, O_RDWR): decides who is the first miner.   *)
Open(p) ==
  /\ Goto(p, "open", IF name = NoSegment THEN "create" ELSE "check_room")
  /\ mapped' = [mapped EXCEPT ![p] = name]
  /\ UNCHANGED <<n_sec, name, segments, contents, signals, child>>

NewSegment(p) ==
  /\ name = NoSegment /\ created < MaxSegments /\ Goto(p, "create", "truncate")
  /\ created' = created + 1 /\ name' = created'
  /\ mapped' = [mapped EXCEPT ![p] = created']

LoseRace_NotExclusive(p) ==  \* faulty variant: without O_EXCL it opens the segment
  /\ name # NoSegment /\ Goto(p, "create", "truncate")
  /\ mapped' = [mapped EXCEPT ![p] = name] /\ UNCHANGED <<name, created>>

LoseRace_Unlinks(p) ==  \* faulty variant: cleans up as the exits below it do
  /\ name # NoSegment /\ Goto(p, "create", "lost_race")
  /\ name' = NoSegment /\ UNCHANGED <<mapped, created>>

LoseRace(p) ==
  /\ name # NoSegment /\ Goto(p, "create", "lost_race")
  /\ UNCHANGED <<name, mapped, created>>

(* create_system: shm_open(O_CREAT | O_EXCL); the loser of a race exits.    *)
Create(p) ==
  /\ \/ NewSegment(p) /\ UNCHANGED child
     \/ LoseRace(p) /\ Exits(p)
  /\ UNCHANGED <<n_sec, sized, inits, contents, signals>>

(* ... then ftruncate, and sem_init(&mutex, 1, 1).                          *)
Initialise(p) ==
  /\ \/ /\ Goto(p, "truncate", "sem_init")
        /\ sized' = [sized EXCEPT ![mapped[p]] = TRUE]
        /\ UNCHANGED <<inits, mutex>>
     \/ /\ Goto(p, "sem_init", "reg_wait")
        /\ inits' = [inits EXCEPT ![mapped[p]] = @ + 1]
        /\ mutex' = [mutex EXCEPT ![mapped[p]] = 1]
        /\ UNCHANGED sized
  /\ UNCHANGED <<n_sec, name, created, mapped, members, signals, child>>

(* if(system->num_miners == MAX_MINERS) { shm_unlink; exit }. Reading a     *)
(* segment that has no size yet kills the process (SIGBUS).                 *)
CheckRoom(p) ==
  /\ pc[p] = "check_room"
  /\ LET s == mapped[p]
     IN  \/ /\ ~sized[s] /\ Goto(p, "check_room", "killed")
            /\ Exits(p) /\ UNCHANGED name
         \/ /\ sized[s] /\ Cardinality(members[s]) = MAX_MINERS
            /\ Goto(p, "check_room", "full") /\ Exits(p) /\ name' = NoSegment
         \/ /\ sized[s] /\ Cardinality(members[s]) # MAX_MINERS
            /\ Goto(p, "check_room", "reg_wait") /\ UNCHANGED <<name, child>>
  /\ UNCHANGED <<n_sec, mapped, segments, contents, signals>>

(* sem_wait on a semaphore of zeros.                                        *)
FallAsleep(p) ==
  /\ Goto(p, "reg_wait", "asleep") /\ inits[mapped[p]] = 0 /\ mutex[mapped[p]] = 0
  /\ UNCHANGED <<n_sec, name, mapped, segments, contents, signals, child>>

(* sem_wait; miners[num_miners++] = this_miner; sem_post.                   *)
Register(p) ==
  /\ Goto(p, "reg_wait", "running") /\ mutex[mapped[p]] > 0
  /\ members' = [members EXCEPT ![mapped[p]] = @ \cup {p}]
  /\ UNCHANGED <<n_sec, name, mapped, segments, mutex, signals, child>>

(* sem_wait returned EINTR: the same without the mutex, and sem_post all    *)
(* the same.                                                                *)
RegisterInterrupted(p) ==
  /\ signals < MaxSignals /\ signals' = signals + 1
  /\ \/ Goto(p, "asleep", "running")
     \/ Goto(p, "reg_wait", "running") /\ mutex[mapped[p]] = 0
  /\ members' = [members EXCEPT ![mapped[p]] = @ \cup {p}]
  /\ mutex' = [mutex EXCEPT ![mapped[p]] = @ + 1]
  /\ UNCHANGED <<n_sec, name, mapped, segments, child>>

-----------------------------------------------------------------------------
(* A miner leaves.                                                          *)

(* After the rounds, close(miner2register[1]): no more blocks for the ledger. *)
Shutdown(p) ==
  /\ Goto(p, "running", "leaving") /\ Exits(p)
  /\ UNCHANGED <<n_sec, name, mapped, segments, contents, signals>>

Last(p) == Cardinality(members[mapped[p]]) = 1

Delete_Forgotten(p) == UNCHANGED members  \* faulty variant

(* What delete_miner does to a table; the process need not be in it.        *)
Delete(p) == members' = [members EXCEPT ![mapped[p]] = @ \ {p}]

UnlinksAtTheEnd_NotLast(p) == FALSE  \* faulty variant: the last miner forgets it

\* Both branches of the end of main unlink the name.
UnlinksAtTheEnd(p) == TRUE

(* The last miner: sem_destroy, delete_miner, shm_unlink; no sem_post and no *)
(* wait for its register.                                                   *)
LeaveLast(p) ==
  /\ Goto(p, "leaving", IF UnlinksAtTheEnd(p) THEN "unlink_last" ELSE "left")
  /\ Last(p) /\ mutex[mapped[p]] > 0
  /\ mutex' = [mutex EXCEPT ![mapped[p]] = @ - 1] /\ Delete(p)
  /\ UNCHANGED <<n_sec, name, mapped, segments, signals, child>>

(* Any other miner: delete_miner, sem_post, shm_unlink.                     *)
Leave(p) ==
  /\ Goto(p, "leaving", "unlink") /\ ~Last(p) /\ mutex[mapped[p]] > 0
  /\ Delete(p)
  /\ UNCHANGED <<n_sec, name, mapped, segments, mutex, signals, child>>

(* shm_unlink(SYSTEM_SHM): whatever the name refers to by now.              *)
Unlink(p) ==
  /\ Goto(p, "unlink", "wait") \/ Goto(p, "unlink_last", "left")
  /\ name' = NoSegment
  /\ UNCHANGED <<n_sec, mapped, segments, contents, signals, child>>

(* wait(NULL) for the register; a signal ends the wait as well.             *)
Wait(p) ==
  /\ Goto(p, "wait", "left")
  /\ \/ register[p] \in {"ended", "killed"} /\ UNCHANGED signals
     \/ signals < MaxSignals /\ signals' = signals + 1
  /\ UNCHANGED <<n_sec, name, mapped, segments, contents, child>>

(* nanosleep interrupted: sem_destroy, shm_unlink, exit; p stays listed.    *)
LeaveFromNap(p) ==
  /\ signals < MaxSignals /\ signals' = signals + 1
  /\ Goto(p, "running", "failed") /\ Exits(p) /\ name' = NoSegment
  /\ UNCHANGED <<n_sec, mapped, segments, contents>>

(* The other error exits of a running miner leave the name alone, and so    *)
(* does SIGPIPE, which kills a miner that writes a block to no reader.      *)
Fail(p) ==
  /\ \/ Cardinality({q \in Procs : pc[q] = "failed"}) < MaxFailures
     \/ register[p] = "killed"
  /\ Goto(p, "running", "failed") /\ Exits(p)
  /\ UNCHANGED <<n_sec, name, mapped, segments, contents, signals>>

-----------------------------------------------------------------------------
(* The register child.                                                      *)

RegisterCloses_KeepsWriter(p) ==  \* faulty variant: its own copy stays open
  /\ register[p] = "forked" /\ register' = [register EXCEPT ![p] = "reading"]
  /\ UNCHANGED writers

(* close(miner2register[1]): only then can its read report the end.         *)
RegisterCloses(p) ==
  /\ register[p] = "forked" /\ register' = [register EXCEPT ![p] = "reading"]
  /\ writers' = [writers EXCEPT ![p] = @ \ {"register"}]

(* read returns 0 when nobody is left that could write; then exit(0).       *)
RegisterEnds(p) ==
  /\ register[p] = "reading" /\ writers[p] = {}
  /\ register' = [register EXCEPT ![p] = "ended"] /\ UNCHANGED writers

RegisterKilled(p) ==
  /\ Cardinality({q \in Procs : register[q] = "killed"}) < MaxKills
  /\ register[p] \in {"forked", "reading"}
  /\ register' = [register EXCEPT ![p] = "killed"]
  /\ writers' = [writers EXCEPT ![p] = @ \ {"register"}]

RegisterRuns(p) ==
  /\ RegisterCloses(p) \/ RegisterEnds(p)
  /\ UNCHANGED <<pc, n_sec, name, mapped, segments, contents, signals>>

RegisterDies(p) ==
  /\ RegisterKilled(p)
  /\ UNCHANGED <<pc, n_sec, name, mapped, segments, contents, signals>>

-----------------------------------------------------------------------------
(* The comprobador opens the segment when it finds one, sets monitor_up in  *)
(* it and, at its end, unlinks the name as well.                            *)
MonitorOpens(c) ==
  /\ name # NoSegment /\ Goto(c, "start", "notify")
  /\ mapped' = [mapped EXCEPT ![c] = name]
  /\ UNCHANGED <<n_sec, name, segments, contents, signals, child>>

Notify(c) ==
  /\ pc[c] = "notify"
  /\ LET s == mapped[c]
     IN  \/ ~sized[s] /\ Goto(c, "notify", "killed")
         \/ sized[s] /\ inits[s] = 0 /\ mutex[s] = 0 /\ Goto(c, "notify", "asleep")
         \/ mutex[s] > 0 /\ Goto(c, "notify", "notified")
  /\ UNCHANGED <<n_sec, name, mapped, segments, contents, signals, child>>

(* SIGINT while it sleeps in that sem_wait: it posts without having waited. *)
NotifyInterrupted(c) ==
  /\ signals < MaxSignals /\ signals' = signals + 1
  /\ \/ Goto(c, "asleep", "notified")
     \/ /\ Goto(c, "notify", "notified")
        /\ sized[mapped[c]] /\ mutex[mapped[c]] = 0
  /\ mutex' = [mutex EXCEPT ![mapped[c]] = @ + 1]
  /\ UNCHANGED <<n_sec, name, mapped, segments, members, child>>

MonitorLeaves(c) ==
  /\ Goto(c, "notified", "left") /\ name' = NoSegment
  /\ UNCHANGED <<n_sec, mapped, segments, contents, signals, child>>

-----------------------------------------------------------------------------
Starts(p) ==
  Launch(p) \/ Open(p) \/ Create(p) \/ Initialise(p) \/ CheckRoom(p)
  \/ FallAsleep(p) \/ Register(p) \/ RegisterInterrupted(p)

Leaves(p) ==
  Shutdown(p) \/ LeaveLast(p) \/ Leave(p) \/ Unlink(p) \/ Wait(p)
  \/ LeaveFromNap(p) \/ Fail(p)

Monitor(c) ==
  MonitorOpens(c) \/ Notify(c) \/ NotifyInterrupted(c) \/ MonitorLeaves(c)

Next ==
  \/ \E p \in Procs : Starts(p) \/ Leaves(p) \/ RegisterRuns(p) \/ RegisterDies(p)
  \/ \E c \in Monitors : Monitor(c)

Spec == Init /\ [][Next]_vars

-----------------------------------------------------------------------------
Ended == {"refused", "lost_race", "killed", "full", "left", "failed"}

Labels == Ended \cup
  { "start", "open", "create", "truncate", "sem_init", "check_room", "reg_wait",
    "asleep", "running", "leaving", "unlink", "unlink_last", "wait",
    "notify", "notified" }

(* Types; a process behind its shm_open has a segment.                      *)
TypeOK ==
  /\ pc \in [Procs \cup Monitors -> Labels]
  /\ n_sec \in [Procs -> Seconds \cup {0}]
  /\ name \in {NoSegment} \cup 1 .. created /\ created \in 0 .. MaxSegments
  /\ mapped \in [Procs \cup Monitors -> {NoSegment} \cup 1 .. created]
  /\ \A p \in Procs \cup Monitors :
       mapped[p] = NoSegment =>
         pc[p] \in {"start", "refused", "open", "create", "lost_race"}
  /\ sized \in [Segments -> BOOLEAN] /\ inits \in [Segments -> Nat]
  /\ mutex \in [Segments -> Nat] /\ members \in [Segments -> SUBSET Procs]
  /\ signals \in 0 .. MaxSignals
  /\ register \in [Procs -> {"none", "forked", "reading", "ended", "killed"}]
  /\ writers \in [Procs -> SUBSET {"miner", "register"}]

(* However many first miners race, a segment is initialised once and by one *)
(* process: nobody resets the semaphore of a network that is running.       *)
InitialisedOnce ==
  /\ \A s \in Segments : inits[s] <= 1
  /\ \A p, q \in Procs : mapped[p] = mapped[q] /\ p # q =>
       ~(pc[p] \in {"truncate", "sem_init"} /\ pc[q] \in {"truncate", "sem_init"})

(* Until a process leaves, all that came as far as mapping a segment are on *)
(* the one segment that the name refers to.                                 *)
SharedUntilSomeoneLeaves ==
  (\A p \in Procs \cup Monitors : pc[p] \notin {"full", "wait", "left", "failed"}) =>
    \A p \in Procs \cup Monitors : mapped[p] \in {NoSegment, name}

(* The name of a segment does not outlive its processes: when every miner   *)
(* ended without an error exit, no name is left to be found by the next one. *)
NoLeftover ==
  (\A p \in Procs \cup Monitors :
     pc[p] \in {"start", "refused", "lost_race", "full", "wait", "left"})
    => name = NoSegment

(* Every segment lists exactly its own running miners and those that left   *)
(* it through an error exit, however many networks there are by now.        *)
TableExact ==
  \A s \in Segments :
    members[s] = {p \in Procs :
      mapped[p] = s /\ pc[p] \in {"running", "leaving", "failed"}}

(* The ledger ends with its miner, not before and not later. While a miner   *)
(* mines, its register still takes blocks, unless a signal killed it; and a  *)
(* register that outlives its miner, or that the miner waits for, finds no   *)
(* write end open, its own included, so its read does report the end.        *)
LedgerEndsWithMiner ==
  \A p \in Procs :
    /\ pc[p] = "running" => register[p] # "ended"
    /\ pc[p] \in Ended \cup {"wait"} /\ register[p] = "reading" => writers[p] = {}

-----------------------------------------------------------------------------
(* What the assignment and the messages say and the program does not do.    *)

(* "once the first miner is launched, any other joins the network": miners  *)
(* that run at the same time share one segment.                             *)
OneNetwork ==
  \A p, q \in Procs : pc[p] = "running" /\ pc[q] = "running" => mapped[p] = mapped[q]

(* "open the segment ..., guaranteeing that it has been initialised before": *)
(* who waits for the mutex of a segment finds it initialised.               *)
JoinsInitialised ==
  \A p \in Procs : pc[p] \in {"reg_wait", "asleep"} => inits[mapped[p]] = 1

(* "NSECONDS must be a value between 0 and 60".                             *)
SecondsInRange ==
  \A p \in Procs : pc[p] \notin {"start", "refused"} => n_sec[p] \in 0 .. 60
=============================================================================
