---------------------------- MODULE MonitorRing ----------------------------
(***************************************************************************)
(* Proyecto/launch/monitor_launch.c and the sending side of                 *)
(* miner_launch.c: winners put blocks into a POSIX message queue while the  *)
(* flag System.monitor_up is set; the comprobador moves them into a ring in *)
(* shared memory; the monitor, its child, prints them. One step is one      *)
(* system call or one statement on shared data.                             *)
(*                                                                          *)
(* SIGINT is handled without SA_RESTART: it makes a blocked sem_wait return *)
(* without a token (its result is ignored) and a blocked mq_receive or      *)
(* mq_send return -1. The System semaphore around the flag is left to       *)
(* MinerRounds: here an assignment to monitor_up is one step.               *)
(***************************************************************************)
EXTENDS Integers, Sequences, FiniteSets

CONSTANTS
  Winners,        \* miners that may win, each with its own queue descriptor
  Total, Fav,     \* votes and favourable votes of the i-th block that is won
  BUFFER_LENGTH,  \* slots of SharedMemory.blocks (10)
  Wrap,           \* values of the uint8_t reading and writing (256)
  MAX_MSG,        \* capacity of the message queue (9)
  Passed,         \* blocks that passed the ring before the initial state
  MaxBlocks,      \* bound: blocks won from the initial state on
  MaxInts,        \* bound: SIGINTs that reach the two processes
  MaxQueues,      \* bound: message queues ever created under MQ_NAME
  MaxLost         \* bound: mq_sends and mq_opens that fail

Procs == {"comprobador", "monitor"}

ASSUME RingAssumption ==
  /\ IsFiniteSet(Winners) /\ Winners \cap Procs = {}
  /\ BUFFER_LENGTH \in Nat \ {0} /\ Wrap \in Nat \ {0}
  /\ MAX_MSG \in Nat \ {0} /\ Passed \in Nat /\ MaxBlocks \in Nat
  /\ Total \in [0 .. MaxBlocks -> 0 .. 255] /\ Fav \in [0 .. MaxBlocks -> 0 .. 255]
  /\ MaxInts \in Nat /\ MaxQueues \in Nat \ {0} /\ MaxLost \in Nat

VARIABLES
  pc,            \* next statement of each winner, comprobador and monitor
  \* SharedMemory
  segment,       \* the name SHM_NAME: absent, empty, sized, ready, or gone
  blocks, using, reading, writing,
  gym_mutex, gym_empty, gym_fill,
  \* message queues
  queues,        \* contents of every queue ever created
  name,          \* the queue MQ_NAME refers to, 0 if none
  mq,            \* descriptor of each winner: -2, -1 or a queue
  inbox,         \* descriptor of the comprobador: its queue, 0 before mq_open
  \* System
  system_shm,    \* the miners' segment exists
  monitor_up,
  \* locals
  won,           \* how many blocks have been won
  current,       \* the block a winner is sending
  msg,           \* the comprobador's message
  read_block,    \* the monitor's copy (a block is its number, 0 is no block)
  num_miners,    \* the monitor's idea of how many miners voted
  shutdown,      \* flag of the handler in each of the two processes
  sigint,        \* SIGINT generated and not delivered
  ints, lost,    \* counters of the bounds
  interrupted,   \* a system call of the two processes returned EINTR
  sent, printed, \* blocks accepted by the comprobador's queue; blocks printed
  verdicts       \* of the printed blocks: TRUE for "(validated)"

ring   == <<segment, blocks, using, reading, writing>>
sems   == <<gym_mutex, gym_empty, gym_fill>>
queue  == <<queues, name, mq, inbox>>
flag   == <<system_shm, monitor_up>>
locals == <<won, current, msg, read_block, num_miners, lost>>
signal == <<shutdown, sigint, ints, interrupted>>
seen   == <<sent, printed, verdicts>>
vars   == <<pc, ring, sems, queue, flag, locals, signal, seen>>

Goto(p, from, to) == pc[p] = from /\ pc' = [pc EXCEPT ![p] = to]

Indices == 0 .. BUFFER_LENGTH - 1

(* A uint8_t counter and the slot it selects.                               *)
Incremented(counter) == (counter + 1) % Wrap

Index(counter) == counter % BUFFER_LENGTH

(* The processes are forked; Passed blocks have gone through an old ring    *)
(* when the initial state is the middle of a session.                       *)
Init ==
  /\ IF Passed = 0
     THEN /\ pc = [p \in Winners \cup Procs |->
                     CASE p = "comprobador" -> "create" [] p = "monitor" -> "open"
                       [] OTHER -> "idle"]
          /\ segment = "absent" /\ using = 0 /\ gym_mutex = 0 /\ gym_empty = 0
          /\ name = 0 /\ inbox = 0 /\ monitor_up = 0
          /\ queues = [q \in 1 .. MaxQueues |-> <<>>]
     ELSE /\ pc = [p \in Winners \cup Procs |->
                     IF p \in Procs THEN "loop" ELSE "idle"]
          /\ segment = "ready" /\ using = 1 /\ gym_mutex = 1
          /\ gym_empty = BUFFER_LENGTH
          /\ name = 1 /\ inbox = 1 /\ monitor_up = 1
          /\ queues = [q \in 1 .. MaxQueues |-> <<>>]
  /\ gym_fill = 0
  /\ blocks = [i \in Indices |-> 0]
  /\ reading = Passed % Wrap /\ writing = Passed % Wrap
  /\ mq = [w \in Winners |-> -2]
  /\ system_shm \in BOOLEAN
  /\ won = 0 /\ current = [w \in Winners |-> 0] /\ msg = 0 /\ read_block = 0
  /\ num_miners = 0 /\ verdicts = <<>>
  /\ shutdown = [p \in Procs |-> FALSE] /\ sigint = [p \in Procs |-> FALSE]
  /\ ints = 0 /\ lost = 0 /\ interrupted = FALSE
  /\ sent = <<>> /\ printed = <<>>

-----------------------------------------------------------------------------
(* The winner: if(monitor_up == 1) send_queue(block); else mq = -2;         *)

Win(w) ==
  /\ system_shm /\ won < MaxBlocks /\ won' = won + 1
  /\ current' = [current EXCEPT ![w] = won + 1]
  /\ Goto(w, "idle", "check")
  /\ UNCHANGED <<ring, sems, queue, flag, msg, read_block, num_miners, lost, signal, seen>>

CheckMonitor(w) ==
  /\ \/ monitor_up = 1 /\ UNCHANGED mq
        /\ Goto(w, "check", IF mq[w] = -2 THEN "open_queue" ELSE "send")
     \/ monitor_up # 1 /\ mq' = [mq EXCEPT ![w] = -2] /\ Goto(w, "check", "idle")
  /\ UNCHANGED <<ring, sems, queues, name, inbox, flag, locals, signal, seen>>

OpenQueue_AlwaysNew(next) ==  \* faulty variant: as if the name were not shared
  /\ next \in 1 .. MaxQueues /\ queues[next] = <<>>
  /\ next # inbox /\ \A w \in Winners : mq[w] # next

(* mq_open(MQ_NAME, O_CREAT): the queue of that name, or a new one.         *)
OpenQueue(next) ==
  \/ name # 0 /\ next = name
  \/ name = 0 /\ next \in 1 .. MaxQueues /\ queues[next] = <<>>
     /\ next # inbox /\ \A w \in Winners : mq[w] # next

OpenForSending(w) ==
  /\ \/ \E q \in 1 .. MaxQueues :
          OpenQueue(q) /\ name' = q /\ mq' = [mq EXCEPT ![w] = q]
        /\ Goto(w, "open_queue", "send") /\ UNCHANGED lost
     \/ /\ lost < MaxLost /\ lost' = lost + 1
        /\ mq' = [mq EXCEPT ![w] = -1]  \* mq_open failed: the block is not sent
        /\ Goto(w, "open_queue", "idle") /\ UNCHANGED name
  /\ UNCHANGED <<ring, sems, queues, inbox, flag, won, current, msg, read_block,
                 num_miners, signal, seen>>

(* mq_send: all messages have priority 2; a full queue blocks the winner.   *)
Send(w) ==
  /\ Goto(w, "send", "idle")
  /\ mq[w] # -1 /\ Len(queues[mq[w]]) < MAX_MSG
  /\ queues' = [queues EXCEPT ![mq[w]] = Append(@, current[w])]
  /\ sent' = IF mq[w] = inbox THEN Append(sent, current[w]) ELSE sent
  /\ UNCHANGED <<ring, sems, name, mq, inbox, flag, locals, signal, printed, verdicts>>

(* Blocked in mq_send and interrupted by a signal of the rounds, or sending *)
(* to a descriptor that mq_open left at -1: the block is lost.              *)
SendFails(w) ==
  /\ Goto(w, "send", "idle")
  /\ \/ mq[w] = -1 /\ UNCHANGED lost
     \/ /\ mq[w] # -1 /\ Len(queues[mq[w]]) = MAX_MSG
        /\ lost < MaxLost /\ lost' = lost + 1
  /\ UNCHANGED <<ring, sems, queue, flag, won, current, msg, read_block,
                 num_miners, signal, seen>>

-----------------------------------------------------------------------------
(* comprobador.                                                             *)

CreateRing ==
  /\ \/ /\ Goto("comprobador", "create", "truncate") /\ segment' = "empty"
        /\ UNCHANGED <<using, gym_mutex, gym_empty, gym_fill>>
     \/ /\ Goto("comprobador", "truncate", "zero") /\ segment' = "sized"
        /\ UNCHANGED <<using, gym_mutex, gym_empty, gym_fill>>
     \/ /\ Goto("comprobador", "zero", "init_mutex")  \* memcpy(shmem, &initialize)
        /\ using' = 0 /\ gym_mutex' = 0 /\ gym_empty' = 0 /\ gym_fill' = 0
        /\ UNCHANGED segment
     \/ /\ Goto("comprobador", "init_mutex", "init_empty") /\ gym_mutex' = 1
        /\ segment' = "ready" /\ UNCHANGED <<using, gym_empty, gym_fill>>
     \/ /\ Goto("comprobador", "init_empty", "init_fill")
        /\ gym_empty' = BUFFER_LENGTH
        /\ UNCHANGED <<segment, using, gym_mutex, gym_fill>>
     \/ /\ Goto("comprobador", "init_fill", "open_queue") /\ gym_fill' = 0
        /\ UNCHANGED <<segment, using, gym_mutex, gym_empty>>
  /\ UNCHANGED <<blocks, reading, writing, queue, flag, locals, signal, seen>>

OpenForReceiving ==
  /\ \E q \in 1 .. MaxQueues : OpenQueue(q) /\ name' = q /\ inbox' = q
  /\ Goto("comprobador", "open_queue", "find_system")
  /\ UNCHANGED <<ring, sems, queues, mq, flag, locals, signal, seen>>

(* The comprobador sleeps until the miners' segment exists, then sets the   *)
(* flag; behind its loop it clears the flag and unlinks the segment.        *)
NotifyUp ==
  /\ system_shm /\ Goto("comprobador", "find_system", "loop") /\ monitor_up' = 1
  /\ UNCHANGED <<ring, sems, queue, system_shm, locals, signal, seen>>

NotifyDown ==
  /\ Goto("comprobador", "lower", "wait_child") /\ monitor_up' = 0
  /\ system_shm' = FALSE
  /\ UNCHANGED <<ring, sems, queue, locals, signal, seen>>

Loop(p, inside, behind) ==
  /\ Goto(p, "loop", IF shutdown[p] THEN behind ELSE inside)
  /\ UNCHANGED <<ring, sems, queue, flag, locals, signal, seen>>

Receive ==
  /\ Goto("comprobador", "receive", "empty_wait")
  /\ queues[inbox] # <<>> /\ msg' = Head(queues[inbox])
  /\ queues' = [queues EXCEPT ![inbox] = Tail(@)]
  /\ UNCHANGED <<ring, sems, name, mq, inbox, flag, won, current, read_block,
                 num_miners, lost,                 signal, seen>>

(* index = writing % BUFFER_LENGTH; writing++; blocks[index] = msg;         *)
Write ==
  /\ Goto("comprobador", "write", "mutex_post")
  /\ blocks' = [blocks EXCEPT ![Index(writing)] = msg]
  /\ writing' = Incremented(writing)
  /\ UNCHANGED <<segment, using, reading, sems, queue, flag, locals, signal, seen>>

(* main, behind comprobador() or monitor(): unlink both names.              *)
Leave(p, from) ==
  /\ Goto(p, from, "done") /\ segment' = "gone" /\ name' = 0
  /\ UNCHANGED <<blocks, using, reading, writing, sems, queues, mq, inbox, flag,
                 locals, signal, seen>>

ReapChild ==
  pc["monitor"] \in {"done", "killed"} /\ Leave("comprobador", "wait_child")

-----------------------------------------------------------------------------
(* monitor.                                                                 *)

(* The child spins on shm_open and maps whatever it finds.                  *)
OpenRing ==
  /\ segment \notin {"absent", "gone"} /\ Goto("monitor", "open", "using_wait")
  /\ UNCHANGED <<ring, sems, queue, flag, locals, signal, seen>>

(* A sem_wait before comprobador got that far: behind the end of the file   *)
(* (SIGBUS), or on a semaphore of zeros, where the monitor goes to sleep;   *)
(* sem_init wakes nobody and forgets the sleeper, so no sem_post wakes it.  *)
WaitTooEarly ==
  /\ \/ segment = "empty" /\ Goto("monitor", "using_wait", "killed")
     \/ segment = "sized" /\ Goto("monitor", "using_wait", "asleep_mutex")
     \/ /\ pc["comprobador"] \in {"init_empty", "init_fill"}
        /\ Goto("monitor", "fill_wait", "asleep_fill")
  /\ UNCHANGED <<ring, sems, queue, flag, locals, signal, seen>>

CountUser ==
  /\ Goto("monitor", "using", "using_post") /\ using' = (using + 1) % 256
  /\ UNCHANGED <<segment, blocks, reading, writing, sems, queue, flag, locals, signal,
                 seen>>

(* aux = reading % BUFFER_LENGTH; reading++; read_block = blocks[aux];      *)
Read ==
  /\ Goto("monitor", "read", "mutex_post")
  /\ read_block' = blocks[Index(reading)] /\ reading' = Incremented(reading)
  /\ UNCHANGED <<segment, blocks, using, writing, sems, queue, flag, won, current, msg,
                 num_miners, lost, signal, seen>>

ShownMiners_Never(b) == num_miners  \* faulty variant: the count is never updated

ShownMiners(b) == IF Fav[b] = Total[b] THEN Total[b] ELSE num_miners

(* "(validated)" compares the favourable votes with num_miners, which only  *)
(* an accepted block updates.                                               *)
PrintBlock ==
  /\ \/ /\ shutdown["monitor"] /\ Goto("monitor", "print", "leave")
        /\ UNCHANGED <<printed, verdicts, num_miners>>
     \/ /\ ~shutdown["monitor"] /\ Goto("monitor", "print", "loop")
        /\ num_miners' = ShownMiners(read_block)
        /\ printed' = Append(printed, read_block)
        /\ verdicts' = Append(verdicts, Fav[read_block] = num_miners')
  /\ UNCHANGED <<ring, sems, queue, flag, won, current, msg, read_block, lost, signal,
                 sent>>

-----------------------------------------------------------------------------
(* The ring's semaphores. Each row: process, sem_wait, what follows it.     *)

MutexWaits == { <<"comprobador", "mutex_wait", "write">>,
                <<"monitor", "using_wait", "using">>, <<"monitor", "mutex_wait", "read">> }

MutexPosts == { <<"comprobador", "mutex_post", "fill_post">>,
                <<"monitor", "using_post", "loop">>, <<"monitor", "mutex_post", "empty_post">> }

MutexWait_Unguarded(p) ==  \* faulty variant: does not wait for gym_mutex
  /\ segment \notin {"empty", "sized"} /\ gym_mutex' = gym_mutex - 1
  /\ \E r \in MutexWaits : r[1] = p /\ Goto(p, r[2], r[3])
  /\ UNCHANGED <<ring, gym_empty, gym_fill, queue, flag, locals, signal, seen>>

MutexWait(p) ==
  /\ segment \notin {"empty", "sized"} /\ gym_mutex > 0 /\ gym_mutex' = gym_mutex - 1
  /\ \E r \in MutexWaits : r[1] = p /\ Goto(p, r[2], r[3])
  /\ UNCHANGED <<ring, gym_empty, gym_fill, queue, flag, locals, signal, seen>>

MutexPost(p) ==
  /\ gym_mutex' = gym_mutex + 1
  /\ \E r \in MutexPosts : r[1] = p /\ Goto(p, r[2], r[3])
  /\ UNCHANGED <<ring, gym_empty, gym_fill, queue, flag, locals, signal, seen>>

EmptyWait_Missing ==  \* faulty variant: writes without waiting for a free slot
  /\ Goto("comprobador", "empty_wait", "mutex_wait")
  /\ UNCHANGED <<ring, sems, queue, flag, locals, signal, seen>>

EmptyWait ==
  /\ gym_empty > 0 /\ gym_empty' = gym_empty - 1
  /\ Goto("comprobador", "empty_wait", "mutex_wait")
  /\ UNCHANGED <<ring, gym_mutex, gym_fill, queue, flag, locals, signal, seen>>

FillPost_Missing ==  \* faulty variant: the monitor is not told of the block
  /\ Goto("comprobador", "fill_post", "loop")
  /\ UNCHANGED <<ring, sems, queue, flag, locals, signal, seen>>

FillPost ==
  /\ gym_fill' = gym_fill + 1 /\ Goto("comprobador", "fill_post", "loop")
  /\ UNCHANGED <<ring, gym_mutex, gym_empty, queue, flag, locals, signal, seen>>

FillWait ==
  /\ gym_fill > 0 /\ gym_fill' = gym_fill - 1
  /\ Goto("monitor", "fill_wait", "mutex_wait")
  /\ UNCHANGED <<ring, gym_mutex, gym_empty, queue, flag, locals, signal, seen>>

EmptyPost ==
  /\ gym_empty' = gym_empty + 1 /\ Goto("monitor", "empty_post", "print")
  /\ UNCHANGED <<ring, gym_mutex, gym_fill, queue, flag, locals, signal, seen>>

-----------------------------------------------------------------------------
(* SIGINT: Ctrl-C reaches both processes, kill only one of them.            *)

Running(p) == pc[p] \notin {"done", "killed", "exited"}

Interrupt(to) ==
  /\ ints < MaxInts /\ ints' = ints + 1
  /\ sigint' = [p \in Procs |-> sigint[p] \/ (p \in to /\ Running(p))]
  /\ UNCHANGED <<pc, ring, sems, queue, flag, locals, shutdown, interrupted, seen>>

Handle(p) ==
  /\ sigint[p] /\ Running(p)
  /\ sigint' = [sigint EXCEPT ![p] = FALSE]
  /\ shutdown' = [shutdown EXCEPT ![p] = TRUE]
  /\ UNCHANGED <<ints, blocks, reading, writing, sems, queues, mq, inbox, monitor_up,
                 locals, seen>>

(* The process was running, or had not blocked yet.                         *)
Deliver(p) ==
  Handle(p) /\ UNCHANGED <<pc, segment, using, name, system_shm, interrupted>>

(* Where a process can be blocked in sem_wait, and what it then executes.   *)
Blocked ==
  (IF gym_mutex = 0 THEN MutexWaits ELSE {}) \cup
  (IF gym_empty = 0 THEN {<<"comprobador", "empty_wait", "mutex_wait">>} ELSE {}) \cup
  (IF gym_fill = 0 THEN {<<"monitor", "fill_wait", "mutex_wait">>} ELSE {}) \cup
  { <<"monitor", "asleep_mutex", "using">>, <<"monitor", "asleep_fill", "mutex_wait">> }

InterruptSemWait(p) ==
  /\ \E r \in Blocked : r[1] = p /\ Goto(p, r[2], r[3])
  /\ Handle(p) /\ interrupted' = TRUE
  /\ UNCHANGED <<segment, using, name, system_shm>>

(* mq_receive returns -1: the comprobador exits on the spot. monitor_up     *)
(* stays as it is.                                                          *)
InterruptReceive ==
  /\ Goto("comprobador", "receive", "exited") /\ queues[inbox] = <<>>
  /\ segment' = IF using = 1 THEN "gone" ELSE segment
  /\ system_shm' = (system_shm /\ using # 1)
  /\ using' = (using - 1) % 256
  /\ Handle("comprobador") /\ interrupted' = TRUE /\ UNCHANGED name

(* sleep(1) was interrupted: comprobador() returns without having notified. *)
InterruptSleep ==
  /\ ~system_shm /\ Goto("comprobador", "find_system", "wait_child")
  /\ segment' = "gone" /\ name' = 0
  /\ Handle("comprobador") /\ interrupted' = TRUE /\ UNCHANGED <<using, system_shm>>

(* wait(NULL) returns -1: the comprobador leaves before its child.          *)
InterruptReap ==
  /\ Goto("comprobador", "wait_child", "done")
  /\ segment' = "gone" /\ name' = 0
  /\ Handle("comprobador") /\ interrupted' = TRUE /\ UNCHANGED <<using, system_shm>>

-----------------------------------------------------------------------------
Winner(w) ==
  CheckMonitor(w) \/ OpenForSending(w) \/ Send(w) \/ SendFails(w)

Comprobador ==
  \/ CreateRing \/ OpenForReceiving \/ NotifyUp \/ NotifyDown \/ ReapChild
  \/ Loop("comprobador", "receive", "lower") \/ Receive \/ EmptyWait
  \/ MutexWait("comprobador") \/ Write \/ MutexPost("comprobador") \/ FillPost

Monitor ==
  \/ OpenRing \/ WaitTooEarly \/ CountUser \/ Loop("monitor", "fill_wait", "leave")
  \/ FillWait \/ MutexWait("monitor") \/ Read \/ MutexPost("monitor") \/ EmptyPost
  \/ PrintBlock \/ Leave("monitor", "leave")

Signalled ==
  \/ \E p \in Procs : Deliver(p) \/ InterruptSemWait(p)
  \/ InterruptReceive \/ InterruptSleep \/ InterruptReap

(* The first miner creates the segment, the last one unlinks it.            *)
SystemAppears ==
  /\ ~system_shm /\ pc["comprobador"] = "find_system" /\ system_shm' = TRUE
  /\ UNCHANGED <<pc, ring, sems, queue, monitor_up, locals, signal, seen>>

Next ==
  \/ \E w \in Winners : Win(w) \/ Winner(w)
  \/ Comprobador \/ Monitor \/ Signalled \/ SystemAppears
  \/ \E to \in SUBSET Procs \ {{}} : Interrupt(to)

Spec == Init /\ [][Next]_vars

(* The scheduler runs every process, the kernel delivers every signal. No   *)
(* miner has to win, nobody has to press Ctrl-C, no segment has to appear.  *)
Fairness ==
  /\ \A w \in Winners : WF_vars(Winner(w))
  /\ WF_vars(Comprobador) /\ WF_vars(Monitor) /\ WF_vars(Signalled)

FairSpec == Spec /\ Fairness

-----------------------------------------------------------------------------
(* Properties.                                                              *)

(* All variables keep their types; the counters stay within the bytes.      *)
TypeOK ==
  /\ segment \in {"absent", "empty", "sized", "ready", "gone"}
  /\ blocks \in [Indices -> 0 .. MaxBlocks]
  /\ using \in 0 .. 255 /\ reading \in 0 .. Wrap - 1 /\ writing \in 0 .. Wrap - 1
  /\ gym_mutex \in Nat /\ gym_empty \in Nat /\ gym_fill \in Nat
  /\ queues \in [1 .. MaxQueues -> Seq(1 .. MaxBlocks)]
  /\ \A q \in 1 .. MaxQueues : Len(queues[q]) <= MAX_MSG
  /\ name \in 0 .. MaxQueues /\ inbox \in 0 .. MaxQueues
  /\ mq \in [Winners -> {-2, -1} \cup 1 .. MaxQueues]
  /\ system_shm \in BOOLEAN /\ monitor_up \in {0, 1}
  /\ won \in 0 .. MaxBlocks /\ msg \in 0 .. MaxBlocks /\ read_block \in 0 .. MaxBlocks
  /\ shutdown \in [Procs -> BOOLEAN] /\ sigint \in [Procs -> BOOLEAN]

Ready == pc["comprobador"] \notin {"create", "truncate", "zero", "init_mutex",
                                   "init_empty", "init_fill"}

(* A slot token a process holds between its wait and its post.              *)
Tokens ==
  (IF pc["comprobador"] \in {"mutex_wait", "write", "mutex_post", "fill_post"}
   THEN 1 ELSE 0) +
  (IF pc["monitor"] \in {"mutex_wait", "read", "mutex_post", "empty_post"}
   THEN 1 ELSE 0)

(* Without an interrupted wait every slot of the ring is free, filled or in *)
(* the hands of one process: no slot is lost or counted twice.              *)
SlotsAccounted ==
  Ready /\ ~interrupted => gym_empty + gym_fill + Tokens = BUFFER_LENGTH

(* What arrives on the screen is what the queue accepted, in that order:    *)
(* nothing lost, repeated or overtaken, with at most this much under way.   *)
Channel == INSTANCE BlockChannel WITH
  Block <- 1 .. MaxBlocks, Capacity <- MAX_MSG + BUFFER_LENGTH + 2

(* In a session that has started every accepted block reaches the screen,   *)
(* and no winner stays in mq_send, where it keeps the next block from being *)
(* installed.                                                               *)
ReachesScreen ==
  /\ Channel!FairSpec
  /\ \A w \in Winners : pc[w] = "send" ~> pc[w] # "send"

(* An accepted block is always shown as validated, whatever block was shown *)
(* before it.                                                               *)
AcceptedShownAccepted ==
  \A i \in DOMAIN printed : Fav[printed[i]] = Total[printed[i]] => verdicts[i]

(* Only one process at a time is between sem_wait and sem_post of gym_mutex *)
(* as long as no wait was interrupted.                                      *)
RingExclusive ==
  ~interrupted => ~ /\ pc["comprobador"] \in {"write", "mutex_post"}
                    /\ pc["monitor"] \in {"using", "using_post", "read", "mutex_post"}

(* The miners never lose the ring under them: while the comprobador may     *)
(* still be found by name, its queue is the one that name opens.            *)
QueueIsTheInbox ==
  pc["comprobador"] \in {"find_system", "loop", "receive"} /\ pc["monitor"] # "done"
    => name = inbox

-----------------------------------------------------------------------------
(* What the comments and the assignment say and the program does not do.    *)

(* "it is guaranteed that no block is lost" (with the counters as they are) *)
NoBlockLost == \A i \in DOMAIN printed : printed[i] = sent[i]

(* "(rejected)": a block that a voter turned down is not shown as validated. *)
RejectedShownRejected ==
  \A i \in DOMAIN printed : Fav[printed[i]] # Total[printed[i]] => ~verdicts[i]

(* "flag to check if the monitor is up"                                     *)
FlagMeansUp ==
  monitor_up = 1 => pc["comprobador"] \notin {"exited", "done"}

(* "no messages pile up if there is no active monitor": no winner is stuck  *)
(* on a full queue that nobody will ever read.                              *)
NoPileUp ==
  \A w \in Winners :
    pc[w] = "send" /\ mq[w] # -1 /\ ~Running("comprobador")
      => Len(queues[mq[w]]) < MAX_MSG

(* "Monitor is called when the shared memory exists, it reads it and prints *)
(* the info": once it has the segment it gets as far as waiting for blocks. *)
MonitorStarts == pc["monitor"] = "using_wait" ~> pc["monitor"] = "loop"
=============================================================================
