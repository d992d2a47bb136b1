------------------------------ MODULE Pipeline ------------------------------
(***************************************************************************)
(* P3/Codificacion: miners send blocks through a message queue, ./monitor   *)
(* started first is the comprobador and moves them into a ring in shared    *)
(* memory, every ./monitor started later prints from it, and the last block *)
(* of a miner ends comprobador and monitor.                                 *)
(*                                                                          *)
(* A step is a system call or what a process does between two of them.      *)
(* Names are unlinked while they are in use, so segments and queues are     *)
(* numbered and the names refer to one of them or to none. No handler is    *)
(* installed: a signal kills. All blocks carry a correct solution (the      *)
(* search covers the whole range), so the verdict is left out; and a block  *)
(* counts as shown when a monitor has copied it.                            *)
(***************************************************************************)
EXTENDS Integers, Sequences, FiniteSets

CONSTANTS
  Programs,       \* runs of ./monitor
  Miners,         \* runs of ./miner
  Rounds,         \* values of their argument ROUNDS
  BUFFER_LENGTH,  \* slots of the ring (6)
  MAX_MSG,        \* capacity of a message queue (7)
  MaxSegments,    \* bound: segments ever created under SHM_NAME
  MaxQueues,      \* bound: queues ever created under MQ_NAME
  Mortal,         \* the processes that a signal may kill
  MaxKills        \* bound: how many of them it kills

ASSUME PipelineAssumption ==
  /\ IsFiniteSet(Programs) /\ IsFiniteSet(Miners) /\ Programs \cap Miners = {}
  /\ Mortal \subseteq Programs \cup Miners
  /\ Rounds \subseteq Nat /\ BUFFER_LENGTH \in Nat \ {0} /\ MAX_MSG \in Nat \ {0}
  /\ MaxSegments \in Nat /\ MaxQueues \in Nat /\ MaxKills \in Nat

Segments == 1 .. MaxSegments
Queues == 1 .. MaxQueues
Blocks == [miner : Miners, n : UNION { 1 .. r : r \in Rounds }, end : {0, 1}]
Mark == [miner |-> "none", n |-> -1, end |-> 0]  \* target = solution = -1
Zeros == [miner |-> "none", n |-> 0, end |-> 0]  \* what memcpy leaves in a slot

VARIABLES
  pc,        \* what each process executes next
  dead,      \* the processes that were killed
  shm_name, mq_name,  \* the segment and the queue the names refer to, or 0
  shmem,     \* the segments; stage 0 .. 3 says how far they are initialised
  shms,      \* how many have been created
  mapped,    \* the segment each program has opened
  block,     \* its msg.block, or the target and solution it has copied
  queues,    \* contents of the queues
  mqs,       \* how many have been created
  mq,        \* descriptor of each process, 0 before mq_open
  rounds, i, \* argument and loop counter of the miners
  sent, shown  \* per queue: the blocks accepted by it, and those copied

names    == <<shm_name, mq_name>>
memory   == <<shmem, shms, mapped>>
messages == <<queues, mqs, mq, sent>>
miner    == <<rounds, i>>
vars     == <<pc, dead, names, memory, block, messages, miner, shown>>

Runs(p, from) == p \notin dead /\ pc[p] = from

Goto(p, from, to) == Runs(p, from) /\ pc' = [pc EXCEPT ![p] = to]

Init ==
  /\ pc = [p \in Programs \cup Miners |-> "idle"] /\ dead = {}
  /\ shm_name = 0 /\ mq_name = 0 /\ shms = 0 /\ mqs = 0
  /\ shmem = [s \in Segments |->
       [stage |-> 0, slots |-> [k \in 0 .. BUFFER_LENGTH - 1 |-> Zeros], using |-> 0,
        reading |-> 0, writing |-> 0, gym_mutex |-> 0, gym_empty |-> 0, gym_fill |-> 0]]
  /\ mapped = [p \in Programs |-> 0] /\ block = [p \in Programs |-> Zeros]
  /\ mq = [p \in Programs \cup Miners |-> 0] /\ queues = [q \in Queues |-> <<>>]
  /\ rounds = [m \in Miners |-> 0] /\ i = [m \in Miners |-> 0]
  /\ sent = [q \in Queues |-> <<>>] /\ shown = [q \in Queues |-> <<>>]

(* mq_open(MQ_NAME, O_CREAT): the queue of that name, or a new one.         *)
OpenQueue(p) ==
  /\ \/ mq_name # 0 /\ UNCHANGED <<mq_name, mqs>>
     \/ mq_name = 0 /\ mqs < MaxQueues /\ mqs' = mqs + 1 /\ mq_name' = mqs'
  /\ mq' = [mq EXCEPT ![p] = mq_name']

-----------------------------------------------------------------------------
(* miner.c                                                                  *)

(* ./miner <ROUNDS>, up to its mq_open.                                      *)
LaunchMiner(m) ==
  /\ Goto(m, "idle", "loop") /\ OpenQueue(m)
  /\ \E r \in Rounds : rounds' = [rounds EXCEPT ![m] = r]
  /\ UNCHANGED <<dead, shm_name, memory, block, queues, sent, i, shown>>

(* mq_send of the i-th block, the last one with the end flag; a full queue  *)
(* blocks the miner.                                                        *)
Send(m) ==
  LET q == mq[m]
      b == [miner |-> m, n |-> i[m] + 1, end |-> IF i[m] = rounds[m] - 1 THEN 1 ELSE 0]
  IN  /\ Goto(m, "loop", "loop") /\ i[m] < rounds[m] /\ Len(queues[q]) < MAX_MSG
      /\ queues' = [queues EXCEPT ![q] = Append(@, b)]
      /\ sent' = [sent EXCEPT ![q] = Append(@, b)]
      /\ i' = [i EXCEPT ![m] = @ + 1]
      /\ UNCHANGED <<dead, names, memory, block, mqs, mq, rounds, shown>>

(* mq_close, mq_unlink(MQ_NAME): whatever queue that is by now.             *)
MinerEnds(m) ==
  /\ Goto(m, "loop", "done") /\ i[m] = rounds[m] /\ mq_name' = 0
  /\ UNCHANGED <<dead, shm_name, memory, block, messages, miner, shown>>

-----------------------------------------------------------------------------
(* monitor.c: who finds the segment is a monitor, who does not is the       *)
(* comprobador.                                                             *)

LaunchProgram(p) ==
  /\ Goto(p, "idle", IF shm_name = 0 THEN "create" ELSE "using_wait")
  /\ mapped' = [mapped EXCEPT ![p] = shm_name]
  /\ UNCHANGED <<dead, names, shmem, shms, block, messages, miner, shown>>

LosesRace_Joins(p) ==  \* faulty variant: without O_EXCL the loser of the race goes on
  /\ shm_name # 0 /\ Goto(p, "create", "truncate")
  /\ mapped' = [mapped EXCEPT ![p] = shm_name] /\ UNCHANGED <<shms, shm_name>>

LosesRace(p) ==
  shm_name # 0 /\ Goto(p, "create", "lost_race") /\ UNCHANGED <<shms, shm_name, mapped>>

(* shm_open(O_CREAT | O_EXCL)                                               *)
Create(p) ==
  /\ \/ /\ shm_name = 0 /\ shms < MaxSegments /\ Goto(p, "create", "truncate")
        /\ shms' = shms + 1 /\ shm_name' = shms'
        /\ mapped' = [mapped EXCEPT ![p] = shms']
     \/ LosesRace(p)
  /\ UNCHANGED <<dead, mq_name, shmem, block, messages, miner, shown>>

(* ftruncate, memcpy of zeros and sem_init of the three semaphores; nobody  *)
(* waits for gym_empty before its sem_init.                                 *)
Initialise(p) ==
  /\ \/ /\ Goto(p, "truncate", "init_mutex")
        /\ shmem' = [shmem EXCEPT ![mapped[p]].stage = 1]
     \/ /\ Goto(p, "init_mutex", "init_fill")
        /\ shmem' = [shmem EXCEPT ![mapped[p]].gym_mutex = 1, ![mapped[p]].stage = 2,
                                  ![mapped[p]].gym_empty = BUFFER_LENGTH]
     \/ /\ Goto(p, "init_fill", "open_queue")
        /\ shmem' = [shmem EXCEPT ![mapped[p]].gym_fill = 0, ![mapped[p]].stage = 3]
  /\ UNCHANGED <<dead, names, shms, mapped, block, messages, miner, shown>>

(* mq_open, and mq_unlink "as early as possible".                           *)
OpenForReceiving(p) ==
  /\ \/ Goto(p, "open_queue", "unlink_queue") /\ OpenQueue(p)
     \/ Goto(p, "unlink_queue", "receive") /\ mq_name' = 0 /\ UNCHANGED <<mq, mqs>>
  /\ UNCHANGED <<dead, shm_name, memory, block, queues, sent, miner, shown>>

Receive(p) ==
  /\ Goto(p, "receive", "empty_wait") /\ queues[mq[p]] # <<>>
  /\ block' = [block EXCEPT ![p] = Head(queues[mq[p]])]
  /\ queues' = [queues EXCEPT ![mq[p]] = Tail(@)]
  /\ UNCHANGED <<dead, names, memory, mqs, mq, sent, miner, shown>>

IsEnd(p) == block[p].end = 1

Slot_Next(p) == (shmem[mapped[p]].writing + 1) % BUFFER_LENGTH  \* faulty variant

\* index = writing % BUFFER_LENGTH
Slot(p) == shmem[mapped[p]].writing % BUFFER_LENGTH

(* writing++ and the slot; instead of an end block the mark is written.     *)
Write(p) ==
  /\ Goto(p, "write", IF IsEnd(p) THEN "end_users" ELSE "mutex_post")
  /\ shmem' = [shmem EXCEPT
       ![mapped[p]].slots[Slot(p)] = IF IsEnd(p) THEN Mark ELSE block[p],
       ![mapped[p]].writing = @ + 1]
  /\ UNCHANGED <<dead, names, shms, mapped, block, messages, miner, shown>>

(* if(using == 1) unlink the name, else writing++ and using--.              *)
EndUsers(p) ==
  /\ Goto(p, "end_users", "mutex_post")
  /\ \/ /\ shmem[mapped[p]].using = 1 /\ shm_name' = 0 /\ UNCHANGED shmem
     \/ /\ shmem[mapped[p]].using # 1 /\ UNCHANGED shm_name
        /\ shmem' = [shmem EXCEPT ![mapped[p]].using = @ - 1, ![mapped[p]].writing = @ + 1]
  /\ UNCHANGED <<dead, mq_name, shms, mapped, block, messages, miner, shown>>

UnlinksAgain_Never(p) == UNCHANGED shm_name  \* faulty variant: it was "already done"

UnlinksAgain(p) == shm_name' = 0

(* shm_unlink(SHM_NAME) "just in case".                                     *)
LastUnlink(p) ==
  /\ Goto(p, "last_unlink", "done") /\ UnlinksAgain(p)
  /\ UNCHANGED <<dead, mq_name, memory, block, messages, miner, shown>>

-----------------------------------------------------------------------------
(* The monitor.                                                             *)

(* A sem_wait on a segment without a size (SIGBUS), or on a semaphore of    *)
(* zeros, where no sem_post finds the sleeper.                              *)
WaitTooEarly(p) ==
  /\ pc[p] \in {"using_wait", "fill_wait"}
  /\ LET stage == shmem[mapped[p]].stage
     IN  \/ stage = 0 /\ Goto(p, "using_wait", "sigbus")
         \/ stage = 1 /\ Goto(p, "using_wait", "asleep")
         \/ stage = 2 /\ Goto(p, "fill_wait", "asleep")
  /\ UNCHANGED <<dead, names, memory, block, messages, miner, shown>>

CountUser(p) ==
  /\ Goto(p, "using", "using_post")
  /\ shmem' = [shmem EXCEPT ![mapped[p]].using = @ + 1]
  /\ UNCHANGED <<dead, names, shms, mapped, block, messages, miner, shown>>

(* aux_reading = reading % BUFFER_LENGTH, reading++, copy of the slot; the  *)
(* mark ends the monitor.                                                   *)
Read(p) ==
  LET s == shmem[mapped[p]]
      b == s.slots[s.reading % BUFFER_LENGTH]
  IN  /\ Goto(p, "read", IF b = Mark THEN "read_users" ELSE "read_post")
      /\ block' = [block EXCEPT ![p] = b]
      /\ shmem' = [shmem EXCEPT ![mapped[p]].reading = @ + 1]
      /\ shown' = IF b.n > 0 THEN [shown EXCEPT ![mq[b.miner]] = Append(@, b)]
                  ELSE shown
      /\ UNCHANGED <<dead, names, shms, mapped, messages, miner>>

(* The same as EndUsers, with reading.                                      *)
ReadUsers(p) ==
  /\ Goto(p, "read_users", "read_post")
  /\ \/ /\ shmem[mapped[p]].using = 1 /\ shm_name' = 0 /\ UNCHANGED shmem
     \/ /\ shmem[mapped[p]].using # 1 /\ UNCHANGED shm_name
        /\ shmem' = [shmem EXCEPT ![mapped[p]].using = @ - 1, ![mapped[p]].reading = @ + 1]
  /\ UNCHANGED <<dead, mq_name, shms, mapped, block, messages, miner, shown>>

-----------------------------------------------------------------------------
(* The semaphores: statement, semaphore, next statement.                    *)

Waits == { <<"empty_wait", "gym_empty", "mutex_wait">>, <<"mutex_wait", "gym_mutex", "write">>,
           <<"using_wait", "gym_mutex", "using">>, <<"fill_wait", "gym_fill", "read_wait">>,
           <<"read_wait", "gym_mutex", "read">> }

SemWait_Unguarded(p) ==  \* faulty variant: nobody waits for gym_mutex
  /\ \E w \in Waits :
       /\ Goto(p, w[1], w[3]) /\ shmem[mapped[p]].stage > 1
       /\ shmem[mapped[p]][w[2]] > 0 \/ w[2] = "gym_mutex"
       /\ shmem' = [shmem EXCEPT ![mapped[p]][w[2]] = @ - 1]
  /\ UNCHANGED <<dead, names, shms, mapped, block, messages, miner, shown>>

SemWait(p) ==
  /\ \E w \in Waits :
       /\ Goto(p, w[1], w[3]) /\ shmem[mapped[p]][w[2]] > 0
       /\ shmem' = [shmem EXCEPT ![mapped[p]][w[2]] = @ - 1]
  /\ UNCHANGED <<dead, names, shms, mapped, block, messages, miner, shown>>

Announces_NotTheMark(p) ==  \* faulty variant: the mark is written but not announced
  IF IsEnd(p) THEN "last_unlink" ELSE "fill_post"

\* What follows the comprobador's sem_post(gym_mutex): a block and the mark are announced.
Announces(p) == "fill_post"

\* Behind the mark comprobador and monitor end.
Posts(p) ==
  { <<"mutex_post", "gym_mutex", Announces(p)>>,
    <<"fill_post", "gym_fill", IF IsEnd(p) THEN "last_unlink" ELSE "receive">>,
    <<"using_post", "gym_mutex", "fill_wait">>, <<"read_post", "gym_mutex", "empty_post">>,
    <<"empty_post", "gym_empty", IF block[p] = Mark THEN "done" ELSE "fill_wait">> }

SemPost(p) ==
  /\ \E w \in Posts(p) :
       /\ Goto(p, w[1], w[3])
       /\ shmem' = [shmem EXCEPT ![mapped[p]][w[2]] = @ + 1]
  /\ UNCHANGED <<dead, names, shms, mapped, block, messages, miner, shown>>

(* Ctrl-C or kill: no handler, and nothing is cleaned up.                   *)
Killed(p) ==
  /\ Cardinality(dead) < MaxKills /\ p \notin dead /\ dead' = dead \cup {p}
  /\ pc[p] \notin {"idle", "done", "lost_race", "sigbus"}
  /\ UNCHANGED <<pc, names, memory, block, messages, miner, shown>>

-----------------------------------------------------------------------------
Miner(m) == Send(m) \/ MinerEnds(m)

Program(p) ==
  \/ Create(p) \/ Initialise(p) \/ OpenForReceiving(p) \/ Receive(p) \/ Write(p)
  \/ EndUsers(p) \/ LastUnlink(p)
  \/ WaitTooEarly(p) \/ CountUser(p) \/ Read(p) \/ ReadUsers(p)
  \/ SemWait(p) \/ SemPost(p)

Next ==
  \/ \E m \in Miners : LaunchMiner(m) \/ Miner(m)
  \/ \E p \in Programs : LaunchProgram(p) \/ Program(p)
  \/ \E p \in Mortal : Killed(p)

Spec == Init /\ [][Next]_vars

(* A program that was launched is scheduled; no miner has to send anything, *)
(* nothing has to be launched or killed.                                    *)
FairSpec == Spec /\ \A p \in Programs : WF_vars(Program(p))

-----------------------------------------------------------------------------
(* Properties.                                                              *)

Counters == [stage : 0 .. 3, using : Int, reading : Nat, writing : Nat, gym_mutex : 0 .. 1,
             gym_empty : 0 .. BUFFER_LENGTH, gym_fill : 0 .. BUFFER_LENGTH]

(* Types; the semaphores stay within their initial values.                  *)
TypeOK ==
  /\ dead \subseteq Programs \cup Miners
  /\ shm_name \in 0 .. shms /\ mq_name \in 0 .. mqs
  /\ shms \in 0 .. MaxSegments /\ mqs \in 0 .. MaxQueues
  /\ \A s \in Segments :
       /\ [f \in DOMAIN shmem[s] \ {"slots"} |-> shmem[s][f]] \in Counters
       /\ \A k \in 0 .. BUFFER_LENGTH - 1 :
            shmem[s].slots[k] \in Blocks \cup {Mark, Zeros}
  /\ mapped \in [Programs -> 0 .. shms]
  /\ mq \in [Programs \cup Miners -> 0 .. mqs]
  /\ \A q \in Queues : Len(queues[q]) <= MAX_MSG
  /\ rounds \in [Miners -> Rounds \cup {0}] /\ \A m \in Miners : i[m] \in 0 .. rounds[m]

On(s, labels) == { p \in Programs : mapped[p] = s /\ pc[p] \in labels }

HoldingMutex(s) ==
  On(s, {"write", "end_users", "mutex_post", "using", "using_post", "read", "read_users",
         "read_post"})

HoldingSlot(s) ==
  On(s, {"mutex_wait", "write", "end_users", "mutex_post", "fill_post", "read_wait", "read",
         "read_users", "read_post", "empty_post"})

(* In an initialised segment the mutex is free or held by one process, and  *)
(* every slot is free, filled or in somebody's hands, also when several     *)
(* monitors share the ring and when a process was killed in the middle.     *)
SlotsAccounted ==
  \A s \in Segments : shmem[s].stage = 3 =>
    /\ shmem[s].gym_mutex + Cardinality(HoldingMutex(s)) = 1
    /\ shmem[s].gym_empty + shmem[s].gym_fill + Cardinality(HoldingSlot(s)) = BUFFER_LENGTH

(* What the monitors of a session take from the ring, all together, is what *)
(* its queue accepted, in that order, up to the end block.                  *)
Channel(q) == INSTANCE BlockChannel WITH
  Block <- Blocks, Capacity <- MAX_MSG + BUFFER_LENGTH + 1,
  sent <- sent[q], printed <- shown[q]

InOrder ==
  /\ \A q \in Queues : Channel(q)!Init
  /\ [][\A q \in Queues : Channel(q)!Next \/ UNCHANGED <<sent[q], shown[q]>>]_<<sent, shown>>

(* When all have come to their regular end, neither name is left for the    *)
(* programs that are started next.                                          *)
NoLeftover ==
  (\A p \in Programs \cup Miners : pc[p] \in {"idle", "lost_race", "done"}) /\ dead = {}
    => shm_name = 0 /\ mq_name = 0

Joined(s) == { p \in Programs : mapped[p] = s /\ mq[p] = 0 }

Printing == {"using_wait", "using", "using_post", "fill_wait", "read_wait", "read",
             "read_users", "read_post", "empty_post"}

(* A comprobador that has received an end block, with one monitor printing. *)
Finishing ==
  /\ dead = {}
  /\ \E c, p \in Programs :
       /\ IsEnd(c) /\ Joined(mapped[c]) = {p} /\ pc[p] \in Printing \cup {"done"}
       /\ pc[c] # "done" \/ pc[p] # "done"

(* The end block ends them both, wherever the monitor is in its loop, unless *)
(* a process is killed or a second monitor joins.                           *)
EndReachesMonitor == Finishing ~> ~Finishing

-----------------------------------------------------------------------------
(* What the comments say and the program does not do.                       *)

(* "already done, but just in case, it wont hurt": nobody removes the name  *)
(* of a segment whose comprobador is still at work.                         *)
NameStays ==
  \A c \in Programs \ dead :
    pc[c] \in {"truncate", "init_mutex", "init_fill", "open_queue",
               "unlink_queue", "receive"}
      => shm_name = mapped[c]

(* "Monitor ... reads it and prints the info": every monitor sees the end.  *)
AllMonitorsEnd ==
  \A c, p \in Programs :
    pc[c] = "done" /\ mapped[p] = mapped[c] /\ pc[p] \in Printing ~>
      pc[p] = "done" \/ dead # {}
=============================================================================
