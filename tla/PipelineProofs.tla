--------------------------- MODULE PipelineProofs ---------------------------
(***************************************************************************)
(* Machine-checked proofs about Pipeline, for any number of runs of         *)
(* ./monitor and ./miner, any sizes of the ring and the queue, any session  *)
(* after session under the same two names, and any kills.                   *)
(*                                                                          *)
(* What a segment's semaphores are worth depends on how far its creator has *)
(* come, and a segment has one creator: O_EXCL sees to that. Who holds a    *)
(* token is a matter of where the processes stand, dead ones included, so   *)
(* the sums are kept by every step, whichever semaphore it uses.            *)
(***************************************************************************)
EXTENDS Pipeline, FiniteSetTheorems, TLAPS

-----------------------------------------------------------------------------
(* Types.                                                                   *)

MinerLabels == {"idle", "loop", "done"}

(* Who creates a segment is its owner, up to the last shm_unlink.           *)
Receiving == {"receive", "empty_wait", "mutex_wait", "write", "end_users", "mutex_post",
              "fill_post", "last_unlink"}

Owner == {"truncate", "init_mutex", "init_fill", "open_queue", "unlink_queue"} \cup Receiving

Unmapped == {"idle", "create", "lost_race"}

ProgramLabels == Unmapped \cup Owner \cup Printing \cup {"done", "sigbus", "asleep"}

Copies == Blocks \cup {Mark, Zeros}

Slots == [0 .. BUFFER_LENGTH - 1 -> Copies]

Stages == 0 .. 3

Segment == [stage : Stages, slots : Slots, using : Int, reading : Nat, writing : Nat,
            gym_mutex : Nat, gym_empty : Nat, gym_fill : Nat]

PcType ==
  /\ pc \in [Programs \cup Miners -> MinerLabels \cup ProgramLabels]
  /\ \A m \in Miners : pc[m] \in MinerLabels
  /\ \A p \in Programs : pc[p] \in ProgramLabels
  /\ dead \subseteq Programs \cup Miners

NameType ==
  /\ shm_name \in 0 .. shms /\ mq_name \in 0 .. mqs
  /\ shms \in 0 .. MaxSegments /\ mqs \in 0 .. MaxQueues

MemoryType ==
  /\ shmem \in [Segments -> Segment]
  /\ mapped \in [Programs -> 0 .. shms]
  /\ \A p \in Programs : mapped[p] = 0 <=> pc[p] \in Unmapped
  /\ block \in [Programs -> Copies]

QueueType ==
  /\ queues \in [Queues -> Seq(Blocks)]
  /\ \A q \in Queues : Len(queues[q]) <= MAX_MSG
  /\ mq \in [Programs \cup Miners -> 0 .. mqs]
  /\ \A m \in Miners : pc[m] = "loop" => mq[m] # 0
  /\ \A p \in Programs : pc[p] \in Receiving \cup {"unlink_queue"} => mq[p] # 0

RoundType ==
  /\ rounds \in [Miners -> Rounds \cup {0}] /\ i \in [Miners -> Nat]
  /\ \A m \in Miners : i[m] <= rounds[m] /\ (pc[m] = "idle" => i[m] = 0)

TypeInv == PcType /\ NameType /\ MemoryType /\ QueueType /\ RoundType

LEMMA TypeInit == Init => TypeInv
  <1> SUFFICES ASSUME Init PROVE TypeInv
    OBVIOUS
  <1>1. PcType
    BY DEF Init, PcType, MinerLabels, ProgramLabels, Unmapped
  <1>2. NameType /\ RoundType
    BY PipelineAssumption DEF Init, NameType, RoundType
  <1>3. MemoryType
    <2>1. [k \in 0 .. BUFFER_LENGTH - 1 |-> Zeros] \in Slots
      BY DEF Copies, Slots
    <2>2. PICK z \in Slots :
            shmem = [s \in Segments |->
              [stage |-> 0, slots |-> z, using |-> 0, reading |-> 0, writing |-> 0,
               gym_mutex |-> 0, gym_empty |-> 0, gym_fill |-> 0]]
      BY <2>1 DEF Init
    <2>3. [stage |-> 0, slots |-> z, using |-> 0, reading |-> 0, writing |-> 0, gym_mutex |-> 0,
           gym_empty |-> 0, gym_fill |-> 0] \in Segment
      BY DEF Segment, Stages
    <2>4. shmem \in [Segments -> Segment]
      BY <2>2, <2>3
    <2>5. /\ mapped = [p \in Programs |-> 0] /\ block = [p \in Programs |-> Zeros] /\ shms = 0
          /\ \A p \in Programs : pc[p] = "idle"
      BY DEF Init
    <2>6. mapped \in [Programs -> 0 .. shms] /\ block \in [Programs -> Copies]
      BY <2>5 DEF Copies
    <2> QED BY <2>4, <2>5, <2>6 DEF MemoryType, Unmapped
  <1>4. QueueType
    <2>1. <<>> \in Seq(Blocks) /\ Len(<<>>) <= MAX_MSG
      BY PipelineAssumption
    <2>2. queues \in [Queues -> Seq(Blocks)] /\ \A q \in Queues : Len(queues[q]) <= MAX_MSG
      BY <2>1 DEF Init
    <2> QED BY <2>2 DEF Init, QueueType, Receiving
  <1> QED BY <1>1, <1>2, <1>3, <1>4 DEF TypeInv

(* A Goto moves one pc.                                                     *)
LEMMA MinerMoves ==
  ASSUME PcType, NEW m \in Miners, NEW from, NEW to \in MinerLabels, Goto(m, from, to),
         UNCHANGED dead
  PROVE  /\ PcType' /\ pc[m] = from /\ pc'[m] = to
         /\ \A p \in Programs : pc'[p] = pc[p]
         /\ \A n \in Miners \ {m} : pc'[n] = pc[n]
  BY PipelineAssumption DEF PcType, Goto, Runs

LEMMA ProgramMoves ==
  ASSUME PcType, NEW p \in Programs, NEW from, NEW to \in ProgramLabels, Goto(p, from, to),
         UNCHANGED dead
  PROVE  /\ PcType' /\ pc[p] = from /\ pc'[p] = to
         /\ \A m \in Miners : pc'[m] = pc[m]
         /\ \A q \in Programs \ {p} : pc'[q] = pc[q]
  BY PipelineAssumption DEF PcType, Goto, Runs

(* mq_open numbers a new queue or finds an old one.                         *)
LEMMA OpenQueueType ==
  ASSUME TypeInv, NEW p \in Programs \cup Miners, OpenQueue(p)
  PROVE  /\ mqs \in Nat /\ mqs' \in mqs .. MaxQueues /\ mq_name' \in 1 .. mqs'
         /\ mq' \in [Programs \cup Miners -> 0 .. mqs'] /\ mq'[p] # 0
         /\ \A q \in (Programs \cup Miners) \ {p} : mq'[q] = mq[q]
  <1>1. mqs' \in mqs .. MaxQueues /\ mq_name' \in 1 .. mqs' /\ mqs \in 0 .. MaxQueues
    BY PipelineAssumption DEF OpenQueue, TypeInv, NameType
  <1>2. mq \in [Programs \cup Miners -> 0 .. mqs] /\ mq' = [mq EXCEPT ![p] = mq_name']
    BY DEF OpenQueue, TypeInv, QueueType
  <1>3. 0 .. mqs \subseteq 0 .. mqs' /\ mq_name' \in 0 .. mqs'
    BY <1>1
  <1> QED BY <1>1, <1>2, <1>3

(* Which statements the rows of Waits and Posts are.                        *)
LEMMA WaitRows ==
  ASSUME NEW p \in Programs, SemWait(p)
  PROVE  \/ /\ Goto(p, "empty_wait", "mutex_wait") /\ shmem[mapped[p]].gym_empty > 0
            /\ shmem' = [shmem EXCEPT ![mapped[p]].gym_empty = @ - 1]
         \/ /\ \/ Goto(p, "mutex_wait", "write") \/ Goto(p, "using_wait", "using")
               \/ Goto(p, "read_wait", "read")
            /\ shmem[mapped[p]].gym_mutex > 0
            /\ shmem' = [shmem EXCEPT ![mapped[p]].gym_mutex = @ - 1]
         \/ /\ Goto(p, "fill_wait", "read_wait") /\ shmem[mapped[p]].gym_fill > 0
            /\ shmem' = [shmem EXCEPT ![mapped[p]].gym_fill = @ - 1]
  <1>1. PICK w \in Waits :
          /\ Goto(p, w[1], w[3]) /\ shmem[mapped[p]][w[2]] > 0
          /\ shmem' = [shmem EXCEPT ![mapped[p]][w[2]] = @ - 1]
    BY DEF SemWait
  <1>2. CASE w = <<"empty_wait", "gym_empty", "mutex_wait">>
    BY <1>1, <1>2
  <1>3. CASE w \in { <<"mutex_wait", "gym_mutex", "write">>, <<"using_wait", "gym_mutex", "using">>,
                     <<"read_wait", "gym_mutex", "read">> }
    <2>1. w[2] = "gym_mutex"
      BY <1>3
    <2>2. shmem[mapped[p]].gym_mutex > 0
      BY <1>1, <2>1
    <2>3. shmem' = [shmem EXCEPT ![mapped[p]].gym_mutex = @ - 1]
      BY <1>1, <2>1
    <2>4. \/ Goto(p, "mutex_wait", "write") \/ Goto(p, "using_wait", "using")
          \/ Goto(p, "read_wait", "read")
      BY <1>1, <1>3
    <2> QED BY <2>2, <2>3, <2>4
  <1>4. CASE w = <<"fill_wait", "gym_fill", "read_wait">>
    BY <1>1, <1>4
  <1> QED BY <1>2, <1>3, <1>4 DEF Waits

LEMMA PostRows ==
  ASSUME NEW p \in Programs, SemPost(p)
  PROVE  \/ /\ \/ Goto(p, "mutex_post", "fill_post") \/ Goto(p, "using_post", "fill_wait")
               \/ Goto(p, "read_post", "empty_post")
            /\ shmem' = [shmem EXCEPT ![mapped[p]].gym_mutex = @ + 1]
         \/ /\ \E to \in {"last_unlink", "receive"} : Goto(p, "fill_post", to)
            /\ shmem' = [shmem EXCEPT ![mapped[p]].gym_fill = @ + 1]
         \/ /\ \E to \in {"done", "fill_wait"} : Goto(p, "empty_post", to)
            /\ shmem' = [shmem EXCEPT ![mapped[p]].gym_empty = @ + 1]
  <1>1. PICK w \in Posts(p) :
          /\ Goto(p, w[1], w[3]) /\ shmem' = [shmem EXCEPT ![mapped[p]][w[2]] = @ + 1]
    BY DEF SemPost
  <1>2. CASE w[2] = "gym_mutex"
    <2>1. shmem' = [shmem EXCEPT ![mapped[p]].gym_mutex = @ + 1]
      BY <1>1, <1>2
    <2>2. \/ Goto(p, "mutex_post", "fill_post") \/ Goto(p, "using_post", "fill_wait")
          \/ Goto(p, "read_post", "empty_post")
      BY <1>1, <1>2 DEF Posts, Announces
    <2> QED BY <2>1, <2>2
  <1>3. CASE w[2] = "gym_fill"
    <2>1. shmem' = [shmem EXCEPT ![mapped[p]].gym_fill = @ + 1]
      BY <1>1, <1>3
    <2>2. \E to \in {"last_unlink", "receive"} : Goto(p, "fill_post", to)
      BY <1>1, <1>3 DEF Posts, Announces
    <2> QED BY <2>1, <2>2
  <1>4. CASE w[2] = "gym_empty"
    <2>1. shmem' = [shmem EXCEPT ![mapped[p]].gym_empty = @ + 1]
      BY <1>1, <1>4
    <2>2. \E to \in {"done", "fill_wait"} : Goto(p, "empty_post", to)
      BY <1>1, <1>4 DEF Posts, Announces
    <2> QED BY <2>1, <2>2
  <1> QED BY <1>2, <1>3, <1>4 DEF Posts

(* The steps of a program on its segment.                                   *)
SegmentStep(p) ==
  Initialise(p) \/ Write(p) \/ EndUsers(p) \/ CountUser(p) \/ Read(p) \/ ReadUsers(p)
    \/ SemWait(p) \/ SemPost(p)

LEMMA SegmentStepPc ==
  ASSUME TypeInv, NEW p \in Programs, SegmentStep(p)
  PROVE  /\ \E to \in Owner \cup Printing \cup {"done"} : Goto(p, pc[p], to) /\ UNCHANGED dead
            /\ (to \in Receiving \cup {"unlink_queue"} => pc[p] \in Receiving)
         /\ pc[p] \in Owner \cup Printing
  <1> USE DEF Goto, Runs, Owner, Printing, Receiving, names, memory, messages, miner
  <1>1. CASE Initialise(p) \/ Write(p) \/ EndUsers(p)
    BY <1>1 DEF Initialise, Write, EndUsers
  <1>2. CASE CountUser(p) \/ Read(p) \/ ReadUsers(p)
    BY <1>2 DEF CountUser, Read, ReadUsers
  <1>3. CASE SemWait(p)
    <2>1. UNCHANGED dead
      BY <1>3 DEF SemWait
    <2> QED BY <1>3, <2>1, WaitRows
  <1>4. CASE SemPost(p)
    <2>1. UNCHANGED dead
      BY <1>4 DEF SemPost
    <2> QED BY <1>4, <2>1, PostRows
  <1> QED BY <1>1, <1>2, <1>3, <1>4 DEF SegmentStep

(* A segment stays a segment whatever statement changes it.                 *)
LEMMA SegmentFields ==
  ASSUME NEW old \in Segment
  PROVE  /\ [old EXCEPT !.stage = 1] \in Segment
         /\ [old EXCEPT !.gym_mutex = 1, !.stage = 2, !.gym_empty = BUFFER_LENGTH] \in Segment
         /\ [old EXCEPT !.gym_fill = 0, !.stage = 3] \in Segment
         /\ [old EXCEPT !.using = @ - 1, !.writing = @ + 1] \in Segment
         /\ [old EXCEPT !.using = @ - 1, !.reading = @ + 1] \in Segment
         /\ [old EXCEPT !.using = @ + 1] \in Segment
         /\ [old EXCEPT !.reading = @ + 1] \in Segment
         /\ (old.gym_empty > 0 => [old EXCEPT !.gym_empty = @ - 1] \in Segment)
         /\ (old.gym_mutex > 0 => [old EXCEPT !.gym_mutex = @ - 1] \in Segment)
         /\ (old.gym_fill > 0 => [old EXCEPT !.gym_fill = @ - 1] \in Segment)
         /\ [old EXCEPT !.gym_empty = @ + 1] \in Segment
         /\ [old EXCEPT !.gym_mutex = @ + 1] \in Segment
         /\ [old EXCEPT !.gym_fill = @ + 1] \in Segment
  <1>0. {1, 2, 3} \subseteq Stages /\ BUFFER_LENGTH \in Nat
    BY PipelineAssumption DEF Stages
  <1>1. [old EXCEPT !.stage = 1] \in Segment
    BY <1>0 DEF Segment
  <1>2. [old EXCEPT !.gym_mutex = 1, !.stage = 2, !.gym_empty = BUFFER_LENGTH] \in Segment
    <2> SUFFICES ASSUME NEW m \in Nat, NEW e \in Nat, NEW t \in Stages
                 PROVE  [old EXCEPT !.gym_mutex = m, !.stage = t, !.gym_empty = e] \in Segment
      BY <1>0
    <2> QED BY DEF Segment
  <1>3. [old EXCEPT !.gym_fill = 0, !.stage = 3] \in Segment
    <2> SUFFICES ASSUME NEW n \in Nat, NEW t \in Stages
                 PROVE  [old EXCEPT !.gym_fill = n, !.stage = t] \in Segment
      BY <1>0
    <2> QED BY DEF Segment
  <1>4. [old EXCEPT !.using = @ - 1, !.writing = @ + 1] \in Segment
    <2>1. old.using - 1 \in Int /\ old.writing + 1 \in Nat
      BY DEF Segment
    <2> SUFFICES ASSUME NEW u \in Int, NEW n \in Nat
                 PROVE  [old EXCEPT !.using = u, !.writing = n] \in Segment
      BY <2>1
    <2> QED BY DEF Segment
  <1>5. [old EXCEPT !.using = @ - 1, !.reading = @ + 1] \in Segment
    <2>1. old.using - 1 \in Int /\ old.reading + 1 \in Nat
      BY DEF Segment
    <2> SUFFICES ASSUME NEW u \in Int, NEW n \in Nat
                 PROVE  [old EXCEPT !.using = u, !.reading = n] \in Segment
      BY <2>1
    <2> QED BY DEF Segment
  <1>6. [old EXCEPT !.using = @ + 1] \in Segment
    BY DEF Segment
  <1>7. [old EXCEPT !.reading = @ + 1] \in Segment
    BY DEF Segment
  <1>8. old.gym_empty > 0 => [old EXCEPT !.gym_empty = @ - 1] \in Segment
    BY DEF Segment
  <1>9. old.gym_mutex > 0 => [old EXCEPT !.gym_mutex = @ - 1] \in Segment
    BY DEF Segment
  <1>10. old.gym_fill > 0 => [old EXCEPT !.gym_fill = @ - 1] \in Segment
    BY DEF Segment
  <1>11. [old EXCEPT !.gym_empty = @ + 1] \in Segment
    BY DEF Segment
  <1>12. [old EXCEPT !.gym_mutex = @ + 1] \in Segment
    BY DEF Segment
  <1>13. [old EXCEPT !.gym_fill = @ + 1] \in Segment
    BY DEF Segment
  <1> QED BY <1>1, <1>2, <1>3, <1>4, <1>5, <1>6, <1>7, <1>8, <1>9, <1>10, <1>11, <1>12, <1>13

LEMMA SegmentSlot ==
  ASSUME NEW old \in Segment, NEW k, NEW b \in Copies
  PROVE  [old EXCEPT !.slots[k] = b, !.writing = @ + 1] \in Segment
  <1>1. [old.slots EXCEPT ![k] = b] \in Slots
    BY DEF Segment, Slots
  <1>2. old.writing + 1 \in Nat
    BY DEF Segment
  <1> SUFFICES ASSUME NEW z \in Slots, NEW n \in Nat
               PROVE  [old EXCEPT !.slots = z, !.writing = n] \in Segment
    BY <1>1, <1>2
  <1> QED BY DEF Segment

LEMMA SegmentTypes ==
  ASSUME NEW old \in Segment
  PROVE  /\ old.stage \in 0 .. 3 /\ old.using \in Int /\ old.reading \in Nat /\ old.writing \in Nat
         /\ old.gym_mutex \in Nat /\ old.gym_empty \in Nat /\ old.gym_fill \in Nat
         /\ old.slots \in [0 .. BUFFER_LENGTH - 1 -> Copies]
  BY DEF Segment, Slots, Stages

LEMMA SegmentStepType ==
  ASSUME TypeInv, NEW p \in Programs, SegmentStep(p)
  PROVE  shmem' \in [Segments -> Segment] /\ mapped[p] \in Segments
  <1> DEFINE s == mapped[p]
             old == shmem[s]
  <1>1. s \in Segments /\ shmem \in [Segments -> Segment] /\ old \in Segment
    <2>1. pc[p] \notin Unmapped
      BY SegmentStepPc DEF Unmapped, Owner, Receiving, Printing
    <2>2. s # 0 /\ s \in 0 .. shms /\ shms \in 0 .. MaxSegments
      BY <2>1 DEF TypeInv, MemoryType, NameType
    <2>3. s \in Segments
      BY <2>2, PipelineAssumption DEF Segments
    <2> QED BY <2>3 DEF TypeInv, MemoryType
  <1>2. \/ UNCHANGED shmem
        \/ \E new \in Segment : shmem' = [shmem EXCEPT ![s] = new]
    <2>1. CASE Initialise(p)
      <3>1. \/ shmem' = [shmem EXCEPT ![s] = [old EXCEPT !.stage = 1]]
            \/ shmem' = [shmem EXCEPT ![s] = [old EXCEPT !.gym_mutex = 1, !.stage = 2,
                                                         !.gym_empty = BUFFER_LENGTH]]
            \/ shmem' = [shmem EXCEPT ![s] = [old EXCEPT !.gym_fill = 0, !.stage = 3]]
        BY <1>1, <2>1 DEF Initialise
      <3> HIDE DEF s, old
      <3> QED BY <1>1, <3>1, SegmentFields
    <2>2. CASE Write(p)
      <3>1. block[p] \in Copies /\ Mark \in Copies
        BY DEF TypeInv, MemoryType, Copies
      <3>2. PICK b \in Copies :
              shmem' = [shmem EXCEPT ![s].slots[Slot(p)] = b, ![s].writing = @ + 1]
        BY <2>2, <3>1 DEF Write
      <3>3. PICK k : shmem' = [shmem EXCEPT ![s] = [old EXCEPT !.slots[k] = b, !.writing = @ + 1]]
        BY <1>1, <3>2
      <3> HIDE DEF s, old
      <3> QED BY <1>1, <3>2, <3>3, SegmentSlot
    <2>3. CASE EndUsers(p) \/ ReadUsers(p) \/ CountUser(p) \/ Read(p)
      <3>1. \/ UNCHANGED shmem
            \/ shmem' = [shmem EXCEPT ![s] = [old EXCEPT !.using = @ - 1, !.writing = @ + 1]]
            \/ shmem' = [shmem EXCEPT ![s] = [old EXCEPT !.using = @ - 1, !.reading = @ + 1]]
            \/ shmem' = [shmem EXCEPT ![s] = [old EXCEPT !.using = @ + 1]]
            \/ shmem' = [shmem EXCEPT ![s] = [old EXCEPT !.reading = @ + 1]]
        BY <1>1, <2>3 DEF EndUsers, ReadUsers, CountUser, Read
      <3> HIDE DEF s, old
      <3> QED BY <1>1, <3>1, SegmentFields
    <2>4. CASE SemWait(p)
      <3>1. \/ old.gym_empty > 0 /\ shmem' = [shmem EXCEPT ![s] = [old EXCEPT !.gym_empty = @ - 1]]
            \/ old.gym_mutex > 0 /\ shmem' = [shmem EXCEPT ![s] = [old EXCEPT !.gym_mutex = @ - 1]]
            \/ old.gym_fill > 0 /\ shmem' = [shmem EXCEPT ![s] = [old EXCEPT !.gym_fill = @ - 1]]
        BY <1>1, <2>4, WaitRows
      <3> HIDE DEF s, old
      <3> QED BY <1>1, <3>1, SegmentFields
    <2>5. CASE SemPost(p)
      <3>1. \/ shmem' = [shmem EXCEPT ![s] = [old EXCEPT !.gym_empty = @ + 1]]
            \/ shmem' = [shmem EXCEPT ![s] = [old EXCEPT !.gym_mutex = @ + 1]]
            \/ shmem' = [shmem EXCEPT ![s] = [old EXCEPT !.gym_fill = @ + 1]]
        BY <1>1, <2>5, PostRows
      <3> HIDE DEF s, old
      <3> QED BY <1>1, <3>1, SegmentFields
    <2> QED BY <2>1, <2>2, <2>3, <2>4, <2>5 DEF SegmentStep
  <1> HIDE DEF s, old
  <1>3. shmem' \in [Segments -> Segment]
    BY <1>1, <1>2
  <1> QED BY <1>1, <1>3 DEF s

(* What a segment step leaves alone.                                        *)
LEMMA SegmentStepRest ==
  ASSUME TypeInv, NEW p \in Programs, SegmentStep(p)
  PROVE  /\ UNCHANGED <<dead, mq_name, shms, mapped, messages, miner>>
         /\ shm_name' \in {shm_name, 0}
         /\ block' \in [Programs -> Copies]
  <1> USE DEF names, memory, messages, miner
  <1>1. /\ UNCHANGED <<dead, mq_name, shms, mapped, messages, miner>>
        /\ shm_name' \in {shm_name, 0}
    BY DEF SegmentStep, Initialise, Write, EndUsers, CountUser, Read, ReadUsers, SemWait, SemPost
  <1>2. block' \in [Programs -> Copies]
    <2>1. CASE Read(p)
      <3> DEFINE b == shmem[mapped[p]].slots[shmem[mapped[p]].reading % BUFFER_LENGTH]
      <3>1. shmem[mapped[p]] \in Segment
        BY SegmentStepType DEF TypeInv, MemoryType
      <3>2. b \in Copies
        BY <3>1, SegmentTypes, PipelineAssumption
      <3>3. block' = [block EXCEPT ![p] = b] /\ block \in [Programs -> Copies]
        BY <2>1 DEF Read, TypeInv, MemoryType
      <3> HIDE DEF b
      <3> QED BY <3>2, <3>3
    <2>2. CASE ~Read(p)
      BY <2>2 DEF SegmentStep, Initialise, Write, EndUsers, CountUser, ReadUsers, SemWait, SemPost,
                  TypeInv, MemoryType
    <2> QED BY <2>1, <2>2
  <1> QED BY <1>1, <1>2

LEMMA TypeSegmentStep ==
  ASSUME TypeInv, NEW p \in Programs, SegmentStep(p)
  PROVE  TypeInv'
  <1>1. PICK to \in Owner \cup Printing \cup {"done"} :
          /\ Goto(p, pc[p], to) /\ UNCHANGED dead
          /\ to \in Receiving \cup {"unlink_queue"} => pc[p] \in Receiving
    BY SegmentStepPc
  <1>2. to \in ProgramLabels
    BY DEF ProgramLabels
  <1>3. /\ PcType' /\ pc'[p] = to /\ \A m \in Miners : pc'[m] = pc[m]
        /\ \A q \in Programs \ {p} : pc'[q] = pc[q]
    BY <1>1, <1>2, ProgramMoves DEF TypeInv
  <1>4. /\ UNCHANGED <<shms, mapped, mq_name, queues, mqs, mq, rounds, i>> /\ shm_name' \in {shm_name, 0}
        /\ block' \in [Programs -> Copies]
    BY SegmentStepRest DEF messages, miner
  <1>5. NameType'
    BY <1>4 DEF TypeInv, NameType
  <1>6. MemoryType'
    <2>1. pc[p] \notin Unmapped /\ pc'[p] \notin Unmapped
      BY <1>3, SegmentStepPc DEF Unmapped, Owner, Receiving, Printing
    <2>2. \A q \in Programs : mapped[q] = 0 <=> pc'[q] \in Unmapped
      BY <1>3, <2>1 DEF TypeInv, MemoryType
    <2> QED BY <1>4, <2>2, SegmentStepType DEF TypeInv, MemoryType
  <1>7. QueueType' /\ RoundType'
    BY <1>1, <1>3, <1>4 DEF TypeInv, QueueType, RoundType
  <1> QED BY <1>3, <1>5, <1>6, <1>7 DEF TypeInv

(* A miner's steps.                                                         *)
LEMMA TypeMiner ==
  ASSUME TypeInv, NEW m \in Miners, LaunchMiner(m) \/ Miner(m)
  PROVE  TypeInv'
  <1> USE DEF names, memory, messages, miner
  <1>1. CASE LaunchMiner(m)
    <2>1. /\ PcType' /\ pc[m] = "idle" /\ pc'[m] = "loop"
          /\ \A p \in Programs : pc'[p] = pc[p]
          /\ \A n \in Miners \ {m} : pc'[n] = pc[n]
      BY <1>1, MinerMoves DEF LaunchMiner, MinerLabels, TypeInv
    <2>2. /\ mqs \in Nat /\ mqs' \in mqs .. MaxQueues /\ mq_name' \in 1 .. mqs'
          /\ mq' \in [Programs \cup Miners -> 0 .. mqs'] /\ mq'[m] # 0
          /\ \A q \in (Programs \cup Miners) \ {m} : mq'[q] = mq[q]
      BY <1>1, OpenQueueType DEF LaunchMiner
    <2>3. UNCHANGED <<shm_name, shmem, shms, mapped, block, queues, i>>
      BY <1>1 DEF LaunchMiner
    <2>4. NameType'
      BY <2>2, <2>3, PipelineAssumption DEF TypeInv, NameType
    <2>5. MemoryType'
      BY <2>1, <2>3 DEF TypeInv, MemoryType
    <2>6. QueueType'
      <3>1. \A p \in Programs : mq'[p] = mq[p]
        BY <2>2, PipelineAssumption
      <3> QED BY <2>1, <2>2, <2>3, <3>1 DEF TypeInv, QueueType
    <2>7. RoundType'
      <3>1. PICK r \in Rounds : rounds' = [rounds EXCEPT ![m] = r]
        BY <1>1 DEF LaunchMiner
      <3>2. r \in Nat /\ i[m] = 0
        BY <2>1, PipelineAssumption DEF TypeInv, RoundType
      <3> QED BY <2>1, <2>3, <3>1, <3>2 DEF TypeInv, RoundType
    <2> QED BY <2>1, <2>4, <2>5, <2>6, <2>7 DEF TypeInv
  <1>2. CASE Send(m)
    <2> DEFINE q == mq[m]
               b == [miner |-> m, n |-> i[m] + 1, end |-> IF i[m] = rounds[m] - 1 THEN 1 ELSE 0]
    <2>1. PcType' /\ pc[m] = "loop" /\ UNCHANGED pc
      BY <1>2 DEF Send, Goto, Runs, TypeInv, PcType
    <2>2. /\ q \in Queues /\ queues[q] \in Seq(Blocks)
      BY <2>1, PipelineAssumption DEF TypeInv, QueueType, NameType, Queues
    <2>3. b \in Blocks
      <3>1. i[m] \in Nat /\ rounds[m] \in Rounds \cup {0} /\ i[m] < rounds[m]
        BY <1>2 DEF Send, TypeInv, RoundType
      <3>2. rounds[m] \in Rounds /\ i[m] + 1 \in 1 .. rounds[m]
        <4>1. rounds[m] # 0 => rounds[m] \in Nat
          BY <3>1, PipelineAssumption
        <4>2. rounds[m] # 0
          BY <3>1
        <4> QED BY <3>1, <4>1, <4>2
      <3>3. i[m] + 1 \in UNION { 1 .. r : r \in Rounds }
        BY <3>2
      <3> QED BY <3>3 DEF Blocks
    <2>4. /\ Len(queues[q]) < MAX_MSG /\ queues' = [queues EXCEPT ![q] = Append(queues[q], b)]
          /\ i' = [i EXCEPT ![m] = @ + 1] /\ i[m] < rounds[m]
          /\ UNCHANGED <<shm_name, mq_name, shmem, shms, mapped, block, mqs, mq, rounds>>
      BY <1>2 DEF Send
    <2> HIDE DEF q, b
    <2>5. Append(queues[q], b) \in Seq(Blocks) /\ Len(Append(queues[q], b)) <= MAX_MSG
      BY <2>2, <2>3, <2>4, PipelineAssumption
    <2>6. QueueType'
      <3>1. /\ queues' \in [Queues -> Seq(Blocks)]
            /\ \A k \in Queues : Len(queues'[k]) <= MAX_MSG
        BY <2>4, <2>5 DEF TypeInv, QueueType
      <3> QED BY <2>1, <2>4, <3>1 DEF TypeInv, QueueType
    <2>7. RoundType'
      <3>1. /\ rounds \in [Miners -> Rounds \cup {0}] /\ i \in [Miners -> Nat]
            /\ \A n \in Miners : i[n] <= rounds[n] /\ (pc[n] = "idle" => i[n] = 0)
        BY DEF TypeInv, RoundType
      <3>2. rounds[m] \in Nat /\ i[m] \in Nat
        <4>1. rounds[m] \in Rounds \cup {0} /\ i[m] \in Nat
          BY <3>1
        <4>2. rounds[m] \in Rounds => rounds[m] \in Nat
          BY PipelineAssumption
        <4>3. rounds[m] = 0 => rounds[m] \in Nat
          OBVIOUS
        <4> QED BY <4>1, <4>2, <4>3
      <3>3. PICK k \in Nat : k = i[m] + 1 /\ k <= rounds[m]
        BY <2>4, <3>2
      <3>4. i' = [i EXCEPT ![m] = k]
        BY <2>4, <3>3
      <3> QED BY <2>1, <2>4, <3>1, <3>3, <3>4 DEF RoundType
    <2> QED BY <2>1, <2>4, <2>6, <2>7 DEF TypeInv, NameType, MemoryType
  <1>3. CASE MinerEnds(m)
    <2>1. /\ PcType' /\ pc'[m] = "done"
          /\ \A p \in Programs : pc'[p] = pc[p]
          /\ \A n \in Miners \ {m} : pc'[n] = pc[n]
      BY <1>3, MinerMoves DEF MinerEnds, MinerLabels, TypeInv
    <2>2. /\ mq_name' = 0
          /\ UNCHANGED <<shm_name, shmem, shms, mapped, block, queues, mqs, mq, rounds, i>>
      BY <1>3 DEF MinerEnds
    <2>3. NameType' /\ MemoryType'
      BY <2>1, <2>2, PipelineAssumption DEF TypeInv, NameType, MemoryType
    <2>4. QueueType'
      BY <2>1, <2>2 DEF TypeInv, QueueType
    <2>5. RoundType'
      BY <2>1, <2>2 DEF TypeInv, RoundType
    <2> QED BY <2>1, <2>3, <2>4, <2>5 DEF TypeInv
  <1> QED BY <1>1, <1>2, <1>3 DEF Miner

(* A program's steps that leave the contents of the segments alone.         *)
LEMMA TypeOtherStep ==
  ASSUME TypeInv, NEW p \in Programs,
         \/ LaunchProgram(p) \/ Create(p) \/ OpenForReceiving(p) \/ Receive(p) \/ LastUnlink(p)
         \/ WaitTooEarly(p)
  PROVE  TypeInv'
  <1> USE DEF names, memory, messages, miner
  <1>1. CASE LaunchProgram(p)
    <2>1. /\ PcType' /\ pc[p] = "idle" /\ \A m \in Miners : pc'[m] = pc[m]
          /\ \A q \in Programs \ {p} : pc'[q] = pc[q]
          /\ pc'[p] = IF shm_name = 0 THEN "create" ELSE "using_wait"
      BY <1>1, ProgramMoves DEF LaunchProgram, ProgramLabels, Unmapped, Printing, TypeInv
    <2>2. /\ mapped' = [mapped EXCEPT ![p] = shm_name] /\ shm_name \in 0 .. shms
          /\ UNCHANGED <<shm_name, mq_name, shmem, shms, block, queues, mqs, mq, rounds, i>>
      BY <1>1 DEF LaunchProgram, TypeInv, NameType
    <2>3. MemoryType'
      <3>1. mapped' \in [Programs -> 0 .. shms] /\ mapped'[p] = shm_name
              /\ \A q \in Programs \ {p} : mapped'[q] = mapped[q]
        BY <2>2 DEF TypeInv, MemoryType
      <3>2. pc'[p] \in Unmapped <=> shm_name = 0
        BY <2>1 DEF Unmapped
      <3> QED BY <2>1, <2>2, <3>1, <3>2 DEF TypeInv, MemoryType
    <2>4. QueueType'
      <3>1. pc'[p] \notin Receiving \cup {"unlink_queue"}
        BY <2>1 DEF Receiving
      <3> QED BY <2>1, <2>2, <3>1 DEF TypeInv, QueueType
    <2> QED BY <2>1, <2>2, <2>3, <2>4 DEF TypeInv, NameType, RoundType
  <1>2. CASE Create(p)
    <2>1. UNCHANGED <<mq_name, shmem, block, queues, mqs, mq, rounds, i>>
      BY <1>2 DEF Create
    <2>2. PICK to \in {"truncate", "lost_race"} :
            /\ Goto(p, "create", to) /\ UNCHANGED dead
            /\ \/ /\ to = "truncate" /\ shms < MaxSegments /\ shms' = shms + 1
                  /\ shm_name' = shms + 1 /\ mapped' = [mapped EXCEPT ![p] = shms + 1]
               \/ to = "lost_race" /\ UNCHANGED <<shms, shm_name, mapped>>
      BY <1>2 DEF Create, LosesRace
    <2>3. /\ PcType' /\ pc[p] = "create" /\ pc'[p] = to /\ \A m \in Miners : pc'[m] = pc[m]
          /\ \A q \in Programs \ {p} : pc'[q] = pc[q]
      BY <2>2, ProgramMoves DEF ProgramLabels, Unmapped, Owner, TypeInv
    <2>4. NameType'
      BY <2>1, <2>2, PipelineAssumption DEF TypeInv, NameType
    <2>5. MemoryType'
      <3>1. /\ mapped' \in [Programs -> 0 .. shms'] /\ \A q \in Programs \ {p} : mapped'[q] = mapped[q]
            /\ mapped'[p] = 0 <=> to = "lost_race"
        <4>1. mapped \in [Programs -> 0 .. shms] /\ shms \in Nat /\ mapped[p] = 0
          BY <2>3, PipelineAssumption DEF TypeInv, MemoryType, NameType, Unmapped
        <4>2. CASE to = "truncate"
          <5>1. shms + 1 \in 0 .. shms' /\ 0 .. shms \subseteq 0 .. shms' /\ shms + 1 # 0
            BY <2>2, <4>1, <4>2
          <5> QED BY <2>2, <4>1, <4>2, <5>1
        <4>3. CASE to = "lost_race"
          BY <2>2, <4>1, <4>3
        <4> QED BY <4>2, <4>3
      <3>2. to \in Unmapped <=> to = "lost_race"
        BY DEF Unmapped
      <3> QED BY <2>1, <2>3, <3>1, <3>2 DEF TypeInv, MemoryType
    <2>6. QueueType'
      <3>1. pc'[p] \notin Receiving \cup {"unlink_queue"}
        BY <2>3 DEF Receiving
      <3> QED BY <2>1, <2>3, <3>1 DEF TypeInv, QueueType
    <2> QED BY <2>1, <2>3, <2>4, <2>5, <2>6 DEF TypeInv, RoundType
  <1>3. CASE OpenForReceiving(p)
    <2>1. UNCHANGED <<dead, shm_name, shmem, shms, mapped, block, queues, rounds, i>>
      BY <1>3 DEF OpenForReceiving
    <2>2. PICK from \in Owner, to \in {"unlink_queue", "receive"} :
            /\ Goto(p, from, to) /\ (to = "receive" => from = "unlink_queue")
            /\ \/ to = "unlink_queue" /\ OpenQueue(p)
               \/ to = "receive" /\ mq_name' = 0 /\ UNCHANGED <<mq, mqs>>
      BY <1>3 DEF OpenForReceiving, Owner
    <2>3. /\ PcType' /\ pc[p] = from /\ pc'[p] = to /\ \A m \in Miners : pc'[m] = pc[m]
          /\ \A q \in Programs \ {p} : pc'[q] = pc[q]
      BY <2>1, <2>2, ProgramMoves DEF ProgramLabels, Owner, Receiving, TypeInv
    <2>4. MemoryType'
      <3>1. from \notin Unmapped /\ to \notin Unmapped
        BY DEF Unmapped, Owner, Receiving
      <3> QED BY <2>1, <2>3, <3>1 DEF TypeInv, MemoryType
    <2>5. NameType' /\ QueueType'
      <3>1. CASE OpenQueue(p)
        <4>1. /\ mqs \in Nat /\ mqs' \in mqs .. MaxQueues /\ mq_name' \in 1 .. mqs'
              /\ mq' \in [Programs \cup Miners -> 0 .. mqs'] /\ mq'[p] # 0
              /\ \A q \in (Programs \cup Miners) \ {p} : mq'[q] = mq[q]
          BY <3>1, OpenQueueType
        <4>2. NameType'
          BY <2>1, <4>1, PipelineAssumption DEF TypeInv, NameType
        <4>3. \A m \in Miners : mq'[m] = mq[m]
          BY <4>1, PipelineAssumption
        <4> QED BY <2>1, <2>3, <4>1, <4>2, <4>3 DEF TypeInv, QueueType
      <3>2. CASE to = "receive" /\ mq_name' = 0 /\ UNCHANGED <<mq, mqs>>
        <4>1. from = "unlink_queue"
          BY <2>2, <3>2
        <4>2. NameType'
          BY <2>1, <3>2, PipelineAssumption DEF TypeInv, NameType
        <4> QED BY <2>1, <2>3, <3>2, <4>1, <4>2 DEF TypeInv, QueueType
      <3> QED BY <2>2, <3>1, <3>2
    <2> QED BY <2>1, <2>3, <2>4, <2>5 DEF TypeInv, RoundType
  <1>4. CASE Receive(p)
    <2>1. /\ UNCHANGED <<dead, shm_name, mq_name, shmem, shms, mapped, mqs, mq, rounds, i>>
          /\ Goto(p, "receive", "empty_wait") /\ queues[mq[p]] # <<>>
          /\ block' = [block EXCEPT ![p] = Head(queues[mq[p]])]
          /\ queues' = [queues EXCEPT ![mq[p]] = Tail(queues[mq[p]])]
      BY <1>4 DEF Receive
    <2>2. /\ PcType' /\ pc[p] = "receive" /\ pc'[p] = "empty_wait" /\ \A m \in Miners : pc'[m] = pc[m]
          /\ \A q \in Programs \ {p} : pc'[q] = pc[q]
      BY <2>1, ProgramMoves DEF ProgramLabels, Owner, Receiving, TypeInv
    <2>3. mq[p] \in Queues /\ queues[mq[p]] \in Seq(Blocks) /\ Len(queues[mq[p]]) <= MAX_MSG
      BY <2>2, PipelineAssumption DEF TypeInv, QueueType, NameType, Queues, Receiving
    <2>4. /\ Head(queues[mq[p]]) \in Blocks /\ Tail(queues[mq[p]]) \in Seq(Blocks)
          /\ Len(Tail(queues[mq[p]])) <= MAX_MSG
      BY <2>1, <2>3, PipelineAssumption
    <2>5. MemoryType'
      <3>1. block' \in [Programs -> Copies]
        BY <2>1, <2>4 DEF TypeInv, MemoryType, Copies
      <3> QED BY <2>1, <2>2, <3>1 DEF TypeInv, MemoryType, Unmapped
    <2>6. QueueType'
      <3>1. /\ queues' \in [Queues -> Seq(Blocks)]
            /\ \A k \in Queues : Len(queues'[k]) <= MAX_MSG
        BY <2>1, <2>4 DEF TypeInv, QueueType
      <3>2. mq[p] # 0
        BY <2>2 DEF TypeInv, QueueType, Receiving
      <3> QED BY <2>1, <2>2, <3>1, <3>2 DEF TypeInv, QueueType
    <2> QED BY <2>1, <2>2, <2>5, <2>6 DEF TypeInv, NameType, RoundType
  <1>5. CASE LastUnlink(p) \/ WaitTooEarly(p)
    <2>1. /\ UNCHANGED <<dead, mq_name, shmem, shms, mapped, block, queues, mqs, mq, rounds, i>>
          /\ shm_name' \in {shm_name, 0}
      BY <1>5 DEF LastUnlink, UnlinksAgain, WaitTooEarly
    <2>2. PICK from \in {"last_unlink", "using_wait", "fill_wait"}, to \in {"done", "sigbus", "asleep"} :
            Goto(p, from, to)
      BY <1>5 DEF LastUnlink, WaitTooEarly
    <2>3. /\ PcType' /\ pc[p] = from /\ pc'[p] = to /\ \A m \in Miners : pc'[m] = pc[m]
          /\ \A q \in Programs \ {p} : pc'[q] = pc[q]
      BY <2>1, <2>2, ProgramMoves DEF ProgramLabels, TypeInv
    <2>4. NameType'
      BY <2>1 DEF TypeInv, NameType
    <2>5. MemoryType'
      BY <2>1, <2>3 DEF TypeInv, MemoryType, Unmapped
    <2>6. QueueType'
      BY <2>1, <2>3 DEF TypeInv, QueueType, Receiving
    <2> QED BY <2>1, <2>3, <2>4, <2>5, <2>6 DEF TypeInv, RoundType
  <1> QED BY <1>1, <1>2, <1>3, <1>4, <1>5

LEMMA TypeNext == TypeInv /\ [Next]_vars => TypeInv'
  <1> SUFFICES ASSUME TypeInv, [Next]_vars PROVE TypeInv'
    OBVIOUS
  <1>1. ASSUME NEW p \in Programs, LaunchProgram(p) \/ Program(p)
        PROVE  TypeInv'
    BY <1>1, TypeSegmentStep, TypeOtherStep DEF Program, SegmentStep
  <1>2. ASSUME NEW p \in Mortal, Killed(p)
        PROVE  TypeInv'
    <2>1. dead' \subseteq Programs \cup Miners
      BY <1>2, PipelineAssumption DEF Killed, TypeInv, PcType
    <2> QED BY <1>2, <2>1 DEF Killed, TypeInv, PcType, NameType, MemoryType, QueueType, RoundType, names,
                              memory, messages, miner
  <1>3. CASE UNCHANGED vars
    BY <1>3 DEF vars, TypeInv, PcType, NameType, MemoryType, QueueType, RoundType, names, memory,
                messages, miner
  <1> QED BY <1>1, <1>2, <1>3, TypeMiner DEF Next

-----------------------------------------------------------------------------
(* The semaphores.                                                          *)

One(b) == IF b THEN 1 ELSE 0

MutexLabels == {"write", "end_users", "mutex_post", "using", "using_post", "read", "read_users",
                "read_post"}

SlotLabels == {"mutex_wait", "write", "end_users", "mutex_post", "fill_post", "read_wait", "read",
               "read_users", "read_post", "empty_post"}

LEMMA Holders ==
  ASSUME NEW s
  PROVE  HoldingMutex(s) = On(s, MutexLabels) /\ HoldingSlot(s) = On(s, SlotLabels)
  BY DEF HoldingMutex, HoldingSlot, MutexLabels, SlotLabels

(* A segment has one owner, whose pc says how far its set-up has come.      *)
OwnerInv ==
  /\ \A p, q \in Programs :
       pc[p] \in Owner /\ pc[q] \in Owner /\ mapped[p] = mapped[q] => p = q
  /\ \A p \in Programs :
       /\ pc[p] = "truncate" => shmem[mapped[p]].stage = 0
       /\ pc[p] = "init_mutex" => shmem[mapped[p]].stage = 1
       /\ pc[p] = "init_fill" => shmem[mapped[p]].stage = 2
       /\ pc[p] \in Receiving \cup {"open_queue", "unlink_queue"} => shmem[mapped[p]].stage = 3
  /\ \A s \in Segments : s > shms => shmem[s].stage = 0

(* Before sem_init there is nothing to wait for.                            *)
SumInv ==
  \A s \in Segments :
    /\ shmem[s].gym_mutex + Cardinality(On(s, MutexLabels)) = One(shmem[s].stage >= 2)
    /\ shmem[s].gym_empty + shmem[s].gym_fill + Cardinality(On(s, SlotLabels))
         = BUFFER_LENGTH * One(shmem[s].stage >= 2)
    /\ shmem[s].stage < 3 => shmem[s].gym_fill = 0

RingInv == TypeInv /\ OwnerInv /\ SumInv

LEMMA OnFinite ==
  ASSUME NEW s, NEW L
  PROVE  /\ IsFiniteSet(On(s, L)) /\ Cardinality(On(s, L)) \in Nat
         /\ IsFiniteSet(On(s, L)') /\ Cardinality(On(s, L)') \in Nat
  <1>1. On(s, L) \subseteq Programs /\ On(s, L)' \subseteq Programs /\ IsFiniteSet(Programs)
    BY PipelineAssumption DEF On
  <1> QED BY <1>1, FS_Subset, FS_CardinalityType

(* One process moves: it joins or leaves those that stand at the labels L.  *)
LEMMA OnMoves ==
  ASSUME NEW p \in Programs, NEW s, NEW L,
         \A q \in Programs \ {p} : pc'[q] = pc[q] /\ mapped'[q] = mapped[q]
  PROVE  /\ (pc[p] \notin L /\ pc'[p] \notin L) => On(s, L)' = On(s, L)
         /\ (mapped[p] # s /\ mapped'[p] # s) => On(s, L)' = On(s, L)
         /\ (mapped[p] = s /\ mapped'[p] = s) =>
              Cardinality(On(s, L)') + One(pc[p] \in L) = Cardinality(On(s, L)) + One(pc'[p] \in L)
  <1>1. (pc[p] \notin L /\ pc'[p] \notin L) => On(s, L)' = On(s, L)
    BY DEF On
  <1>2. (mapped[p] # s /\ mapped'[p] # s) => On(s, L)' = On(s, L)
    BY DEF On
  <1>3. ASSUME mapped[p] = s, mapped'[p] = s
        PROVE  Cardinality(On(s, L)') + One(pc[p] \in L) = Cardinality(On(s, L)) + One(pc'[p] \in L)
    <2>1. CASE (pc[p] \in L) = (pc'[p] \in L)
      <3>1. On(s, L)' = On(s, L)
        BY <1>3, <2>1 DEF On
      <3> QED BY <2>1, <3>1 DEF One
    <2>2. CASE pc[p] \in L /\ pc'[p] \notin L
      <3>1. On(s, L)' = On(s, L) \ {p} /\ p \in On(s, L)
        BY <1>3, <2>2 DEF On
      <3>2. Cardinality(On(s, L)') = Cardinality(On(s, L)) - 1
        BY <3>1, OnFinite, FS_RemoveElement
      <3> QED BY <2>2, <3>2, OnFinite DEF One
    <2>3. CASE pc[p] \notin L /\ pc'[p] \in L
      <3>1. On(s, L)' = On(s, L) \cup {p} /\ p \notin On(s, L)
        BY <1>3, <2>3 DEF On
      <3>2. Cardinality(On(s, L)') = Cardinality(On(s, L)) + 1
        BY <3>1, OnFinite, FS_AddElement
      <3> QED BY <2>3, <3>2, OnFinite DEF One
    <2> QED BY <2>1, <2>2, <2>3
  <1> QED BY <1>1, <1>2, <1>3

LEMMA SumInit == Init => OwnerInv /\ SumInv
  <1> SUFFICES ASSUME Init PROVE OwnerInv /\ SumInv
    OBVIOUS
  <1>1. \A p \in Programs : pc[p] = "idle"
    BY DEF Init
  <1>2. ASSUME NEW s \in Segments
        PROVE  /\ shmem[s].stage = 0 /\ shmem[s].gym_mutex = 0 /\ shmem[s].gym_empty = 0
               /\ shmem[s].gym_fill = 0
    BY DEF Init
  <1>3. ASSUME NEW s
        PROVE  On(s, MutexLabels) = {} /\ On(s, SlotLabels) = {}
    BY <1>1 DEF On, MutexLabels, SlotLabels
  <1>4. SumInv
    <2> SUFFICES ASSUME NEW s \in Segments
                 PROVE  /\ shmem[s].gym_mutex + Cardinality(On(s, MutexLabels))
                              = One(shmem[s].stage >= 2)
                        /\ shmem[s].gym_empty + shmem[s].gym_fill + Cardinality(On(s, SlotLabels))
                              = BUFFER_LENGTH * One(shmem[s].stage >= 2)
                        /\ shmem[s].stage < 3 => shmem[s].gym_fill = 0
      BY DEF SumInv
    <2> QED BY <1>2, <1>3, FS_EmptySet, PipelineAssumption DEF One
  <1>5. OwnerInv
    BY <1>1, <1>2 DEF OwnerInv, Owner, Receiving
  <1> QED BY <1>4, <1>5

(* What a segment step does to stage and semaphores, for a process on its   *)
(* way from one label to the next: set-up, or a token that changes hands.   *)
SetsUp(p, old, new) ==
  \/ /\ pc[p] = "truncate" /\ pc'[p] = "init_mutex" /\ new.stage = 1
     /\ new.gym_mutex = old.gym_mutex /\ new.gym_empty = old.gym_empty /\ new.gym_fill = old.gym_fill
  \/ /\ pc[p] = "init_mutex" /\ pc'[p] = "init_fill" /\ new.stage = 2
     /\ new.gym_mutex = 1 /\ new.gym_empty = BUFFER_LENGTH /\ new.gym_fill = old.gym_fill
  \/ /\ pc[p] = "init_fill" /\ pc'[p] = "open_queue" /\ new.stage = 3
     /\ new.gym_mutex = old.gym_mutex /\ new.gym_empty = old.gym_empty /\ new.gym_fill = 0

Passes(p, old, new) ==
  /\ new.stage = old.stage
  /\ new.gym_mutex + One(pc'[p] \in MutexLabels) = old.gym_mutex + One(pc[p] \in MutexLabels)
  /\ new.gym_empty + new.gym_fill + One(pc'[p] \in SlotLabels)
       = old.gym_empty + old.gym_fill + One(pc[p] \in SlotLabels)
  /\ new.gym_fill = old.gym_fill \/ pc[p] = "fill_post" \/ old.gym_fill > 0
  /\ \/ pc[p] \in Receiving /\ pc'[p] \in Receiving
     \/ pc[p] \in Printing /\ pc'[p] \notin Owner

LEMMA SegmentEffect ==
  ASSUME TypeInv, NEW p \in Programs, SegmentStep(p)
  PROVE  /\ SetsUp(p, shmem[mapped[p]], shmem'[mapped[p]]) \/ Passes(p, shmem[mapped[p]], shmem'[mapped[p]])
         /\ \A t \in Segments \ {mapped[p]} : shmem'[t] = shmem[t]
  <1> DEFINE s == mapped[p]
             old == shmem[s]
             new == shmem'[s]
  <1>0. s \in Segments /\ old \in Segment /\ DOMAIN shmem = Segments
    BY SegmentStepType DEF TypeInv, MemoryType
  <1>a. /\ old.gym_mutex \in Nat /\ old.gym_empty \in Nat /\ old.gym_fill \in Nat
    BY <1>0, SegmentTypes
  <1>b. ASSUME NEW from, NEW to, Goto(p, from, to)
        PROVE  pc[p] = from /\ pc'[p] = to
    BY <1>b DEF Goto, Runs, TypeInv, PcType
  <1> HIDE DEF s
  <1>1. CASE Initialise(p)
    <2>1. \/ /\ pc[p] = "truncate" /\ pc'[p] = "init_mutex"
             /\ shmem' = [shmem EXCEPT ![s].stage = 1]
          \/ /\ pc[p] = "init_mutex" /\ pc'[p] = "init_fill"
             /\ shmem' = [shmem EXCEPT ![s].gym_mutex = 1, ![s].stage = 2,
                                       ![s].gym_empty = BUFFER_LENGTH]
          \/ /\ pc[p] = "init_fill" /\ pc'[p] = "open_queue"
             /\ shmem' = [shmem EXCEPT ![s].gym_fill = 0, ![s].stage = 3]
      BY <1>1, <1>b DEF Initialise, s
    <2>2. SetsUp(p, old, new)
      BY <1>0, <2>1 DEF SetsUp, Segment
    <2>3. \A t \in Segments \ {s} : shmem'[t] = shmem[t]
      BY <1>0, <2>1
    <2> QED BY <2>2, <2>3 DEF s
  <1>2. CASE Write(p) \/ EndUsers(p) \/ CountUser(p) \/ Read(p) \/ ReadUsers(p)
    <2>1. \/ UNCHANGED shmem
          \/ \E k, b : shmem' = [shmem EXCEPT ![s].slots[k] = b, ![s].writing = @ + 1]
          \/ shmem' = [shmem EXCEPT ![s].using = @ - 1, ![s].writing = @ + 1]
          \/ shmem' = [shmem EXCEPT ![s].using = @ - 1, ![s].reading = @ + 1]
          \/ shmem' = [shmem EXCEPT ![s].using = @ + 1]
          \/ shmem' = [shmem EXCEPT ![s].reading = @ + 1]
      <3>1. Write(p) =>
              \E k, b : shmem' = [shmem EXCEPT ![s].slots[k] = b, ![s].writing = @ + 1]
        BY DEF Write, s
      <3>2. EndUsers(p) => \/ UNCHANGED shmem
                           \/ shmem' = [shmem EXCEPT ![s].using = @ - 1, ![s].writing = @ + 1]
        BY DEF EndUsers, s
      <3>3. ReadUsers(p) => \/ UNCHANGED shmem
                            \/ shmem' = [shmem EXCEPT ![s].using = @ - 1, ![s].reading = @ + 1]
        BY DEF ReadUsers, s
      <3>4. /\ CountUser(p) => shmem' = [shmem EXCEPT ![s].using = @ + 1]
            /\ Read(p) => shmem' = [shmem EXCEPT ![s].reading = @ + 1]
        BY DEF CountUser, Read, s
      <3> QED BY <1>2, <3>1, <3>2, <3>3, <3>4
    <2>2. /\ new.stage = old.stage /\ new.gym_mutex = old.gym_mutex /\ new.gym_empty = old.gym_empty
          /\ new.gym_fill = old.gym_fill
          /\ \A t \in Segments \ {s} : shmem'[t] = shmem[t]
      BY <1>0, <2>1 DEF Segment
    <2>3. \/ pc[p] = "write" /\ pc'[p] \in {"end_users", "mutex_post"}
          \/ pc[p] = "end_users" /\ pc'[p] = "mutex_post"
          \/ pc[p] = "using" /\ pc'[p] = "using_post"
          \/ pc[p] = "read" /\ pc'[p] \in {"read_users", "read_post"}
          \/ pc[p] = "read_users" /\ pc'[p] = "read_post"
      BY <1>2, <1>b DEF Write, EndUsers, CountUser, Read, ReadUsers
    <2>4. Passes(p, old, new)
      <3>1. /\ One(pc'[p] \in MutexLabels) = One(pc[p] \in MutexLabels)
            /\ One(pc'[p] \in SlotLabels) = One(pc[p] \in SlotLabels)
        BY <2>3 DEF MutexLabels, SlotLabels
      <3>2. \/ pc[p] \in Receiving /\ pc'[p] \in Receiving
            \/ pc[p] \in Printing /\ pc'[p] \notin Owner
        BY <2>3 DEF Receiving, Printing, Owner
      <3> QED BY <2>2, <3>1, <3>2 DEF Passes
    <2> QED BY <2>2, <2>4 DEF s
  <1>3. CASE SemWait(p)
    <2>1. \/ /\ pc[p] = "empty_wait" /\ pc'[p] = "mutex_wait" /\ old.gym_empty > 0
             /\ shmem' = [shmem EXCEPT ![s].gym_empty = @ - 1]
          \/ /\ \/ pc[p] = "mutex_wait" /\ pc'[p] = "write"
                \/ pc[p] = "using_wait" /\ pc'[p] = "using"
                \/ pc[p] = "read_wait" /\ pc'[p] = "read"
             /\ old.gym_mutex > 0
             /\ shmem' = [shmem EXCEPT ![s].gym_mutex = @ - 1]
          \/ /\ pc[p] = "fill_wait" /\ pc'[p] = "read_wait" /\ old.gym_fill > 0
             /\ shmem' = [shmem EXCEPT ![s].gym_fill = @ - 1]
      BY <1>3, <1>b, WaitRows DEF s
    <2>2. \A t \in Segments \ {s} : shmem'[t] = shmem[t]
      BY <1>0, <2>1
    <2>3. \/ /\ pc[p] = "empty_wait" /\ pc'[p] = "mutex_wait" /\ new.gym_empty = old.gym_empty - 1
             /\ new.stage = old.stage /\ new.gym_mutex = old.gym_mutex /\ new.gym_fill = old.gym_fill
          \/ /\ \/ pc[p] = "mutex_wait" /\ pc'[p] = "write"
                \/ pc[p] = "using_wait" /\ pc'[p] = "using"
                \/ pc[p] = "read_wait" /\ pc'[p] = "read"
             /\ new.gym_mutex = old.gym_mutex - 1 /\ new.stage = old.stage
             /\ new.gym_empty = old.gym_empty /\ new.gym_fill = old.gym_fill
          \/ /\ pc[p] = "fill_wait" /\ pc'[p] = "read_wait" /\ old.gym_fill > 0
             /\ new.gym_fill = old.gym_fill - 1 /\ new.stage = old.stage
             /\ new.gym_mutex = old.gym_mutex /\ new.gym_empty = old.gym_empty
      BY <1>0, <2>1 DEF Segment
    <2> HIDE DEF old, new
    <2>4. \/ pc[p] \in Receiving /\ pc'[p] \in Receiving
          \/ pc[p] \in Printing /\ pc'[p] \notin Owner
      BY <2>3 DEF Receiving, Printing, Owner
    <2>5. /\ new.stage = old.stage
          /\ new.gym_fill = old.gym_fill \/ pc[p] = "fill_post" \/ old.gym_fill > 0
      BY <2>3
    <2>6. new.gym_mutex + One(pc'[p] \in MutexLabels) = old.gym_mutex + One(pc[p] \in MutexLabels)
      BY <1>a, <2>3 DEF MutexLabels, One
    <2>7. new.gym_empty + new.gym_fill + One(pc'[p] \in SlotLabels)
            = old.gym_empty + old.gym_fill + One(pc[p] \in SlotLabels)
      BY <1>a, <2>3 DEF SlotLabels, One
    <2>8. Passes(p, old, new)
      BY <2>4, <2>5, <2>6, <2>7 DEF Passes
    <2> QED BY <2>2, <2>8 DEF s, old, new
  <1>4. CASE SemPost(p)
    <2>1. \/ /\ \/ pc[p] = "mutex_post" /\ pc'[p] = "fill_post"
                \/ pc[p] = "using_post" /\ pc'[p] = "fill_wait"
                \/ pc[p] = "read_post" /\ pc'[p] = "empty_post"
             /\ shmem' = [shmem EXCEPT ![s].gym_mutex = @ + 1]
          \/ /\ pc[p] = "fill_post" /\ pc'[p] \in {"last_unlink", "receive"}
             /\ shmem' = [shmem EXCEPT ![s].gym_fill = @ + 1]
          \/ /\ pc[p] = "empty_post" /\ pc'[p] \in {"done", "fill_wait"}
             /\ shmem' = [shmem EXCEPT ![s].gym_empty = @ + 1]
      BY <1>4, <1>b, PostRows DEF s
    <2>2. \A t \in Segments \ {s} : shmem'[t] = shmem[t]
      BY <1>0, <2>1
    <2>3. \/ /\ \/ pc[p] = "mutex_post" /\ pc'[p] = "fill_post"
                \/ pc[p] = "using_post" /\ pc'[p] = "fill_wait"
                \/ pc[p] = "read_post" /\ pc'[p] = "empty_post"
             /\ new.gym_mutex = old.gym_mutex + 1 /\ new.stage = old.stage
             /\ new.gym_empty = old.gym_empty /\ new.gym_fill = old.gym_fill
          \/ /\ pc[p] = "fill_post" /\ pc'[p] \in {"last_unlink", "receive"}
             /\ new.gym_fill = old.gym_fill + 1 /\ new.stage = old.stage
             /\ new.gym_mutex = old.gym_mutex /\ new.gym_empty = old.gym_empty
          \/ /\ pc[p] = "empty_post" /\ pc'[p] \in {"done", "fill_wait"}
             /\ new.gym_empty = old.gym_empty + 1 /\ new.stage = old.stage
             /\ new.gym_mutex = old.gym_mutex /\ new.gym_fill = old.gym_fill
      BY <1>0, <2>1 DEF Segment
    <2> HIDE DEF old, new
    <2>4. \/ pc[p] \in Receiving /\ pc'[p] \in Receiving
          \/ pc[p] \in Printing /\ pc'[p] \notin Owner
      BY <2>3 DEF Receiving, Printing, Owner
    <2>5. /\ new.stage = old.stage
          /\ new.gym_fill = old.gym_fill \/ pc[p] = "fill_post" \/ old.gym_fill > 0
      BY <2>3
    <2>6. new.gym_mutex + One(pc'[p] \in MutexLabels) = old.gym_mutex + One(pc[p] \in MutexLabels)
      BY <1>a, <2>3 DEF MutexLabels, One
    <2>7. new.gym_empty + new.gym_fill + One(pc'[p] \in SlotLabels)
            = old.gym_empty + old.gym_fill + One(pc[p] \in SlotLabels)
      BY <1>a, <2>3 DEF SlotLabels, One
    <2>8. Passes(p, old, new)
      BY <2>4, <2>5, <2>6, <2>7 DEF Passes
    <2> QED BY <2>2, <2>8 DEF s, old, new
  <1> QED BY <1>1, <1>2, <1>3, <1>4 DEF SegmentStep

LEMMA SumSegmentStep ==
  ASSUME RingInv, NEW p \in Programs, SegmentStep(p)
  PROVE  OwnerInv' /\ SumInv'
  <1> DEFINE s == mapped[p]
             old == shmem[s]
             new == shmem'[s]
  <1>1. /\ s \in Segments /\ shmem \in [Segments -> Segment] /\ shmem' \in [Segments -> Segment]
        /\ UNCHANGED <<shms, mapped>>
    BY SegmentStepType, SegmentStepRest DEF RingInv, TypeInv, MemoryType
  <1>2. /\ old.stage \in 0 .. 3 /\ old.gym_mutex \in Nat /\ old.gym_empty \in Nat /\ old.gym_fill \in Nat
        /\ new.stage \in 0 .. 3 /\ new.gym_mutex \in Nat /\ new.gym_empty \in Nat /\ new.gym_fill \in Nat
    BY <1>1, SegmentTypes
  <1>3. \A q \in Programs \ {p} : pc'[q] = pc[q] /\ mapped'[q] = mapped[q]
    BY <1>1, SegmentStepPc DEF Goto, RingInv, TypeInv, PcType
  <1>4. SetsUp(p, old, new) \/ Passes(p, old, new)
    BY SegmentEffect DEF RingInv
  <1>5. \A t \in Segments \ {s} : shmem'[t] = shmem[t]
    BY SegmentEffect DEF RingInv
  <1>6. /\ old.gym_mutex + Cardinality(On(s, MutexLabels)) = One(old.stage >= 2)
        /\ old.gym_empty + old.gym_fill + Cardinality(On(s, SlotLabels))
             = BUFFER_LENGTH * One(old.stage >= 2)
        /\ old.stage < 3 => old.gym_fill = 0
    BY <1>1 DEF RingInv, SumInv
  <1>7. /\ pc[p] = "truncate" => old.stage = 0
        /\ pc[p] = "init_mutex" => old.stage = 1
        /\ pc[p] = "init_fill" => old.stage = 2
        /\ pc[p] \in Receiving => old.stage = 3
    BY DEF RingInv, OwnerInv
  <1>8. /\ Cardinality(On(s, MutexLabels)') + One(pc[p] \in MutexLabels)
             = Cardinality(On(s, MutexLabels)) + One(pc'[p] \in MutexLabels)
        /\ Cardinality(On(s, SlotLabels)') + One(pc[p] \in SlotLabels)
             = Cardinality(On(s, SlotLabels)) + One(pc'[p] \in SlotLabels)
        /\ \A t \in Segments \ {s} : /\ On(t, MutexLabels)' = On(t, MutexLabels)
                                     /\ On(t, SlotLabels)' = On(t, SlotLabels)
    <2>1. mapped'[p] = s
      BY <1>1
    <2> QED BY <1>3, <2>1, OnMoves
  <1>9. /\ Cardinality(On(s, MutexLabels)) \in Nat /\ Cardinality(On(s, MutexLabels)') \in Nat
        /\ Cardinality(On(s, SlotLabels)) \in Nat /\ Cardinality(On(s, SlotLabels)') \in Nat
    BY OnFinite
  <1> HIDE DEF s, old, new
  <1>10. /\ new.gym_mutex + Cardinality(On(s, MutexLabels)') = One(new.stage >= 2)
         /\ new.gym_empty + new.gym_fill + Cardinality(On(s, SlotLabels)')
               = BUFFER_LENGTH * One(new.stage >= 2)
         /\ new.stage < 3 => new.gym_fill = 0
    <2>1. CASE SetsUp(p, old, new)
      <3>1. pc[p] \notin MutexLabels \cup SlotLabels /\ pc'[p] \notin MutexLabels \cup SlotLabels
        BY <2>1 DEF SetsUp, MutexLabels, SlotLabels
      <3>2. /\ Cardinality(On(s, MutexLabels)') = Cardinality(On(s, MutexLabels))
            /\ Cardinality(On(s, SlotLabels)') = Cardinality(On(s, SlotLabels))
        BY <1>8, <1>9, <3>1 DEF One
      <3>3. CASE new.stage = 1
        BY <1>2, <1>6, <1>7, <1>9, <2>1, <3>2, <3>3 DEF SetsUp, One
      <3>4. CASE new.stage = 2
        <4>1. /\ old.stage = 1 /\ new.gym_mutex = 1 /\ new.gym_empty = BUFFER_LENGTH
              /\ new.gym_fill = old.gym_fill
          BY <1>7, <2>1, <3>4 DEF SetsUp
        <4>2. /\ old.gym_mutex + Cardinality(On(s, MutexLabels)) = 0
              /\ old.gym_empty + old.gym_fill + Cardinality(On(s, SlotLabels)) = 0
              /\ old.gym_fill = 0
          BY <1>6, <4>1, PipelineAssumption DEF One
        <4>3. Cardinality(On(s, MutexLabels)) = 0 /\ Cardinality(On(s, SlotLabels)) = 0
          <5>1. old.gym_mutex \in Nat /\ old.gym_empty \in Nat /\ old.gym_fill \in Nat
            BY <1>2
          <5>2. /\ \A a, b \in Nat : a + b = 0 => b = 0
                /\ \A a, b, c \in Nat : a + b + c = 0 => c = 0
            OBVIOUS
          <5> QED BY <1>9, <4>2, <5>1, <5>2
        <4>4. One(new.stage >= 2) = 1 /\ BUFFER_LENGTH \in Nat
          BY <3>4, PipelineAssumption DEF One
        <4> QED BY <3>2, <4>1, <4>2, <4>3, <4>4
      <3>5. CASE new.stage = 3
        BY <1>2, <1>6, <1>7, <1>9, <2>1, <3>2, <3>5, PipelineAssumption DEF SetsUp, One
      <3> QED BY <2>1, <3>3, <3>4, <3>5 DEF SetsUp
    <2>2. CASE Passes(p, old, new)
      <3> DEFINE w == BUFFER_LENGTH * One(old.stage >= 2)
      <3>1. w \in Int /\ One(old.stage >= 2) \in Int
        BY PipelineAssumption DEF One
      <3>2. One(new.stage >= 2) = One(old.stage >= 2)
        BY <2>2 DEF Passes
      <3>3. /\ One(pc[p] \in MutexLabels) \in Int /\ One(pc'[p] \in MutexLabels) \in Int
            /\ One(pc[p] \in SlotLabels) \in Int /\ One(pc'[p] \in SlotLabels) \in Int
        BY DEF One
      <3> HIDE DEF w
      <3>4. new.gym_mutex + Cardinality(On(s, MutexLabels)') = One(new.stage >= 2)
        BY <1>2, <1>6, <1>8, <1>9, <2>2, <3>1, <3>2, <3>3 DEF Passes
      <3>5. new.gym_empty + new.gym_fill + Cardinality(On(s, SlotLabels)') = w
        <4>1. old.gym_empty + old.gym_fill + Cardinality(On(s, SlotLabels)) = w
          BY <1>6 DEF w
        <4> QED BY <1>2, <1>8, <1>9, <2>2, <3>1, <3>3, <4>1 DEF Passes
      <3>6. new.stage < 3 => new.gym_fill = 0
        BY <1>6, <1>7, <2>2 DEF Passes, Receiving
      <3> QED BY <3>2, <3>4, <3>5, <3>6 DEF w
    <2> QED BY <1>4, <2>1, <2>2
  <1>11. SumInv'
    <2> SUFFICES ASSUME NEW t \in Segments
                 PROVE  /\ shmem'[t].gym_mutex + Cardinality(On(t, MutexLabels)')
                              = One(shmem'[t].stage >= 2)
                        /\ shmem'[t].gym_empty + shmem'[t].gym_fill + Cardinality(On(t, SlotLabels)')
                              = BUFFER_LENGTH * One(shmem'[t].stage >= 2)
                        /\ shmem'[t].stage < 3 => shmem'[t].gym_fill = 0
      BY DEF SumInv
    <2>1. CASE t = s
      <3>1. On(t, MutexLabels)' = On(s, MutexLabels)' /\ On(t, SlotLabels)' = On(s, SlotLabels)'
        BY <1>1, <2>1 DEF On, s
      <3> QED BY <1>10, <2>1, <3>1 DEF new
    <2>2. CASE t # s
      BY <1>5, <1>8, <2>2 DEF RingInv, SumInv
    <2> QED BY <2>1, <2>2
  <1>12. OwnerInv'
    <2>1. pc'[p] \in Owner => pc[p] \in Owner
      BY <1>4 DEF SetsUp, Passes, Owner
    <2>2. /\ pc'[p] = "truncate" => new.stage = 0
          /\ pc'[p] = "init_mutex" => new.stage = 1
          /\ pc'[p] = "init_fill" => new.stage = 2
          /\ pc'[p] \in Receiving \cup {"open_queue", "unlink_queue"} => new.stage = 3
      BY <1>4, <1>7 DEF SetsUp, Passes, Owner, Receiving
    <2>4. ASSUME NEW q \in Programs \ {p}, pc[q] \in Owner
          PROVE  mapped[q] # s \/ shmem'[mapped[q]].stage = shmem[mapped[q]].stage
      <3>1. CASE pc[p] \in Owner
        BY <2>4, <3>1 DEF RingInv, OwnerInv, s
      <3>2. CASE pc[p] \notin Owner
        BY <1>4, <3>2 DEF SetsUp, Passes, Owner, s, old, new
      <3> QED BY <3>1, <3>2
    <2>5. ASSUME NEW q \in Programs \ {p}, pc[q] \in Owner
          PROVE  shmem'[mapped[q]].stage = shmem[mapped[q]].stage
      <3>1. mapped[q] \in Segments
        BY <2>5, PipelineAssumption DEF RingInv, TypeInv, MemoryType, NameType, Segments, Unmapped,
              Owner, Receiving
      <3> QED BY <1>5, <2>4, <2>5, <3>1
    <2>6. \A q \in Programs :
            /\ pc'[q] = "truncate" => shmem'[mapped'[q]].stage = 0
            /\ pc'[q] = "init_mutex" => shmem'[mapped'[q]].stage = 1
            /\ pc'[q] = "init_fill" => shmem'[mapped'[q]].stage = 2
            /\ pc'[q] \in Receiving \cup {"open_queue", "unlink_queue"} => shmem'[mapped'[q]].stage = 3
      <3> TAKE q \in Programs
      <3>1. CASE q = p
        BY <1>1, <2>2, <3>1 DEF s, new
      <3>2. CASE q # p
        BY <1>1, <1>3, <2>5, <3>2 DEF RingInv, OwnerInv, Owner
      <3> QED BY <3>1, <3>2
    <2>7. \A t \in Segments : t > shms' => shmem'[t].stage = 0
      <3> TAKE t \in Segments
      <3>1. s <= shms
        BY <1>1 DEF RingInv, TypeInv, MemoryType, NameType, s
      <3> QED BY <1>1, <1>5, <3>1, PipelineAssumption DEF RingInv, OwnerInv, Segments, TypeInv, NameType
    <2>8. \A q, r \in Programs :
            pc'[q] \in Owner /\ pc'[r] \in Owner /\ mapped'[q] = mapped'[r] => q = r
      BY <1>1, <1>3, <2>1 DEF RingInv, OwnerInv
    <2> QED BY <2>6, <2>7, <2>8 DEF OwnerInv
  <1> QED BY <1>11, <1>12

(* The other steps of a program: it stays away from the semaphores.         *)
OtherStep(p) ==
  \/ LaunchProgram(p) \/ Create(p) \/ OpenForReceiving(p) \/ Receive(p) \/ LastUnlink(p)
  \/ WaitTooEarly(p)

(* What it does to the segments: nothing, except that it may create one.    *)
LEMMA OtherEffect ==
  ASSUME TypeInv, NEW p \in Programs, OtherStep(p)
  PROVE  /\ UNCHANGED shmem
         /\ \A q \in Programs \ {p} : pc'[q] = pc[q] /\ mapped'[q] = mapped[q]
         /\ \A m \in Miners : pc'[m] = pc[m]
         /\ \/ /\ pc[p] = "idle" /\ pc'[p] \in {"create", "using_wait"}
               /\ UNCHANGED <<shms, shm_name>>
            \/ /\ pc[p] = "create" /\ pc'[p] = "truncate" /\ shms' = shms + 1
               /\ mapped'[p] = shms + 1 /\ shm_name' = shms + 1
            \/ /\ \/ pc[p] = "create" /\ pc'[p] = "lost_race"
                  \/ pc[p] = "open_queue" /\ pc'[p] = "unlink_queue"
                  \/ pc[p] = "unlink_queue" /\ pc'[p] = "receive"
                  \/ pc[p] = "receive" /\ pc'[p] = "empty_wait"
                  \/ pc[p] \in {"using_wait", "fill_wait"} /\ pc'[p] \in {"sigbus", "asleep"}
               /\ UNCHANGED <<shms, shm_name, mapped>>
            \/ /\ pc[p] = "last_unlink" /\ pc'[p] = "done" /\ shm_name' = 0
               /\ UNCHANGED <<shms, mapped>>
         /\ \/ UNCHANGED mq_name /\ pc[p] # "unlink_queue"
            \/ mq_name' = 0
            \/ pc'[p] = "unlink_queue"
  <1>0. pc \in [Programs \cup Miners -> MinerLabels \cup ProgramLabels] /\ Programs \cap Miners = {}
    BY PipelineAssumption DEF TypeInv, PcType
  <1>1. ASSUME NEW from, NEW to, Goto(p, from, to)
        PROVE  /\ pc[p] = from /\ pc'[p] = to
               /\ \A q \in Programs \ {p} : pc'[q] = pc[q]
               /\ \A m \in Miners : pc'[m] = pc[m]
    BY <1>0, <1>1 DEF Goto, Runs
  <1>2. mapped \in [Programs -> 0 .. shms]
    BY DEF TypeInv, MemoryType
  <1> USE DEF names, memory, messages, miner
  <1>3. CASE LaunchProgram(p)
    BY <1>1, <1>2, <1>3 DEF LaunchProgram
  <1>4. CASE Create(p)
    BY <1>1, <1>2, <1>4 DEF Create, LosesRace
  <1>5. CASE OpenForReceiving(p)
    BY <1>1, <1>5 DEF OpenForReceiving
  <1>6. CASE Receive(p)
    BY <1>1, <1>6 DEF Receive
  <1>7. CASE LastUnlink(p)
    BY <1>1, <1>7 DEF LastUnlink, UnlinksAgain
  <1>8. CASE WaitTooEarly(p)
    BY <1>1, <1>8 DEF WaitTooEarly
  <1> QED BY <1>3, <1>4, <1>5, <1>6, <1>7, <1>8 DEF OtherStep

LEMMA SumOtherStep ==
  ASSUME RingInv, NEW p \in Programs, OtherStep(p)
  PROVE  OwnerInv' /\ SumInv'
  <1>1. /\ UNCHANGED shmem
        /\ \A q \in Programs \ {p} : pc'[q] = pc[q] /\ mapped'[q] = mapped[q]
        /\ \/ /\ pc[p] \notin Owner /\ pc'[p] \notin Owner /\ UNCHANGED shms
           \/ /\ pc[p] = "create" /\ pc'[p] = "truncate" /\ shms' = shms + 1
              /\ mapped'[p] = shms + 1
           \/ /\ \/ pc[p] \in {"open_queue", "unlink_queue", "receive"}
                    /\ pc'[p] \in {"unlink_queue", "receive", "empty_wait"}
                 \/ pc[p] = "last_unlink" /\ pc'[p] = "done"
              /\ UNCHANGED <<shms, mapped>>
    BY OtherEffect DEF RingInv, Owner, Receiving
  <1>2. pc[p] \notin MutexLabels \cup SlotLabels /\ pc'[p] \notin MutexLabels \cup SlotLabels
    BY OtherEffect DEF RingInv, MutexLabels, SlotLabels
  <1>3. \A s : On(s, MutexLabels)' = On(s, MutexLabels) /\ On(s, SlotLabels)' = On(s, SlotLabels)
    BY <1>1, <1>2, OnMoves
  <1>4. SumInv'
    BY <1>1, <1>3 DEF RingInv, SumInv
  <1>5. /\ shms \in Nat /\ \A q \in Programs : mapped[q] \in 0 .. shms
        /\ \A s \in Segments : s > shms => shmem[s].stage = 0
        /\ shms' \in 0 .. MaxSegments
    BY TypeOtherStep, PipelineAssumption DEF OtherStep, RingInv, TypeInv, MemoryType, NameType, OwnerInv
  <1>6. OwnerInv'
    <2>1. CASE pc[p] = "create" /\ pc'[p] = "truncate" /\ shms' = shms + 1 /\ mapped'[p] = shms + 1
      <3>1. shmem'[mapped'[p]].stage = 0
        BY <1>1, <1>5, <2>1, PipelineAssumption DEF Segments
      <3>2. \A q \in Programs \ {p} : mapped'[q] # mapped'[p]
        BY <1>1, <1>5, <2>1
      <3>3. \A q, r \in Programs :
              pc'[q] \in Owner /\ pc'[r] \in Owner /\ mapped'[q] = mapped'[r] => q = r
        BY <1>1, <3>2 DEF RingInv, OwnerInv
      <3>4. \A s \in Segments : s > shms' => shmem'[s].stage = 0
        BY <1>1, <1>5, <2>1, PipelineAssumption DEF Segments
      <3>5. ASSUME NEW q \in Programs
            PROVE  /\ pc'[q] = "truncate" => shmem'[mapped'[q]].stage = 0
                   /\ pc'[q] = "init_mutex" => shmem'[mapped'[q]].stage = 1
                   /\ pc'[q] = "init_fill" => shmem'[mapped'[q]].stage = 2
                   /\ pc'[q] \in Receiving \cup {"open_queue", "unlink_queue"}
                        => shmem'[mapped'[q]].stage = 3
        BY <1>1, <2>1, <3>1 DEF RingInv, OwnerInv, Receiving
      <3> QED BY <3>3, <3>4, <3>5 DEF OwnerInv
    <2>2. CASE pc[p] \notin Owner /\ pc'[p] \notin Owner /\ UNCHANGED shms
      BY <1>1, <2>2 DEF RingInv, OwnerInv, Owner
    <2>3. CASE /\ pc[p] \in {"open_queue", "unlink_queue", "receive"}
               /\ pc'[p] \in {"unlink_queue", "receive", "empty_wait"}
               /\ UNCHANGED <<shms, mapped>>
      <3>1. pc[p] \in Owner
        BY <2>3 DEF Owner, Receiving
      <3>2. \A q \in Programs : pc'[q] \in Owner => pc[q] \in Owner
        BY <1>1, <3>1
      <3>3. shmem[mapped[p]].stage = 3
        BY <2>3 DEF RingInv, OwnerInv, Receiving
      <3> QED BY <1>1, <2>3, <3>2, <3>3 DEF RingInv, OwnerInv
    <2>4. CASE pc[p] = "last_unlink" /\ pc'[p] = "done" /\ UNCHANGED <<shms, mapped>>
      <3>1. pc'[p] \notin Owner
        BY <2>4 DEF Owner, Receiving
      <3> QED BY <1>1, <2>4, <3>1 DEF RingInv, OwnerInv, Owner
    <2> QED BY <1>1, <2>1, <2>2, <2>3, <2>4
  <1> QED BY <1>4, <1>6

(* A step after which every program stands where it stood.                  *)
LEMMA SumStands ==
  ASSUME RingInv, UNCHANGED <<shmem, shms, mapped>>, \A q \in Programs : pc'[q] = pc[q]
  PROVE  OwnerInv' /\ SumInv'
  <1>1. \A s : On(s, MutexLabels)' = On(s, MutexLabels) /\ On(s, SlotLabels)' = On(s, SlotLabels)
    BY DEF On
  <1> QED BY <1>1 DEF RingInv, OwnerInv, SumInv

LEMMA MinerEffect ==
  ASSUME TypeInv, NEW m \in Miners, LaunchMiner(m) \/ Miner(m)
  PROVE  /\ UNCHANGED <<shmem, shms, mapped, shm_name>>
         /\ \A q \in Programs : pc'[q] = pc[q]
         /\ \A n \in Miners \ {m} : pc'[n] = pc[n]
         /\ pc'[m] = "loop" \/ mq_name' = 0
  <1>1. /\ pc \in [Programs \cup Miners -> MinerLabels \cup ProgramLabels] /\ m \notin Programs
        /\ UNCHANGED <<shmem, shms, mapped, shm_name>>
    BY PipelineAssumption DEF TypeInv, PcType, LaunchMiner, Miner, Send, MinerEnds, names, memory
  <1>2. /\ \E from, to : Goto(m, from, to)
        /\ Goto(m, "idle", "loop") \/ Goto(m, "loop", "loop") \/ mq_name' = 0
    BY DEF LaunchMiner, Miner, Send, MinerEnds
  <1> QED BY <1>1, <1>2 DEF Goto, Runs

LEMMA RingNext == RingInv /\ [Next]_vars => RingInv'
  <1> SUFFICES ASSUME RingInv, [Next]_vars PROVE RingInv'
    OBVIOUS
  <1>1. TypeInv'
    BY TypeNext DEF RingInv
  <1>2. ASSUME NEW p \in Programs, LaunchProgram(p) \/ Program(p)
        PROVE  OwnerInv' /\ SumInv'
    <2>1. SegmentStep(p) \/ OtherStep(p)
      BY <1>2 DEF Program, SegmentStep, OtherStep
    <2> QED BY <2>1, SumSegmentStep, SumOtherStep
  <1>3. ASSUME NEW m \in Miners, LaunchMiner(m) \/ Miner(m)
        PROVE  OwnerInv' /\ SumInv'
    BY <1>3, MinerEffect, SumStands DEF RingInv
  <1>4. ASSUME NEW p \in Mortal, Killed(p)
        PROVE  OwnerInv' /\ SumInv'
    BY <1>4, SumStands DEF Killed, memory
  <1>5. ASSUME UNCHANGED vars
        PROVE  OwnerInv' /\ SumInv'
    <2>1. UNCHANGED <<shmem, shms, mapped, pc>>
      BY <1>5 DEF vars, memory
    <2> QED BY <2>1, SumStands
  <1> QED BY <1>1, <1>2, <1>3, <1>4, <1>5 DEF Next, RingInv

LEMMA RingSafe == Spec => []RingInv
  <1>1. Init => RingInv
    BY TypeInit, SumInit DEF RingInv
  <1> QED BY <1>1, RingNext, PTL DEF Spec

(* In every segment that is fully set up gym_mutex is free or held by one   *)
(* process, and each of the BUFFER_LENGTH slots is free, filled or in the   *)
(* hands of one process: the comprobador between sem_wait(gym_empty) and    *)
(* sem_post(gym_fill), or a monitor between sem_wait(gym_fill) and          *)
(* sem_post(gym_empty) (monitor.c, both loops and both endings), for any    *)
(* number of monitors and also when any of them is killed.                  *)
THEOREM SlotsAddUp == Spec => []SlotsAccounted
  <1>1. RingInv => SlotsAccounted
    <2> SUFFICES ASSUME RingInv, NEW s \in Segments, shmem[s].stage = 3
                 PROVE  /\ shmem[s].gym_mutex + Cardinality(HoldingMutex(s)) = 1
                        /\ shmem[s].gym_empty + shmem[s].gym_fill + Cardinality(HoldingSlot(s))
                              = BUFFER_LENGTH
      BY DEF SlotsAccounted
    <2>1. /\ shmem[s].gym_mutex + Cardinality(On(s, MutexLabels)) = One(shmem[s].stage >= 2)
          /\ shmem[s].gym_empty + shmem[s].gym_fill + Cardinality(On(s, SlotLabels))
                = BUFFER_LENGTH * One(shmem[s].stage >= 2)
      BY DEF RingInv, SumInv
    <2>2. One(shmem[s].stage >= 2) = 1 /\ BUFFER_LENGTH * 1 = BUFFER_LENGTH
      BY PipelineAssumption DEF One
    <2> QED BY <2>1, <2>2, Holders
  <1> QED BY <1>1, RingSafe, PTL

(* The variables keep their types; the semaphores never leave the range     *)
(* between zero and what sem_init gave them, so no sem_post of monitor.c is *)
(* one too many.                                                            *)
THEOREM TypesHold == Spec => []TypeOK
  <1>1. ASSUME RingInv, NEW s \in Segments
        PROVE  /\ [f \in DOMAIN shmem[s] \ {"slots"} |-> shmem[s][f]] \in Counters
               /\ \A k \in 0 .. BUFFER_LENGTH - 1 : shmem[s].slots[k] \in Blocks \cup {Mark, Zeros}
    <2> DEFINE old == shmem[s]
    <2>1. old \in Segment
      BY <1>1 DEF RingInv, TypeInv, MemoryType
    <2>2. /\ old.stage \in 0 .. 3 /\ old.using \in Int /\ old.reading \in Nat /\ old.writing \in Nat
          /\ old.gym_mutex \in Nat /\ old.gym_empty \in Nat /\ old.gym_fill \in Nat
          /\ old.slots \in [0 .. BUFFER_LENGTH - 1 -> Copies]
      BY <2>1, SegmentTypes
    <2>3. /\ old.gym_mutex + Cardinality(On(s, MutexLabels)) = One(old.stage >= 2)
          /\ old.gym_empty + old.gym_fill + Cardinality(On(s, SlotLabels))
                = BUFFER_LENGTH * One(old.stage >= 2)
      BY <1>1 DEF RingInv, SumInv
    <2>4. /\ One(old.stage >= 2) \in {0, 1} /\ BUFFER_LENGTH \in Nat
          /\ BUFFER_LENGTH * One(old.stage >= 2) \in {0, BUFFER_LENGTH}
      BY PipelineAssumption DEF One
    <2>5. Cardinality(On(s, MutexLabels)) \in Nat /\ Cardinality(On(s, SlotLabels)) \in Nat
      BY OnFinite
    <2> HIDE DEF old
    <2>6. /\ old.gym_mutex \in 0 .. 1 /\ old.gym_empty \in 0 .. BUFFER_LENGTH
          /\ old.gym_fill \in 0 .. BUFFER_LENGTH
      <3>1. PICK w : w = BUFFER_LENGTH * One(old.stage >= 2) /\ w \in Nat /\ w <= BUFFER_LENGTH
        BY <2>4
      <3>2. PICK a \in Nat : a = Cardinality(On(s, SlotLabels))
        BY <2>5
      <3>3. old.gym_empty + old.gym_fill + a = w
        BY <2>3, <3>1, <3>2
      <3>4. old.gym_empty \in 0 .. BUFFER_LENGTH /\ old.gym_fill \in 0 .. BUFFER_LENGTH
        BY <2>2, <2>4, <3>1, <3>3
      <3>5. old.gym_mutex \in 0 .. 1
        <4>1. PICK v, c \in Nat : /\ v = One(old.stage >= 2) /\ v \in {0, 1}
                                  /\ c = Cardinality(On(s, MutexLabels))
          BY <2>4, <2>5
        <4>2. old.gym_mutex + c = v
          BY <2>3, <4>1
        <4> QED BY <2>2, <4>1, <4>2
      <3> QED BY <3>4, <3>5
    <2>7. DOMAIN old = {"stage", "slots", "using", "reading", "writing", "gym_mutex", "gym_empty",
                        "gym_fill"}
      BY <2>1 DEF Segment
    <2>8. [f \in DOMAIN old \ {"slots"} |-> old[f]]
            = [stage |-> old.stage, using |-> old.using, reading |-> old.reading,
               writing |-> old.writing, gym_mutex |-> old.gym_mutex,
               gym_empty |-> old.gym_empty, gym_fill |-> old.gym_fill]
      BY <2>7
    <2>9. [f \in DOMAIN old \ {"slots"} |-> old[f]] \in Counters
      BY <2>2, <2>6, <2>8 DEF Counters
    <2> QED BY <2>2, <2>9 DEF old, Copies
  <1>2. ASSUME RingInv
        PROVE  TypeOK
    <2>1. \A m \in Miners : i[m] \in 0 .. rounds[m]
      <3> SUFFICES ASSUME NEW m \in Miners PROVE i[m] \in 0 .. rounds[m]
        OBVIOUS
      <3>1. i[m] \in Nat /\ rounds[m] \in Rounds \cup {0} /\ i[m] <= rounds[m]
        BY <1>2 DEF RingInv, TypeInv, RoundType
      <3>2. rounds[m] \in Rounds => rounds[m] \in Nat
        BY PipelineAssumption
      <3>3. rounds[m] = 0 => rounds[m] \in Nat
        OBVIOUS
      <3> QED BY <3>1, <3>2, <3>3
    <2> QED BY <1>1, <1>2, <2>1
        DEF RingInv, TypeInv, PcType, NameType, MemoryType, QueueType, RoundType, TypeOK
  <1> QED BY <1>2, RingSafe, PTL

-----------------------------------------------------------------------------
(* The names.                                                               *)

(* Who is bound to remove them: the owner of the segment shm_name refers    *)
(* to, and a miner at work or a comprobador about to unlink the queue.      *)
SegmentNamed == shm_name # 0 => \E p \in Programs : mapped[p] = shm_name /\ pc[p] \in Owner

QueueNamed ==
  mq_name # 0 => \/ \E m \in Miners : pc[m] = "loop"
                 \/ \E p \in Programs : pc[p] = "unlink_queue"

NameInv == SegmentNamed /\ QueueNamed

LEMMA NameNext == TypeInv /\ NameInv /\ [Next]_vars => NameInv'
  <1> SUFFICES ASSUME TypeInv, NameInv, [Next]_vars PROVE NameInv'
    OBVIOUS
  <1>1. ASSUME NEW m \in Miners, LaunchMiner(m) \/ Miner(m)
        PROVE  NameInv'
    <2>1. /\ UNCHANGED <<mapped, shm_name>> /\ \A q \in Programs : pc'[q] = pc[q]
          /\ pc'[m] = "loop" \/ mq_name' = 0
      BY <1>1, MinerEffect
    <2> QED BY <2>1 DEF NameInv, SegmentNamed, QueueNamed
  <1>2. ASSUME NEW p \in Programs, OtherStep(p)
        PROVE  NameInv'
    <2>1. /\ \A q \in Programs \ {p} : pc'[q] = pc[q] /\ mapped'[q] = mapped[q]
          /\ \A m \in Miners : pc'[m] = pc[m]
          /\ \/ pc[p] \notin Owner /\ UNCHANGED shm_name
             \/ mapped'[p] = shm_name' /\ pc'[p] \in Owner
             \/ pc'[p] \in Owner /\ UNCHANGED <<shm_name, mapped>>
             \/ shm_name' = 0
          /\ \/ UNCHANGED mq_name /\ pc[p] # "unlink_queue"
             \/ mq_name' = 0
             \/ pc'[p] = "unlink_queue"
      BY <1>2, OtherEffect DEF Owner, Receiving
    <2>2. SegmentNamed'
      BY <2>1 DEF NameInv, SegmentNamed
    <2>3. QueueNamed'
      BY <2>1 DEF NameInv, QueueNamed
    <2> QED BY <2>2, <2>3 DEF NameInv
  <1>3. ASSUME NEW p \in Programs, SegmentStep(p)
        PROVE  NameInv'
    <2>1. PICK to \in Owner \cup Printing \cup {"done"} : Goto(p, pc[p], to)
      BY <1>3, SegmentStepPc
    <2>2. /\ pc'[p] = to /\ \A q \in Programs \ {p} : pc'[q] = pc[q]
          /\ \A m \in Miners : pc'[m] = pc[m]
      BY <2>1, PipelineAssumption DEF Goto, TypeInv, PcType
    <2>3. UNCHANGED <<mapped, mq_name>> /\ shm_name' \in {shm_name, 0}
      BY <1>3, SegmentStepRest DEF messages
    <2>4. pc[p] # "unlink_queue" /\ (pc[p] \in Owner => pc'[p] \in Owner)
      BY <1>3, SegmentEffect DEF SetsUp, Passes, Owner, Receiving, Printing
    <2>5. SegmentNamed'
      BY <2>2, <2>3, <2>4 DEF NameInv, SegmentNamed
    <2>6. QueueNamed'
      BY <2>2, <2>3, <2>4 DEF NameInv, QueueNamed
    <2> QED BY <2>5, <2>6 DEF NameInv
  <1>4. ASSUME NEW p \in Mortal, Killed(p)
        PROVE  NameInv'
    BY <1>4 DEF Killed, names, memory, NameInv, SegmentNamed, QueueNamed
  <1>5. CASE UNCHANGED vars
    BY <1>5 DEF vars, names, memory, NameInv, SegmentNamed, QueueNamed
  <1> QED BY <1>1, <1>2, <1>3, <1>4, <1>5 DEF Next, Program, SegmentStep, OtherStep

(* When every program and miner has come to its regular end neither SHM_NAME *)
(* nor MQ_NAME is left behind: the comprobador unlinks the segment itself,  *)
(* "just in case", whoever was last to use it, and a queue it never opened  *)
(* is unlinked by its miners (P3/Codificacion/monitor.c and miner.c).       *)
THEOREM NamesAreRemoved == Spec => []NoLeftover
  <1>1. Init => NameInv
    BY DEF Init, NameInv, SegmentNamed, QueueNamed
  <1>2. NameInv => NoLeftover
    <2> SUFFICES ASSUME NameInv, \A p \in Programs \cup Miners : pc[p] \in {"idle", "lost_race", "done"}
                 PROVE  shm_name = 0 /\ mq_name = 0
      BY DEF NoLeftover
    <2> QED BY DEF NameInv, SegmentNamed, QueueNamed, Owner, Receiving
  <1>3. RingInv => TypeInv
    BY DEF RingInv
  <1> QED BY <1>1, <1>2, <1>3, NameNext, RingSafe, PTL DEF Spec
=============================================================================
