----------------------------- MODULE RingProofs -----------------------------
(***************************************************************************)
(* Machine-checked proofs about MonitorRing, for any miners, any sizes of   *)
(* the ring and the queue, any votes and any values of the bounds.          *)
(*                                                                          *)
(* The semaphores are counted as long as no wait was interrupted: then a    *)
(* slot is free, filled or in somebody's hands, and the mutex keeps one of  *)
(* the two processes out. On top of that stands the order of the blocks:    *)
(* where each accepted block is, in the queue, in a local variable, in a    *)
(* slot or on the screen, follows from how many blocks are in front of it.  *)
(***************************************************************************)
EXTENDS MonitorRing, FiniteSetTheorems, TLAPS

-----------------------------------------------------------------------------
(* Types.                                                                   *)

Starting == {"create", "truncate", "zero", "init_mutex", "init_empty", "init_fill"}

ComprobadorLabels == Starting \cup
  { "open_queue", "find_system", "loop", "receive", "empty_wait", "mutex_wait", "write",
    "mutex_post", "fill_post", "lower", "wait_child", "done", "exited" }

MonitorLabels ==
  { "open", "using_wait", "using", "using_post", "loop", "fill_wait", "mutex_wait", "read",
    "mutex_post", "empty_post", "print", "leave", "done", "killed", "asleep_mutex",
    "asleep_fill" }

WinnerLabels == {"idle", "check", "open_queue", "send"}

Labels == ComprobadorLabels \cup MonitorLabels \cup WinnerLabels

PcType ==
  /\ pc \in [Winners \cup Procs -> Labels]
  /\ pc["comprobador"] \in ComprobadorLabels /\ pc["monitor"] \in MonitorLabels
  /\ \A w \in Winners : pc[w] \in WinnerLabels

(* The winners' side: who sends has a block and knows a descriptor; and the *)
(* comprobador has its queue once it is past mq_open.                       *)
WinnerInv ==
  /\ won \in 0 .. MaxBlocks /\ current \in [Winners -> 0 .. MaxBlocks]
  /\ mq \in [Winners -> {-2, -1} \cup 1 .. MaxQueues]
  /\ \A w \in Winners : /\ pc[w] # "idle" => current[w] # 0
                        /\ pc[w] = "send" => mq[w] # -2

QueueInv ==
  /\ queues \in [1 .. MaxQueues -> Seq(1 .. MaxBlocks)]
  /\ \A q \in 1 .. MaxQueues : Len(queues[q]) <= MAX_MSG
  /\ name \in 0 .. MaxQueues /\ inbox \in 0 .. MaxQueues
  /\ inbox = 0 => pc["comprobador"] \in Starting \cup {"open_queue"}
  /\ msg \in 0 .. MaxBlocks /\ sent \in Seq(1 .. MaxBlocks)

RingInv ==
  /\ segment \in {"absent", "empty", "sized", "ready", "gone"}
  /\ blocks \in [Indices -> 0 .. MaxBlocks]
  /\ using \in 0 .. 255 /\ reading \in 0 .. Wrap - 1 /\ writing \in 0 .. Wrap - 1
  /\ gym_mutex \in Nat /\ gym_empty \in Nat /\ gym_fill \in Nat
  /\ read_block \in 0 .. MaxBlocks

ScreenInv ==
  /\ printed \in Seq(0 .. MaxBlocks) /\ verdicts \in Seq(BOOLEAN)
  /\ Len(verdicts) = Len(printed) /\ AcceptedShownAccepted

SignalInv ==
  /\ system_shm \in BOOLEAN /\ monitor_up \in {0, 1}
  /\ shutdown \in [Procs -> BOOLEAN] /\ sigint \in [Procs -> BOOLEAN]
  /\ interrupted \in BOOLEAN

TypeInv == PcType /\ WinnerInv /\ QueueInv /\ RingInv /\ ScreenInv /\ SignalInv

(* A Goto moves one pc; the miners are none of the two processes.           *)
LEMMA GotoMoves ==
  ASSUME PcType, NEW p \in Winners \cup Procs, NEW from, NEW to \in Labels, Goto(p, from, to)
  PROVE  /\ pc' \in [Winners \cup Procs -> Labels]
         /\ pc[p] = from /\ pc'[p] = to
         /\ \A q \in (Winners \cup Procs) \ {p} : pc'[q] = pc[q]
  BY DEF Goto, PcType

LEMMA WinnerMoves ==
  ASSUME PcType, NEW w \in Winners, NEW from, NEW to \in WinnerLabels, Goto(w, from, to)
  PROVE  /\ PcType' /\ pc'[w] = to
         /\ pc'["comprobador"] = pc["comprobador"] /\ pc'["monitor"] = pc["monitor"]
         /\ \A v \in Winners \ {w} : pc'[v] = pc[v]
  <1>1. w \notin Procs /\ "comprobador" \in Procs /\ "monitor" \in Procs
    BY RingAssumption DEF Procs
  <1>2. /\ pc' \in [Winners \cup Procs -> Labels] /\ pc'[w] = to
        /\ \A q \in (Winners \cup Procs) \ {w} : pc'[q] = pc[q]
    BY GotoMoves DEF Labels
  <1> QED BY <1>1, <1>2 DEF PcType

LEMMA ComprobadorMoves ==
  ASSUME PcType, NEW from, NEW to \in ComprobadorLabels, Goto("comprobador", from, to)
  PROVE  /\ PcType' /\ pc'["comprobador"] = to /\ pc'["monitor"] = pc["monitor"]
         /\ \A w \in Winners : pc'[w] = pc[w]
  <1>1. "comprobador" \in Procs \ Winners /\ "monitor" \in Procs
    BY RingAssumption DEF Procs
  <1>2. /\ pc' \in [Winners \cup Procs -> Labels] /\ pc'["comprobador"] = to
        /\ \A q \in (Winners \cup Procs) \ {"comprobador"} : pc'[q] = pc[q]
    BY <1>1, GotoMoves DEF Labels
  <1> QED BY <1>1, <1>2 DEF PcType

LEMMA MonitorMoves ==
  ASSUME PcType, NEW from, NEW to \in MonitorLabels, Goto("monitor", from, to)
  PROVE  /\ PcType' /\ pc'["monitor"] = to /\ pc'["comprobador"] = pc["comprobador"]
         /\ \A w \in Winners : pc'[w] = pc[w]
  <1>1. "monitor" \in Procs \ Winners /\ "comprobador" \in Procs
    BY RingAssumption DEF Procs
  <1>2. /\ pc' \in [Winners \cup Procs -> Labels] /\ pc'["monitor"] = to
        /\ \A q \in (Winners \cup Procs) \ {"monitor"} : pc'[q] = pc[q]
    BY <1>1, GotoMoves DEF Labels
  <1> QED BY <1>1, <1>2 DEF PcType

LEMMA TypeInit == Init => TypeInv
  <1> SUFFICES ASSUME Init PROVE TypeInv
    OBVIOUS
  <1>1. PcType
    BY RingAssumption DEF Init, PcType, Labels, ComprobadorLabels, MonitorLabels, WinnerLabels,
                          Starting, Procs
  <1>2. WinnerInv
    BY RingAssumption DEF Init, WinnerInv, Procs
  <1>3. QueueInv
    <2>1. queues = [q \in 1 .. MaxQueues |-> <<>>] /\ msg = 0 /\ sent = <<>>
      BY DEF Init
    <2>2. /\ queues \in [1 .. MaxQueues -> Seq(1 .. MaxBlocks)]
          /\ \A q \in 1 .. MaxQueues : Len(queues[q]) <= MAX_MSG
      BY <2>1, RingAssumption
    <2>3. /\ name \in 0 .. MaxQueues /\ inbox \in 0 .. MaxQueues
          /\ inbox = 0 => pc["comprobador"] \in Starting
      BY RingAssumption DEF Init, Starting, Procs
    <2> QED BY <2>1, <2>2, <2>3, RingAssumption DEF QueueInv
  <1>4. RingInv
    BY RingAssumption DEF Init, RingInv, Indices
  <1>5. ScreenInv
    BY DEF Init, ScreenInv, AcceptedShownAccepted
  <1>6. SignalInv
    BY DEF Init, SignalInv
  <1> QED BY <1>1, <1>2, <1>3, <1>4, <1>5, <1>6 DEF TypeInv

(* A queue is replaced by one that is not too long.                         *)
LEMMA QueueChanges ==
  ASSUME QueueInv, NEW q \in 1 .. MaxQueues, NEW s \in Seq(1 .. MaxBlocks), Len(s) <= MAX_MSG,
         queues' = [queues EXCEPT ![q] = s]
  PROVE  /\ queues' \in [1 .. MaxQueues -> Seq(1 .. MaxBlocks)]
         /\ \A r \in 1 .. MaxQueues : Len(queues'[r]) <= MAX_MSG
  <1> DEFINE Queues == 1 .. MaxQueues
             Contents == Seq(1 .. MaxBlocks)
  <1>1. queues \in [Queues -> Contents] /\ \A r \in Queues : Len(queues[r]) <= MAX_MSG
    BY DEF QueueInv
  <1>2. q \in Queues /\ s \in Contents
    OBVIOUS
  <1> SUFFICES queues' \in [Queues -> Contents] /\ \A r \in Queues : Len(queues'[r]) <= MAX_MSG
    OBVIOUS
  <1> HIDE DEF Queues, Contents
  <1> QED BY <1>1, <1>2

(* A step of a miner.                                                       *)
LEMMA TypeWinner ==
  ASSUME TypeInv, NEW w \in Winners, Win(w) \/ Winner(w)
  PROVE  TypeInv'
  <1> USE RingAssumption DEF ring, sems, queue, flag, locals, signal, seen, TypeInv
  <1>1. RingInv' /\ ScreenInv' /\ SignalInv'
    <2>1. UNCHANGED <<ring, sems, read_block, printed, verdicts, flag, shutdown, sigint,
                      interrupted>>
      BY DEF Win, Winner, CheckMonitor, OpenForSending, Send, SendFails
    <2> QED BY <2>1 DEF RingInv, ScreenInv, SignalInv, AcceptedShownAccepted
  <1>2. CASE Win(w)
    <2>1. PcType' /\ pc'["comprobador"] = pc["comprobador"]
            /\ \A v \in Winners \ {w} : pc'[v] = pc[v]
      BY <1>2, WinnerMoves DEF Win, WinnerLabels
    <2>2. current' = [current EXCEPT ![w] = won + 1] /\ won' = won + 1 /\ won + 1 \in 1 .. MaxBlocks
      BY <1>2 DEF Win, WinnerInv
    <2>3. current' \in [Winners -> 0 .. MaxBlocks] /\ current'[w] # 0
            /\ \A v \in Winners \ {w} : current'[v] = current[v]
      BY <2>2 DEF WinnerInv
    <2>4. WinnerInv'
      <3>1. mq' = mq /\ pc'[w] = "check"
        BY <1>2, WinnerMoves DEF Win, WinnerLabels
      <3> QED BY <2>1, <2>2, <2>3, <3>1 DEF WinnerInv
    <2>5. QueueInv'
      BY <1>2, <2>1 DEF Win, QueueInv
    <2> QED BY <1>1, <2>1, <2>4, <2>5
  <1>3. CASE CheckMonitor(w)
    <2>1. PICK to \in {"open_queue", "send", "idle"} :
            Goto(w, "check", to) /\ (to = "send" => mq[w] # -2 /\ UNCHANGED mq)
      BY <1>3 DEF CheckMonitor
    <2>2. PcType' /\ pc[w] = "check" /\ pc'[w] = to /\ pc'["comprobador"] = pc["comprobador"]
            /\ \A v \in Winners \ {w} : pc'[v] = pc[v]
      BY <2>1, WinnerMoves DEF Goto, WinnerLabels
    <2>3. mq' = mq \/ mq' = [mq EXCEPT ![w] = -2]
      BY <1>3 DEF CheckMonitor
    <2>4. UNCHANGED <<won, current, queues, name, inbox, msg, sent>>
      BY <1>3 DEF CheckMonitor
    <2>5. WinnerInv'
      BY <2>1, <2>2, <2>3, <2>4 DEF WinnerInv
    <2> QED BY <1>1, <2>2, <2>4, <2>5 DEF QueueInv
  <1>4. CASE OpenForSending(w)
    <2>1. PICK to \in {"send", "idle"} :
            /\ Goto(w, "open_queue", to)
            /\ \/ \E q \in 1 .. MaxQueues : name' = q /\ mq' = [mq EXCEPT ![w] = q]
               \/ to = "idle" /\ name' = name /\ mq' = [mq EXCEPT ![w] = -1]
      BY <1>4 DEF OpenForSending
    <2>2. PcType' /\ pc[w] = "open_queue" /\ pc'[w] = to /\ pc'["comprobador"] = pc["comprobador"]
            /\ \A v \in Winners \ {w} : pc'[v] = pc[v]
      BY <2>1, WinnerMoves DEF Goto, WinnerLabels
    <2>3. UNCHANGED <<won, current, queues, inbox, msg, sent>>
      BY <1>4 DEF OpenForSending
    <2>4. WinnerInv'
      <3>1. /\ mq' \in [Winners -> {-2, -1} \cup 1 .. MaxQueues]
            /\ mq'[w] # -2 /\ \A v \in Winners \ {w} : mq'[v] = mq[v]
        <4>1. PICK d \in {-1} \cup 1 .. MaxQueues : mq' = [mq EXCEPT ![w] = d]
          BY <2>1
        <4>2. d # -2
          OBVIOUS
        <4> QED BY <4>1, <4>2 DEF WinnerInv
      <3> QED BY <2>2, <2>3, <3>1 DEF WinnerInv
    <2>5. name' \in 0 .. MaxQueues
      BY <2>1 DEF QueueInv
    <2> QED BY <1>1, <2>2, <2>3, <2>4, <2>5 DEF QueueInv
  <1>5. CASE Send(w) \/ SendFails(w)
    <2>1. PcType' /\ pc[w] = "send" /\ pc'[w] = "idle" /\ pc'["comprobador"] = pc["comprobador"]
            /\ \A v \in Winners \ {w} : pc'[v] = pc[v]
      BY <1>5, WinnerMoves DEF Send, SendFails, Goto, WinnerLabels
    <2>2. UNCHANGED <<won, current, mq, name, inbox, msg>>
      BY <1>5 DEF Send, SendFails
    <2>3. WinnerInv'
      BY <2>1, <2>2 DEF WinnerInv
    <2>4. current[w] \in 1 .. MaxBlocks
      BY <2>1 DEF WinnerInv
    <2>5. /\ queues' \in [1 .. MaxQueues -> Seq(1 .. MaxBlocks)]
          /\ \A q \in 1 .. MaxQueues : Len(queues'[q]) <= MAX_MSG
          /\ sent' \in Seq(1 .. MaxBlocks)
      <3>1. CASE Send(w)
        <4>1. mq[w] \in 1 .. MaxQueues /\ Len(queues[mq[w]]) < MAX_MSG
          BY <2>1, <3>1 DEF Send, WinnerInv
        <4>2. /\ queues[mq[w]] \in Seq(1 .. MaxBlocks)
              /\ queues' = [queues EXCEPT ![mq[w]] = Append(queues[mq[w]], current[w])]
          BY <3>1, <4>1 DEF Send, QueueInv
        <4>3. /\ Append(queues[mq[w]], current[w]) \in Seq(1 .. MaxBlocks)
              /\ Len(Append(queues[mq[w]], current[w])) <= MAX_MSG
          BY <2>4, <4>1, <4>2
        <4>4. sent' = sent \/ sent' = Append(sent, current[w])
          BY <3>1 DEF Send
        <4>5. sent' \in Seq(1 .. MaxBlocks)
          <5> DEFINE Numbers == 1 .. MaxBlocks
          <5>1. sent \in Seq(Numbers) /\ current[w] \in Numbers
            BY <2>4 DEF QueueInv
          <5> HIDE DEF Numbers
          <5>2. sent' \in Seq(Numbers)
            BY <4>4, <5>1
          <5> QED BY <5>2 DEF Numbers
        <4> QED BY <4>1, <4>2, <4>3, <4>5, QueueChanges
      <3>2. CASE SendFails(w)
        BY <3>2 DEF SendFails, QueueInv
      <3> QED BY <1>5, <3>1, <3>2
    <2> QED BY <1>1, <2>1, <2>2, <2>3, <2>5 DEF QueueInv
  <1> QED BY <1>2, <1>3, <1>4, <1>5 DEF Winner

(* Which statements the rows of MutexWaits and MutexPosts are.              *)
LEMMA MutexRows ==
  /\ MutexWait("comprobador") => Goto("comprobador", "mutex_wait", "write")
  /\ MutexPost("comprobador") => Goto("comprobador", "mutex_post", "fill_post")
  /\ MutexWait("monitor") => \/ Goto("monitor", "using_wait", "using")
                             \/ Goto("monitor", "mutex_wait", "read")
  /\ MutexPost("monitor") => \/ Goto("monitor", "using_post", "loop")
                             \/ Goto("monitor", "mutex_post", "empty_post")
  BY DEF MutexWait, MutexPost, MutexWaits, MutexPosts

(* A step of the comprobador on its labels: from mq_open on it has a queue.  *)
LEMMA ComprobadorPc ==
  ASSUME TypeInv, NEW from, NEW to \in ComprobadorLabels, Goto("comprobador", from, to),
         inbox' = inbox, from \notin Starting => from # "open_queue",
         from \in Starting => to \in Starting \cup {"open_queue"}
  PROVE  PcType' /\ (inbox' = 0 => pc'["comprobador"] \in Starting \cup {"open_queue"})
  BY ComprobadorMoves DEF Goto, TypeInv, QueueInv

LEMMA TypeComprobador ==
  ASSUME TypeInv, Comprobador
  PROVE  TypeInv'
  <1> USE RingAssumption DEF ring, sems, queue, flag, locals, signal, seen
  <1>1. /\ UNCHANGED <<won, current, mq, read_block, printed, verdicts, shutdown, sigint, interrupted>>
        /\ UNCHANGED <<reading, sent>> /\ using' \in {using, 0}
    BY DEF Comprobador, CreateRing, OpenForReceiving, NotifyUp, NotifyDown, ReapChild, Leave, Loop,
           Receive, EmptyWait, MutexWait, Write, MutexPost, FillPost
  <1>2. system_shm' \in BOOLEAN /\ monitor_up' \in {0, 1}
    BY DEF TypeInv, SignalInv, Comprobador, CreateRing, OpenForReceiving, NotifyUp, NotifyDown,
           ReapChild, Leave, Loop, Receive, EmptyWait, MutexWait, Write, MutexPost, FillPost
  <1>3. ScreenInv' /\ SignalInv'
    BY <1>1, <1>2 DEF TypeInv, ScreenInv, SignalInv, AcceptedShownAccepted
  <1>4. PcType' /\ (inbox' = 0 => pc'["comprobador"] \in Starting \cup {"open_queue"})
    <2>1. CASE OpenForReceiving
      <3>1. PcType'
        BY <2>1, ComprobadorMoves DEF OpenForReceiving, ComprobadorLabels, TypeInv
      <3> QED BY <2>1, <3>1 DEF OpenForReceiving
    <2>2. CASE CreateRing
      BY <2>2, ComprobadorPc DEF CreateRing, ComprobadorLabels, Starting
    <2>3. CASE NotifyUp \/ NotifyDown \/ ReapChild \/ Loop("comprobador", "receive", "lower")
      BY <2>3, ComprobadorPc DEF NotifyUp, NotifyDown, ReapChild, Leave, Loop, ComprobadorLabels,
                                 Starting
    <2>4. CASE Receive \/ EmptyWait \/ Write \/ FillPost
      BY <2>4, ComprobadorPc DEF Receive, EmptyWait, Write, FillPost, ComprobadorLabels, Starting
    <2>5. CASE MutexWait("comprobador") \/ MutexPost("comprobador")
      <3>1. inbox' = inbox
        BY <2>5 DEF MutexWait, MutexPost
      <3> QED BY <2>5, <3>1, MutexRows, ComprobadorPc DEF ComprobadorLabels, Starting
    <2> QED BY <2>1, <2>2, <2>3, <2>4, <2>5 DEF Comprobador
  <1>5. WinnerInv'
    <2>1. \A w \in Winners : pc'[w] = pc[w]
      <3>1. \E from, to : Goto("comprobador", from, to)
        BY MutexRows DEF Comprobador, CreateRing, OpenForReceiving, NotifyUp, NotifyDown, ReapChild,
              Leave, Loop, Receive, EmptyWait, Write, FillPost
      <3> QED BY <3>1 DEF Goto, TypeInv, PcType, Procs
    <2> QED BY <1>1, <2>1 DEF WinnerInv, TypeInv
  <1>6. QueueInv'
    <2>1. CASE Receive
      <3>1. inbox \in 1 .. MaxQueues /\ queues[inbox] \in Seq(1 .. MaxBlocks)
        BY <2>1 DEF Receive, Goto, TypeInv, QueueInv, Starting
      <3>2. /\ Tail(queues[inbox]) \in Seq(1 .. MaxBlocks)
            /\ Head(queues[inbox]) \in 1 .. MaxBlocks
            /\ Len(Tail(queues[inbox])) <= MAX_MSG
        BY <2>1, <3>1 DEF Receive, TypeInv, QueueInv
      <3>3. /\ queues' = [queues EXCEPT ![inbox] = Tail(queues[inbox])]
            /\ msg' = Head(queues[inbox]) /\ UNCHANGED <<name, inbox, sent>>
        BY <2>1 DEF Receive
      <3> QED BY <1>4, <3>1, <3>2, <3>3, QueueChanges DEF TypeInv, QueueInv
    <2>2. CASE ~Receive
      <3>1. UNCHANGED <<queues, msg, sent>>
        BY <2>2 DEF Comprobador, CreateRing, OpenForReceiving, NotifyUp, NotifyDown, ReapChild,
              Leave, Loop, EmptyWait, MutexWait, Write, MutexPost, FillPost
      <3>2. name' \in 0 .. MaxQueues /\ inbox' \in 0 .. MaxQueues
        BY <2>2 DEF TypeInv, QueueInv, Comprobador, CreateRing, OpenForReceiving, NotifyUp,
              NotifyDown, ReapChild, Leave, Loop, EmptyWait, MutexWait, Write, MutexPost, FillPost
      <3> QED BY <1>4, <3>1, <3>2 DEF TypeInv, QueueInv
    <2> QED BY <2>1, <2>2
  <1>7. RingInv'
    <2>1. CASE Write
      <3>1. Index(writing) \in Indices /\ msg \in 0 .. MaxBlocks
        BY DEF TypeInv, RingInv, QueueInv, Index, Indices
      <3>2. blocks' = [blocks EXCEPT ![Index(writing)] = msg]
        BY <2>1 DEF Write
      <3>3. blocks' \in [Indices -> 0 .. MaxBlocks]
        BY <3>1, <3>2 DEF TypeInv, RingInv
      <3>4. writing' \in 0 .. Wrap - 1
        BY <2>1 DEF Write, Incremented, TypeInv, RingInv
      <3>5. UNCHANGED <<segment, using, reading, sems, read_block>>
        BY <2>1 DEF Write
      <3> QED BY <3>3, <3>4, <3>5 DEF TypeInv, RingInv
    <2>2. CASE ~Write
      <3>1. UNCHANGED <<blocks, writing>>
        BY <2>2 DEF Comprobador, CreateRing, OpenForReceiving, NotifyUp, NotifyDown, ReapChild,
              Leave, Loop, Receive, EmptyWait, MutexWait, MutexPost, FillPost
      <3>2. /\ segment' \in {"absent", "empty", "sized", "ready", "gone"}
            /\ gym_mutex' \in Nat /\ gym_empty' \in Nat /\ gym_fill' \in Nat
        BY <2>2 DEF TypeInv, RingInv, Comprobador, CreateRing, OpenForReceiving, NotifyUp,
              NotifyDown, ReapChild, Leave, Loop, Receive, EmptyWait, MutexWait, MutexPost, FillPost
      <3>3. UNCHANGED <<read_block, reading>> /\ using' \in 0 .. 255
        BY <1>1 DEF TypeInv, RingInv
      <3> QED BY <3>1, <3>2, <3>3 DEF TypeInv, RingInv
    <2> QED BY <2>1, <2>2
  <1> QED BY <1>3, <1>4, <1>5, <1>6, <1>7 DEF TypeInv

LEMMA TypeMonitor ==
  ASSUME TypeInv, Monitor
  PROVE  TypeInv'
  <1> USE RingAssumption DEF ring, sems, queue, flag, locals, signal, seen
  <1>1. PICK from, to \in MonitorLabels : Goto("monitor", from, to)
    BY MutexRows DEF Monitor, OpenRing, WaitTooEarly, CountUser, Loop, FillWait, Read, EmptyPost,
                     PrintBlock, Leave, MonitorLabels
  <1>2. /\ PcType' /\ pc'["comprobador"] = pc["comprobador"]
        /\ \A w \in Winners : pc'[w] = pc[w]
    BY <1>1, MonitorMoves DEF TypeInv
  <1>3. /\ UNCHANGED <<won, current, mq, queues, inbox, msg, sent, blocks, writing>>
        /\ UNCHANGED <<system_shm, monitor_up, shutdown, sigint, interrupted>>
        /\ name' \in {name, 0}
    BY DEF Monitor, OpenRing, WaitTooEarly, CountUser, Loop, FillWait, MutexWait, Read, MutexPost,
           EmptyPost, PrintBlock, Leave
  <1>4. WinnerInv' /\ QueueInv' /\ SignalInv'
    <2>1. WinnerInv'
      BY <1>2, <1>3 DEF TypeInv, WinnerInv
    <2>2. QueueInv'
      BY <1>2, <1>3 DEF TypeInv, QueueInv
    <2>3. SignalInv'
      BY <1>3 DEF TypeInv, SignalInv
    <2> QED BY <2>1, <2>2, <2>3
  <1>5. RingInv'
    <2>1. Index(reading) \in Indices
      BY DEF TypeInv, RingInv, Index, Indices
    <2>2. reading' \in 0 .. Wrap - 1 /\ read_block' \in 0 .. MaxBlocks
      BY <2>1 DEF Monitor, OpenRing, WaitTooEarly, CountUser, Loop, FillWait, MutexWait, Read,
           Incremented, MutexPost, EmptyPost, PrintBlock, Leave, TypeInv, RingInv
    <2>3. segment' \in {segment, "gone"} /\ using' \in {using, (using + 1) % 256}
      BY DEF Monitor, OpenRing, WaitTooEarly, CountUser, Loop, FillWait, MutexWait, Read,
           MutexPost, EmptyPost, PrintBlock, Leave
    <2>4. gym_mutex' \in Nat /\ gym_empty' \in Nat /\ gym_fill' \in Nat
      <3>1. gym_mutex \in Nat /\ gym_empty \in Nat /\ gym_fill \in Nat
        BY DEF TypeInv, RingInv
      <3> QED BY <3>1 DEF Monitor, OpenRing, WaitTooEarly, CountUser, Loop, FillWait, MutexWait,
           Read, MutexPost, EmptyPost, PrintBlock, Leave
    <2>5. segment' \in {"absent", "empty", "sized", "ready", "gone"} /\ using' \in 0 .. 255
      BY <2>3 DEF TypeInv, RingInv
    <2> QED BY <1>3, <2>2, <2>4, <2>5 DEF TypeInv, RingInv
  <1>6. ScreenInv'
    <2>1. CASE UNCHANGED <<printed, verdicts>>
      BY <2>1 DEF TypeInv, ScreenInv, AcceptedShownAccepted
    <2>2. CASE ~UNCHANGED <<printed, verdicts>>
      <3>1. /\ printed' = Append(printed, read_block)
            /\ verdicts' = Append(verdicts, Fav[read_block] = num_miners')
            /\ num_miners' = ShownMiners(read_block)
        BY <2>2 DEF Monitor, OpenRing, WaitTooEarly, CountUser, Loop, FillWait, MutexWait, Read,
             MutexPost, EmptyPost, PrintBlock, Leave
      <3> DEFINE shown == Fav[read_block] = num_miners'
      <3>2. shown \in BOOLEAN /\ (Fav[read_block] = Total[read_block] => shown)
        BY <3>1 DEF ShownMiners
      <3>3. verdicts' = Append(verdicts, shown) /\ read_block \in 0 .. MaxBlocks
        BY <3>1 DEF TypeInv, RingInv
      <3> HIDE DEF shown
      <3>4. /\ printed' \in Seq(0 .. MaxBlocks) /\ Len(printed') = Len(printed) + 1
            /\ printed'[Len(printed) + 1] = read_block
            /\ \A i \in 1 .. Len(printed) : printed'[i] = printed[i]
        BY <3>1, <3>3 DEF TypeInv, ScreenInv
      <3>5. /\ verdicts' \in Seq(BOOLEAN) /\ Len(verdicts') = Len(printed) + 1
            /\ verdicts'[Len(printed) + 1] = shown
            /\ \A i \in 1 .. Len(printed) : verdicts'[i] = verdicts[i]
        BY <3>2, <3>3 DEF TypeInv, ScreenInv
      <3>6. AcceptedShownAccepted'
        <4> SUFFICES ASSUME NEW i \in 1 .. Len(printed) + 1, Fav[printed'[i]] = Total[printed'[i]]
                     PROVE  verdicts'[i]
          BY <3>4 DEF AcceptedShownAccepted
        <4>1. CASE i = Len(printed) + 1
          BY <3>2, <3>4, <3>5, <4>1
        <4>2. CASE i \in 1 .. Len(printed)
          <5>1. i \in DOMAIN printed /\ Fav[printed[i]] = Total[printed[i]]
            BY <3>4, <4>2 DEF TypeInv, ScreenInv
          <5>2. verdicts[i]
            BY <5>1 DEF TypeInv, ScreenInv, AcceptedShownAccepted
          <5> QED BY <3>5, <4>2, <5>2
        <4> QED BY <4>1, <4>2 DEF TypeInv, ScreenInv
      <3> QED BY <3>4, <3>5, <3>6 DEF ScreenInv
    <2> QED BY <2>1, <2>2
  <1> QED BY <1>2, <1>4, <1>5, <1>6 DEF TypeInv

(* What the handler of SIGINT leaves alone, whatever it interrupts.         *)
LEMMA HandleTypes ==
  ASSUME TypeInv, NEW p \in Procs, Handle(p), PcType', \A w \in Winners : pc'[w] = pc[w],
         inbox = 0 => pc'["comprobador"] \in Starting \cup {"open_queue"},
         segment' \in {segment, "gone"}, name' \in {name, 0}, using' \in 0 .. 255,
         system_shm' \in BOOLEAN, interrupted' \in BOOLEAN
  PROVE  TypeInv'
  <1> USE DEF locals, sems, seen
  <1>1. WinnerInv'
    BY DEF Handle, TypeInv, WinnerInv
  <1>2. QueueInv'
    <2>1. UNCHANGED <<queues, inbox, msg, sent>>
      BY DEF Handle
    <2>2. name' \in 0 .. MaxQueues
      BY RingAssumption DEF TypeInv, QueueInv
    <2> QED BY <2>1, <2>2 DEF TypeInv, QueueInv
  <1>3. RingInv' /\ ScreenInv'
    BY DEF Handle, TypeInv, RingInv, ScreenInv, AcceptedShownAccepted
  <1>4. SignalInv'
    BY DEF Handle, TypeInv, SignalInv
  <1> QED BY <1>1, <1>2, <1>3, <1>4 DEF TypeInv

(* Where an interrupted sem_wait leads.                                     *)
LEMMA InterruptRows ==
  /\ InterruptSemWait("comprobador") =>
       \/ Goto("comprobador", "mutex_wait", "write")
       \/ Goto("comprobador", "empty_wait", "mutex_wait")
  /\ InterruptSemWait("monitor") =>
       \E from \in {"using_wait", "mutex_wait", "fill_wait", "asleep_mutex", "asleep_fill"},
          to \in {"using", "read", "mutex_wait"} : Goto("monitor", from, to)
  BY DEF InterruptSemWait, Blocked, MutexWaits

LEMMA TypeSignalled ==
  ASSUME TypeInv, Signalled
  PROVE  TypeInv'
  <1> USE DEF Procs
  <1>0. using \in 0 .. 255 /\ (using - 1) % 256 \in 0 .. 255 /\ system_shm \in BOOLEAN
    BY DEF TypeInv, RingInv, SignalInv
  <1>1. inbox = 0 => pc["comprobador"] \in Starting \cup {"open_queue"}
    BY DEF TypeInv, QueueInv
  <1>2. ASSUME NEW p \in Procs, Deliver(p)
        PROVE  TypeInv'
    <2>1. /\ UNCHANGED <<pc, segment, using, name, system_shm, interrupted>> /\ Handle(p)
          /\ interrupted \in BOOLEAN
      BY <1>2 DEF Deliver, TypeInv, SignalInv
    <2>2. PcType'
      BY <2>1 DEF TypeInv, PcType
    <2> QED BY <1>0, <1>1, <2>1, <2>2, HandleTypes
  <1>3. ASSUME InterruptSemWait("comprobador")
        PROVE  TypeInv'
    <2>1. PICK from \in {"mutex_wait", "empty_wait"}, to \in {"write", "mutex_wait"} :
            Goto("comprobador", from, to)
      BY <1>3, InterruptRows
    <2>2. PcType' /\ (\A w \in Winners : pc'[w] = pc[w]) /\ pc["comprobador"] = from
      BY <2>1, ComprobadorMoves DEF ComprobadorLabels, TypeInv, Goto
    <2>3. inbox # 0
      BY <1>1, <2>2 DEF Starting
    <2> QED BY <1>0, <1>3, <2>2, <2>3, HandleTypes DEF InterruptSemWait
  <1>4. ASSUME InterruptSemWait("monitor")
        PROVE  TypeInv'
    <2>1. PICK from, to \in MonitorLabels : Goto("monitor", from, to)
      BY <1>4, InterruptRows DEF MonitorLabels
    <2>2. /\ PcType' /\ pc'["comprobador"] = pc["comprobador"]
          /\ \A w \in Winners : pc'[w] = pc[w]
      BY <2>1, MonitorMoves DEF TypeInv
    <2> QED BY <1>0, <1>1, <1>4, <2>2, HandleTypes DEF InterruptSemWait
  <1>5. CASE InterruptReceive \/ InterruptSleep \/ InterruptReap
    <2>1. PICK from \in {"receive", "find_system", "wait_child"}, to \in ComprobadorLabels :
            Goto("comprobador", from, to)
      BY <1>5 DEF InterruptReceive, InterruptSleep, InterruptReap, ComprobadorLabels
    <2>2. PcType' /\ (\A w \in Winners : pc'[w] = pc[w]) /\ pc["comprobador"] = from
      BY <2>1, ComprobadorMoves DEF TypeInv, Goto
    <2>3. inbox # 0
      BY <1>1, <2>2 DEF Starting
    <2>4. /\ segment' \in {segment, "gone"} /\ name' \in {name, 0} /\ using' \in 0 .. 255
          /\ system_shm' \in BOOLEAN /\ interrupted' \in BOOLEAN /\ Handle("comprobador")
      BY <1>0, <1>5 DEF InterruptReceive, InterruptSleep, InterruptReap
    <2> QED BY <2>2, <2>3, <2>4, HandleTypes
  <1> QED BY <1>2, <1>3, <1>4, <1>5 DEF Signalled

LEMMA TypeNext == TypeInv /\ [Next]_vars => TypeInv'
  <1> SUFFICES ASSUME TypeInv, [Next]_vars PROVE TypeInv'
    OBVIOUS
  <1> USE DEF ring, sems, queue, flag, locals, signal, seen
  <1>1. ASSUME NEW to \in SUBSET Procs, Interrupt(to)
        PROVE  TypeInv'
    <2>1. sigint' \in [Procs -> BOOLEAN]
      BY <1>1 DEF Interrupt, TypeInv, SignalInv, Running
    <2> QED BY <1>1, <2>1 DEF Interrupt, TypeInv, PcType, WinnerInv, QueueInv, RingInv, ScreenInv,
                              SignalInv, AcceptedShownAccepted
  <1>2. CASE SystemAppears
    BY <1>2 DEF SystemAppears, TypeInv, PcType, WinnerInv, QueueInv, RingInv, ScreenInv, SignalInv,
                AcceptedShownAccepted
  <1>3. CASE UNCHANGED vars
    BY <1>3 DEF vars, TypeInv, PcType, WinnerInv, QueueInv, RingInv, ScreenInv, SignalInv,
                AcceptedShownAccepted
  <1> QED BY <1>1, <1>2, <1>3, TypeWinner, TypeComprobador, TypeMonitor, TypeSignalled DEF Next

LEMMA TypeInvAlways == Spec => []TypeInv
  BY TypeInit, TypeNext, PTL DEF Spec

(* The shared memory, the queues and the locals keep their types; above all *)
(* the two counters of the ring stay in their bytes and select a slot.      *)
THEOREM TypesHold == Spec => []TypeOK
  <1>1. TypeInv => TypeOK
    BY DEF TypeInv, TypeOK, WinnerInv, QueueInv, RingInv, SignalInv
  <1> QED BY <1>1, TypeInvAlways, PTL

(* A unanimous block is shown as validated, even behind blocks that were    *)
(* not and that left num_miners of the monitor as it was.                   *)
THEOREM UnanimousIsShown == Spec => []AcceptedShownAccepted
  <1>1. TypeInv => AcceptedShownAccepted
    BY DEF TypeInv, ScreenInv
  <1> QED BY <1>1, TypeInvAlways, PTL

-----------------------------------------------------------------------------
(* The queue's name.                                                        *)

Named == { "find_system", "loop", "receive", "empty_wait", "mutex_wait", "write", "mutex_post",
           "fill_post" }

(* From mq_open to the end of the loop the name is the inbox's: only the    *)
(* monitor that ends could take it away.                                    *)
NameInv == pc["comprobador"] \in Named /\ pc["monitor"] # "done" => name = inbox

LEMMA NameInit == Init => NameInv
  BY RingAssumption DEF Init, NameInv, Named, Procs

LEMMA NameNext ==
  ASSUME TypeInv, NameInv, [Next]_vars
  PROVE  NameInv'
  <1> USE DEF ring, sems, queue, flag, locals, signal, seen
  <1>1. ASSUME UNCHANGED <<name, inbox>>,
               pc'["comprobador"] \in Named => pc["comprobador"] \in Named,
               pc["monitor"] = "done" => pc'["monitor"] = "done"
        PROVE  NameInv'
    BY <1>1 DEF NameInv
  <1>2. ASSUME NEW w \in Winners, Win(w) \/ Winner(w)
        PROVE  NameInv'
    <2>1. UNCHANGED inbox
      BY <1>2 DEF Win, Winner, CheckMonitor, OpenForSending, Send, SendFails
    <2>2. pc'["comprobador"] = pc["comprobador"] /\ pc'["monitor"] = pc["monitor"]
      <3>1. \E from, to : Goto(w, from, to)
        BY <1>2 DEF Win, Winner, CheckMonitor, OpenForSending, Send, SendFails
      <3> QED BY <3>1, RingAssumption DEF Goto, TypeInv, PcType, Procs
    <2>3. name' = name \/ name = 0
      BY <1>2 DEF Win, Winner, CheckMonitor, OpenForSending, OpenQueue, Send, SendFails
    <2>4. pc["comprobador"] \in Named => inbox # 0
      BY DEF TypeInv, QueueInv, Starting, Named
    <2> QED BY <2>1, <2>2, <2>3, <2>4 DEF NameInv
  <1>3. CASE Comprobador
    <2>1. pc'["monitor"] = pc["monitor"]
      <3>1. \E from, to : Goto("comprobador", from, to)
        BY <1>3, MutexRows DEF Comprobador, CreateRing, OpenForReceiving, NotifyUp, NotifyDown,
              ReapChild, Leave, Loop, Receive, EmptyWait, Write, FillPost
      <3> QED BY <3>1 DEF Goto, TypeInv, PcType, Procs
    <2>2. CASE OpenForReceiving
      BY <2>2 DEF OpenForReceiving, NameInv
    <2>3. CASE ReapChild
      BY <2>3, ComprobadorMoves DEF ReapChild, Leave, NameInv, Named, ComprobadorLabels, TypeInv
    <2>4. CASE CreateRing
      <3>1. \E to \in Starting \cup {"open_queue"} : pc'["comprobador"] = to
        BY <2>4 DEF CreateRing, Goto, Starting, TypeInv, PcType, Procs
      <3> QED BY <3>1 DEF Starting, Named, NameInv
    <2>5. CASE \/ NotifyUp \/ NotifyDown \/ Loop("comprobador", "receive", "lower") \/ Receive
               \/ EmptyWait \/ Write \/ FillPost
      <3>1. pc'["comprobador"] \in Named => pc["comprobador"] \in Named
        BY <2>5 DEF NotifyUp, NotifyDown, Loop, Receive, EmptyWait, Write, FillPost, Goto, Named,
                    TypeInv, PcType, Procs
      <3>2. UNCHANGED <<name, inbox>>
        BY <2>5 DEF NotifyUp, NotifyDown, Loop, Receive, EmptyWait, Write, FillPost
      <3> QED BY <1>1, <2>1, <3>1, <3>2
    <2>6. CASE MutexWait("comprobador") \/ MutexPost("comprobador")
      <3>1. pc'["comprobador"] \in Named => pc["comprobador"] \in Named
        BY <2>6, MutexRows DEF Goto, Named, TypeInv, PcType, Procs
      <3>2. UNCHANGED <<name, inbox>>
        BY <2>6 DEF MutexWait, MutexPost
      <3> QED BY <1>1, <2>1, <3>1, <3>2
    <2> QED BY <1>3, <2>2, <2>3, <2>4, <2>5, <2>6 DEF Comprobador
  <1>4. CASE Monitor
    <2>1. PICK from, to \in MonitorLabels : Goto("monitor", from, to)
      BY <1>4, MutexRows DEF Monitor, OpenRing, WaitTooEarly, CountUser, Loop, FillWait, Read,
            EmptyPost, PrintBlock, Leave, MonitorLabels
    <2>2. pc'["comprobador"] = pc["comprobador"]
      BY <2>1, MonitorMoves DEF TypeInv
    <2>3. CASE Leave("monitor", "leave")
      BY <2>3, MonitorMoves DEF Leave, MonitorLabels, TypeInv, NameInv
    <2>4. CASE ~Leave("monitor", "leave")
      <3>1. UNCHANGED <<name, inbox>> /\ pc["monitor"] # "done"
        BY <1>4, <2>4, MutexRows DEF Monitor, OpenRing, WaitTooEarly, CountUser, Loop, FillWait,
              MutexWait, Read, MutexPost, EmptyPost, PrintBlock, Goto
      <3> QED BY <1>1, <2>2, <3>1
    <2> QED BY <2>3, <2>4
  <1>5. CASE Signalled
    <2>1. ASSUME NEW p \in Procs, Deliver(p)
          PROVE  NameInv'
      BY <2>1 DEF Deliver, Handle, NameInv
    <2>2. CASE InterruptSemWait("comprobador")
      <3>1. /\ pc'["comprobador"] \in Named => pc["comprobador"] \in Named
            /\ pc'["monitor"] = pc["monitor"]
        BY <2>2, InterruptRows DEF Goto, Named, TypeInv, PcType, Procs
      <3> QED BY <1>1, <2>2, <3>1 DEF InterruptSemWait, Handle
    <2>3. CASE InterruptSemWait("monitor")
      <3>1. pc'["comprobador"] = pc["comprobador"] /\ pc["monitor"] # "done"
        BY <2>3, InterruptRows DEF Goto, TypeInv, PcType, Procs
      <3> QED BY <1>1, <2>3, <3>1 DEF InterruptSemWait, Handle
    <2>4. CASE InterruptReceive \/ InterruptSleep \/ InterruptReap
      <3>1. pc'["comprobador"] \in {"exited", "wait_child", "done"}
        BY <2>4 DEF InterruptReceive, InterruptSleep, InterruptReap, Goto, TypeInv, PcType, Procs
      <3> QED BY <3>1 DEF NameInv, Named
    <2> QED BY <1>5, <2>1, <2>2, <2>3, <2>4 DEF Signalled, Procs
  <1>6. CASE SystemAppears \/ (\E to \in SUBSET Procs \ {{}} : Interrupt(to)) \/ UNCHANGED vars
    BY <1>6 DEF SystemAppears, Interrupt, vars, NameInv
  <1> QED BY <1>2, <1>3, <1>4, <1>5, <1>6 DEF Next

(* While the comprobador may still be found by name, the name opens its own *)
(* queue: no miner sends a block to a queue that nobody reads.              *)
THEOREM NameOpensInbox == Spec => []QueueIsTheInbox
  <1>1. Init => TypeInv /\ NameInv
    BY TypeInit, NameInit
  <1>2. (TypeInv /\ NameInv) /\ [Next]_vars => (TypeInv /\ NameInv)'
    BY TypeNext, NameNext
  <1>3. NameInv => QueueIsTheInbox
    BY DEF NameInv, QueueIsTheInbox, Named
  <1> QED BY <1>1, <1>2, <1>3, PTL DEF Spec

-----------------------------------------------------------------------------
(* The semaphores of the ring.                                              *)

One(b) == IF b THEN 1 ELSE 0

BeforeMutex == {"create", "truncate", "zero", "init_mutex"}

(* Until gym_mutex is initialised the monitor is not past its first wait.   *)
EarlyInv ==
  pc["comprobador"] \in BeforeMutex =>
    /\ gym_fill = 0
    /\ pc["monitor"] \in {"open", "using_wait", "killed", "asleep_mutex"}
    /\ pc["comprobador"] = "create" => segment = "absent" /\ pc["monitor"] = "open"
    /\ pc["comprobador"] = "truncate" => segment = "empty"
    /\ pc["comprobador"] \in {"zero", "init_mutex"} => segment = "sized"

(* Until gym_fill is initialised nothing has been filled.                   *)
UnfilledInv ==
  pc["comprobador"] \in {"init_empty", "init_fill"} =>
    /\ gym_fill = 0
    /\ pc["monitor"] \notin {"mutex_wait", "read", "mutex_post", "empty_post", "print"}
    /\ pc["comprobador"] = "init_fill" => gym_empty = BUFFER_LENGTH

MutexInv ==
  pc["comprobador"] \notin BeforeMutex =>
    gym_mutex + One(pc["comprobador"] \in {"write", "mutex_post"})
              + One(pc["monitor"] \in {"using", "using_post", "read", "mutex_post"}) = 1

SemInv == ~interrupted => EarlyInv /\ UnfilledInv /\ MutexInv /\ SlotsAccounted

LEMMA SemInit == Init => SemInv
  <1> SUFFICES ASSUME Init PROVE SemInv
    OBVIOUS
  <1>1. CASE Passed = 0
    <2>1. /\ pc["comprobador"] = "create" /\ pc["monitor"] = "open" /\ segment = "absent"
          /\ gym_fill = 0
      BY <1>1 DEF Init, Procs
    <2> QED BY <2>1 DEF SemInv, EarlyInv, UnfilledInv, MutexInv, SlotsAccounted, Ready, BeforeMutex
  <1>2. CASE Passed # 0
    <2>1. /\ pc["comprobador"] = "loop" /\ pc["monitor"] = "loop"
          /\ gym_mutex = 1 /\ gym_empty = BUFFER_LENGTH /\ gym_fill = 0
      BY <1>2 DEF Init, Procs
    <2> QED BY <2>1, RingAssumption DEF SemInv, EarlyInv, UnfilledInv, MutexInv, SlotsAccounted,
                                        Tokens, One, BeforeMutex
  <1> QED BY <1>1, <1>2

(* An interruption is remembered.                                           *)
LEMMA CalmBefore ==
  ASSUME TypeInv, [Next]_vars, ~interrupted'
  PROVE  ~interrupted
  BY DEF TypeInv, SignalInv, Next, vars, ring, sems, queue, flag, locals, signal, seen, Win, Winner,
         CheckMonitor, OpenForSending, Send, SendFails, Comprobador, CreateRing, OpenForReceiving,
         NotifyUp, NotifyDown, ReapChild, Leave, Loop, Receive, EmptyWait, MutexWait, Write,
         MutexPost, FillPost, Monitor, OpenRing, WaitTooEarly, CountUser, FillWait, Read, EmptyPost,
         PrintBlock, Signalled, Deliver, InterruptSemWait, InterruptReceive, InterruptSleep,
         InterruptReap, Interrupt, SystemAppears

LEMMA SemNext ==
  ASSUME TypeInv, SemInv, [Next]_vars
  PROVE  SemInv'
  <1> SUFFICES ASSUME ~interrupted'
               PROVE  EarlyInv' /\ UnfilledInv' /\ MutexInv' /\ SlotsAccounted'
    BY DEF SemInv
  <1>0. /\ ~interrupted /\ EarlyInv /\ UnfilledInv /\ MutexInv /\ SlotsAccounted
        /\ gym_mutex \in Nat /\ gym_empty \in Nat /\ gym_fill \in Nat
    BY CalmBefore DEF SemInv, TypeInv, RingInv
  <1> USE RingAssumption DEF ring, sems, queue, flag, locals, signal, seen
  <1> DEFINE Goal == EarlyInv' /\ UnfilledInv' /\ MutexInv' /\ SlotsAccounted'
  <1>1. ASSUME UNCHANGED <<segment, sems>>, UNCHANGED <<pc["comprobador"], pc["monitor"]>>
        PROVE  Goal
    BY <1>0, <1>1 DEF EarlyInv, UnfilledInv, MutexInv, SlotsAccounted, Tokens, Ready
  <1>2. ASSUME NEW w \in Winners, Win(w) \/ Winner(w)
        PROVE  Goal
    <2>1. UNCHANGED <<segment, sems>>
      BY <1>2 DEF Win, Winner, CheckMonitor, OpenForSending, Send, SendFails
    <2>2. \E from, to : Goto(w, from, to)
      BY <1>2 DEF Win, Winner, CheckMonitor, OpenForSending, Send, SendFails
    <2>3. UNCHANGED <<pc["comprobador"], pc["monitor"]>>
      BY <2>2 DEF Goto, TypeInv, PcType, Procs
    <2> HIDE DEF Goal
    <2> QED BY <1>1, <2>1, <2>3
  <1>3. CASE Comprobador
    <2>1. ASSUME NEW from, NEW to, Goto("comprobador", from, to)
          PROVE  pc["comprobador"] = from /\ pc'["comprobador"] = to /\ pc'["monitor"] = pc["monitor"]
      BY <2>1 DEF Goto, TypeInv, PcType, Procs
    <2>2. CASE CreateRing
      <3>1. /\ \/ /\ pc["comprobador"] = "create" /\ pc'["comprobador"] = "truncate"
                  /\ segment' = "empty" /\ UNCHANGED sems
               \/ /\ pc["comprobador"] = "truncate" /\ pc'["comprobador"] = "zero"
                  /\ segment' = "sized" /\ UNCHANGED sems
               \/ /\ pc["comprobador"] = "zero" /\ pc'["comprobador"] = "init_mutex"
                  /\ gym_fill' = 0 /\ UNCHANGED segment
               \/ /\ pc["comprobador"] = "init_mutex" /\ pc'["comprobador"] = "init_empty"
                  /\ gym_mutex' = 1 /\ UNCHANGED <<gym_empty, gym_fill>>
               \/ /\ pc["comprobador"] = "init_empty" /\ pc'["comprobador"] = "init_fill"
                  /\ gym_empty' = BUFFER_LENGTH /\ UNCHANGED <<gym_mutex, gym_fill>>
               \/ /\ pc["comprobador"] = "init_fill" /\ pc'["comprobador"] = "open_queue"
                  /\ gym_fill' = 0 /\ UNCHANGED <<gym_mutex, gym_empty>>
            /\ pc'["monitor"] = pc["monitor"]
        BY <2>1, <2>2 DEF CreateRing
      <3>2. EarlyInv'
        BY <1>0, <3>1 DEF EarlyInv, BeforeMutex
      <3>3. UnfilledInv'
        BY <1>0, <3>1 DEF EarlyInv, UnfilledInv, BeforeMutex
      <3>4. MutexInv'
        BY <1>0, <3>1 DEF EarlyInv, MutexInv, One, BeforeMutex
      <3>5. SlotsAccounted'
        BY <1>0, <3>1 DEF UnfilledInv, SlotsAccounted, Tokens, Ready
      <3> QED BY <3>2, <3>3, <3>4, <3>5
    <2>3. CASE \/ OpenForReceiving \/ NotifyUp \/ NotifyDown \/ ReapChild
               \/ Loop("comprobador", "receive", "lower") \/ Receive
      <3>1. /\ UNCHANGED sems
            /\ {pc["comprobador"], pc'["comprobador"]} \subseteq
                 { "open_queue", "find_system", "loop", "lower", "wait_child", "receive",
                   "empty_wait", "done" }
            /\ pc'["monitor"] = pc["monitor"]
        BY <2>1, <2>3 DEF OpenForReceiving, NotifyUp, NotifyDown, ReapChild, Leave, Loop, Receive
      <3> QED BY <1>0, <3>1 DEF EarlyInv, UnfilledInv, MutexInv, SlotsAccounted, Tokens, Ready, One,
                                BeforeMutex
    <2>4. CASE EmptyWait \/ Write \/ FillPost
      <3>1. /\ \/ /\ pc["comprobador"] = "empty_wait" /\ pc'["comprobador"] = "mutex_wait"
                  /\ gym_empty' = gym_empty - 1 /\ UNCHANGED gym_fill
               \/ /\ pc["comprobador"] = "write" /\ pc'["comprobador"] = "mutex_post"
                  /\ UNCHANGED <<gym_empty, gym_fill>>
               \/ /\ pc["comprobador"] = "fill_post" /\ pc'["comprobador"] = "loop"
                  /\ gym_fill' = gym_fill + 1 /\ UNCHANGED gym_empty
            /\ pc'["monitor"] = pc["monitor"] /\ UNCHANGED gym_mutex
        BY <2>1, <2>4 DEF EmptyWait, Write, FillPost
      <3> QED BY <1>0, <3>1 DEF EarlyInv, UnfilledInv, MutexInv, SlotsAccounted, Tokens, Ready, One,
                                BeforeMutex
    <2>5. CASE MutexWait("comprobador")
      <3>1. gym_mutex > 0 /\ gym_mutex' = gym_mutex - 1 /\ UNCHANGED <<gym_empty, gym_fill>>
        BY <2>5 DEF MutexWait
      <3> QED BY <1>0, <2>1, <2>5, <3>1, MutexRows DEF EarlyInv, UnfilledInv, MutexInv,
                    SlotsAccounted, Tokens, Ready, One, BeforeMutex
    <2>6. CASE MutexPost("comprobador")
      <3>1. gym_mutex' = gym_mutex + 1 /\ UNCHANGED <<gym_empty, gym_fill>>
        BY <2>6 DEF MutexPost
      <3> QED BY <1>0, <2>1, <2>6, <3>1, MutexRows DEF EarlyInv, UnfilledInv, MutexInv,
                    SlotsAccounted, Tokens, Ready, One, BeforeMutex
    <2> QED BY <1>3, <2>2, <2>3, <2>4, <2>5, <2>6 DEF Comprobador
  <1>4. CASE Monitor
    <2>1. ASSUME NEW from, NEW to, Goto("monitor", from, to)
          PROVE  pc["monitor"] = from /\ pc'["monitor"] = to /\ pc'["comprobador"] = pc["comprobador"]
      BY <2>1 DEF Goto, TypeInv, PcType, Procs
    <2>2. CASE OpenRing \/ WaitTooEarly
      <3>1. /\ \/ /\ pc["monitor"] = "open" /\ pc'["monitor"] = "using_wait"
                  /\ segment # "absent"
               \/ /\ pc["monitor"] = "using_wait" /\ pc'["monitor"] \in {"killed", "asleep_mutex"}
               \/ /\ pc["monitor"] = "fill_wait" /\ pc'["monitor"] = "asleep_fill"
            /\ pc'["comprobador"] = pc["comprobador"] /\ UNCHANGED <<segment, sems>>
        BY <2>1, <2>2 DEF OpenRing, WaitTooEarly
      <3> QED BY <1>0, <3>1 DEF EarlyInv, UnfilledInv, MutexInv, SlotsAccounted, Tokens, Ready, One,
                                BeforeMutex
    <2>3. CASE CountUser \/ Loop("monitor", "fill_wait", "leave") \/ PrintBlock
               \/ Leave("monitor", "leave")
      <3>1. /\ UNCHANGED sems
            /\ \/ pc["monitor"] = "using" /\ pc'["monitor"] = "using_post"
               \/ pc["monitor"] = "loop" /\ pc'["monitor"] \in {"fill_wait", "leave"}
               \/ pc["monitor"] = "print" /\ pc'["monitor"] \in {"loop", "leave"}
               \/ pc["monitor"] = "leave" /\ pc'["monitor"] = "done"
            /\ pc'["comprobador"] = pc["comprobador"]
        BY <2>1, <2>3 DEF CountUser, Loop, PrintBlock, Leave
      <3> QED BY <1>0, <3>1 DEF EarlyInv, UnfilledInv, MutexInv, SlotsAccounted, Tokens, Ready, One,
                                BeforeMutex
    <2>4. CASE FillWait \/ Read \/ EmptyPost
      <3>1. /\ \/ /\ pc["monitor"] = "fill_wait" /\ pc'["monitor"] = "mutex_wait"
                  /\ gym_fill > 0 /\ gym_fill' = gym_fill - 1 /\ UNCHANGED gym_empty
               \/ /\ pc["monitor"] = "read" /\ pc'["monitor"] = "mutex_post"
                  /\ UNCHANGED <<gym_empty, gym_fill>>
               \/ /\ pc["monitor"] = "empty_post" /\ pc'["monitor"] = "print"
                  /\ gym_empty' = gym_empty + 1 /\ UNCHANGED gym_fill
            /\ pc'["comprobador"] = pc["comprobador"] /\ UNCHANGED gym_mutex
        BY <2>1, <2>4 DEF FillWait, Read, EmptyPost
      <3>2. pc["comprobador"] \notin Starting
        BY <1>0, <3>1 DEF EarlyInv, UnfilledInv, BeforeMutex, Starting
      <3>3. EarlyInv' /\ UnfilledInv'
        BY <3>1, <3>2 DEF EarlyInv, UnfilledInv, BeforeMutex, Starting
      <3>4. MutexInv'
        BY <1>0, <3>1 DEF MutexInv, One
      <3>5. SlotsAccounted'
        <4>1. gym_empty + gym_fill + Tokens = BUFFER_LENGTH
          BY <1>0, <3>2 DEF SlotsAccounted, Ready, Starting
        <4>2. gym_empty' + gym_fill' + Tokens' = gym_empty + gym_fill + Tokens
          <5>1. CASE pc["monitor"] = "fill_wait"
            BY <1>0, <3>1, <5>1 DEF Tokens
          <5>2. CASE pc["monitor"] = "read"
            BY <1>0, <3>1, <5>2 DEF Tokens
          <5>3. CASE pc["monitor"] = "empty_post"
            BY <1>0, <3>1, <5>3 DEF Tokens
          <5> QED BY <3>1, <5>1, <5>2, <5>3
        <4> QED BY <4>1, <4>2 DEF SlotsAccounted
      <3> QED BY <3>3, <3>4, <3>5
    <2>5. CASE MutexWait("monitor")
      <3>1. /\ gym_mutex > 0 /\ gym_mutex' = gym_mutex - 1 /\ UNCHANGED <<gym_empty, gym_fill>>
            /\ segment \notin {"empty", "sized"}
        BY <2>5 DEF MutexWait
      <3> QED BY <1>0, <2>1, <2>5, <3>1, MutexRows DEF EarlyInv, UnfilledInv, MutexInv,
                    SlotsAccounted, Tokens, Ready, One, BeforeMutex
    <2>6. CASE MutexPost("monitor")
      <3>1. gym_mutex' = gym_mutex + 1 /\ UNCHANGED <<gym_empty, gym_fill>>
        BY <2>6 DEF MutexPost
      <3> QED BY <1>0, <2>1, <2>6, <3>1, MutexRows DEF EarlyInv, UnfilledInv, MutexInv,
                    SlotsAccounted, Tokens, Ready, One, BeforeMutex
    <2> QED BY <1>4, <2>2, <2>3, <2>4, <2>5, <2>6 DEF Monitor
  <1>5. CASE Signalled
    <2>1. UNCHANGED <<pc, segment, sems>>
      BY <1>5 DEF Signalled, Deliver, Handle, InterruptSemWait, InterruptReceive, InterruptSleep,
                  InterruptReap
    <2> QED BY <1>1, <2>1
  <1>6. CASE SystemAppears \/ (\E to \in SUBSET Procs \ {{}} : Interrupt(to)) \/ UNCHANGED vars
    <2>1. UNCHANGED <<pc, segment, sems>>
      BY <1>6 DEF SystemAppears, Interrupt, vars
    <2> QED BY <1>1, <2>1
  <1> QED BY <1>2, <1>3, <1>4, <1>5, <1>6 DEF Next

LEMMA SemInvAlways == Spec => [](TypeInv /\ SemInv)
  <1>1. Init => TypeInv /\ SemInv
    BY TypeInit, SemInit
  <1>2. (TypeInv /\ SemInv) /\ [Next]_vars => (TypeInv /\ SemInv)'
    BY TypeNext, SemNext
  <1> QED BY <1>1, <1>2, PTL DEF Spec

(* As long as no sem_wait was interrupted, every slot of the ring is free,  *)
(* filled or in the hands of one of the two processes.                      *)
THEOREM SlotsAddUp == Spec => []SlotsAccounted
  <1>1. TypeInv /\ SemInv => SlotsAccounted
    BY DEF SemInv, SlotsAccounted
  <1> QED BY <1>1, SemInvAlways, PTL

(* And the two processes are never both between wait and post of gym_mutex, *)
(* not even while comprobador is still setting the semaphores up.           *)
THEOREM OneInTheRing == Spec => []RingExclusive
  <1>1. TypeInv /\ SemInv => RingExclusive
    BY DEF SemInv, MutexInv, RingExclusive, TypeInv, RingInv, One, BeforeMutex
  <1> QED BY <1>1, SemInvAlways, PTL

-----------------------------------------------------------------------------
(* Division with remainder: what the slots of the ring rest on.             *)

LEMMA DivMod ==
  ASSUME NEW b \in Nat \ {0}, NEW n \in Nat
  PROVE  n = b * (n \div b) + (n % b) /\ n % b \in 0 .. b - 1 /\ n \div b \in Nat
  OBVIOUS

(* The remainder is unique.                                                 *)
LEMMA ModUnique ==
  ASSUME NEW b \in Nat \ {0}, NEW q \in Nat, NEW r \in 0 .. b - 1, NEW n \in Nat, n = b * q + r
  PROVE  n % b = r
  <1> DEFINE p == n \div b
             s == n % b
  <1>1. n = b * p + s /\ p \in Nat /\ s \in 0 .. b - 1
    BY DivMod
  <1> HIDE DEF p, s
  <1>2. b * (p - q) = r - s
    BY <1>1
  <1>3. p - q <= -1 \/ p - q = 0 \/ p - q >= 1
    BY <1>1
  <1>4. r - s < b /\ r - s > -b
    BY <1>1
  <1>5. p = q
    BY <1>1, <1>2, <1>3, <1>4
  <1>6. r = s
    BY <1>1, <1>2, <1>5
  <1> QED BY <1>6 DEF s

(* Two numbers less than b apart fall into different slots of b.            *)
LEMMA ModApart ==
  ASSUME NEW b \in Nat \ {0}, NEW m \in Nat, NEW n \in Nat, m < n, n < m + b
  PROVE  m % b # n % b
  <1> DEFINE p == m \div b
             q == n \div b
  <1>1. m = b * p + (m % b) /\ n = b * q + (n % b) /\ p \in Nat /\ q \in Nat
    BY DivMod
  <1> HIDE DEF p, q
  <1> SUFFICES ASSUME m % b = n % b PROVE FALSE
    OBVIOUS
  <1>2. n - m = b * (q - p)
    BY <1>1, DivMod
  <1>3. q - p <= 0 \/ q - p >= 1
    BY <1>1
  <1> QED BY <1>1, <1>2, <1>3

LEMMA ModSmall ==
  ASSUME NEW b \in Nat \ {0}, NEW n \in 0 .. b - 1
  PROVE  n % b = n
  OBVIOUS

(* The increment of a counter that wraps.                                   *)
LEMMA ModSuccessor ==
  ASSUME NEW b \in Nat \ {0}, NEW n \in Nat
  PROVE  ((n % b) + 1) % b = (n + 1) % b
  <1> DEFINE p == n \div b
             s == n % b
  <1>1. n = b * p + s /\ p \in Nat /\ s \in 0 .. b - 1
    BY DivMod
  <1> HIDE DEF p, s
  <1>2. CASE s + 1 < b
    <2>1. (n + 1) % b = s + 1
      BY <1>1, <1>2, ModUnique
    <2>2. (s + 1) % b = s + 1
      BY <1>1, <1>2
    <2> QED BY <2>1, <2>2 DEF s
  <1>3. CASE s + 1 = b
    <2>1. n + 1 = b * (p + 1) + 0
      BY <1>1, <1>3
    <2>2. (n + 1) % b = 0
      BY <1>1, <2>1, ModUnique
    <2>3. s + 1 = b * 1 + 0
      BY <1>3
    <2>4. (s + 1) % b = 0
      BY <1>1, <2>3, ModUnique
    <2> QED BY <2>2, <2>4 DEF s
  <1> QED BY <1>1, <1>2, <1>3

(* A counter that wraps at a multiple of b selects the same slots of b.     *)
LEMMA ModOfMultiple ==
  ASSUME NEW b \in Nat \ {0}, NEW c \in Nat \ {0}, c % b = 0, NEW n \in Nat
  PROVE  (n % c) % b = n % b
  <1> DEFINE d == c \div b
             q == n \div c
             m == n % c
             p == m \div b
             s == m % b
  <1>1. c = b * d /\ d \in Nat
    BY DivMod
  <1>2. n = c * q + m /\ q \in Nat /\ m \in Nat
    BY DivMod
  <1>3. m = b * p + s /\ p \in Nat /\ s \in 0 .. b - 1
    BY <1>2, DivMod
  <1> HIDE DEF d, q, m, p, s
  <1> DEFINE k == d * q + p
  <1>4. k \in Nat
    BY <1>1, <1>2, <1>3
  <1>5. n = b * k + s
    BY <1>1, <1>2, <1>3
  <1> HIDE DEF k
  <1>6. n % b = s
    BY <1>3, <1>4, <1>5, ModUnique
  <1> QED BY <1>6 DEF s, m

-----------------------------------------------------------------------------
(* The order of the blocks.                                                 *)

(* Where the accepted blocks are: in the inbox, in msg, in the ring, in     *)
(* read_block or on the screen. Written and Taken count those that have     *)
(* ever been written to the ring and read from it.                          *)
Content == IF inbox = 0 THEN <<>> ELSE queues[inbox]

InHand == One(pc["comprobador"] \in {"empty_wait", "mutex_wait", "write"})

Unread ==
  gym_fill + One(pc["comprobador"] \in {"mutex_post", "fill_post"})
           + One(pc["monitor"] \in {"mutex_wait", "read"})

Written == Len(sent) - Len(Content) - InHand

Taken == Written - Unread

Showing == pc["monitor"] \in {"mutex_post", "empty_post", "print"}

Over == pc["monitor"] \in {"leave", "done"}

(* The bytes select the slots that unbounded counters would select.         *)
InStep ==
  \A n \in 0 .. Len(sent) - 1 : Index((Passed + n) % Wrap) = (Passed + n) % BUFFER_LENGTH

Fifo ==
  /\ writing = (Passed + Written) % Wrap /\ reading = (Passed + Taken) % Wrap
  /\ Showing => Taken = Len(printed) + 1 /\ read_block = sent[Taken]
  /\ Over => Taken \in {Len(printed), Len(printed) + 1}
  /\ ~Showing /\ ~Over => Taken = Len(printed)
  /\ \A i \in 1 .. Len(printed) : printed[i] = sent[i]
  /\ \A k \in Taken + 1 .. Written : blocks[(Passed + k - 1) % BUFFER_LENGTH] = sent[k]
  /\ InHand = 1 => msg = sent[Written + 1]
  /\ \A j \in 1 .. Len(Content) : Content[j] = sent[Written + InHand + j]

FifoInv == ~interrupted /\ InStep => Fifo

(* Before the comprobador has opened its queue no miner has a reason to.    *)
NothingSent ==
  pc["comprobador"] \in Starting \cup {"open_queue"} =>
    /\ inbox = 0 /\ monitor_up = 0 /\ sent = <<>>
    /\ \A q \in 1 .. MaxQueues : queues[q] = <<>>
    /\ \A w \in Winners : pc[w] \in {"idle", "check"}

OrderInv == TypeInv /\ SemInv /\ NothingSent /\ FifoInv

(* What the counts are made of is made of numbers.                          *)
LEMMA CountTypes ==
  ASSUME TypeInv
  PROVE  /\ Content \in Seq(1 .. MaxBlocks) /\ Len(Content) \in Nat
         /\ sent \in Seq(1 .. MaxBlocks) /\ Len(sent) \in Nat
         /\ printed \in Seq(0 .. MaxBlocks) /\ Len(printed) \in Nat
         /\ InHand \in {0, 1} /\ Unread \in Nat /\ Written \in Int /\ Taken \in Int
  <1>1. Content \in Seq(1 .. MaxBlocks)
    <2> DEFINE Contents == Seq(1 .. MaxBlocks)
    <2>1. queues \in [1 .. MaxQueues -> Contents] /\ inbox \in 0 .. MaxQueues
      BY DEF TypeInv, QueueInv
    <2>2. <<>> \in Contents
      OBVIOUS
    <2> HIDE DEF Contents
    <2>3. Content \in Contents
      BY <2>1, <2>2, RingAssumption DEF Content
    <2> QED BY <2>3 DEF Contents
  <1>2. sent \in Seq(1 .. MaxBlocks) /\ printed \in Seq(0 .. MaxBlocks)
    BY DEF TypeInv, QueueInv, ScreenInv
  <1>3. Len(Content) \in Nat /\ Len(sent) \in Nat /\ Len(printed) \in Nat
    BY <1>1, <1>2
  <1>4. InHand \in {0, 1} /\ Unread \in Nat
    BY DEF InHand, Unread, One, TypeInv, RingInv
  <1> QED BY <1>1, <1>2, <1>3, <1>4 DEF Written, Taken

LEMMA OrderInit == Init => NothingSent /\ FifoInv
  <1> SUFFICES ASSUME Init PROVE NothingSent /\ Fifo
    BY DEF FifoInv
  <1>1. /\ sent = <<>> /\ printed = <<>> /\ gym_fill = 0 /\ Content = <<>>
        /\ reading = Passed % Wrap /\ writing = Passed % Wrap
    BY RingAssumption DEF Init, Content
  <1>2. /\ pc["comprobador"] \in {"create", "loop"} /\ pc["monitor"] \in {"open", "loop"}
    BY DEF Init, Procs
  <1>3. InHand = 0 /\ Unread = 0 /\ ~Showing /\ ~Over
    BY <1>1, <1>2 DEF InHand, Unread, One, Showing, Over
  <1>4. Written = 0 /\ Taken = 0
    BY <1>1, <1>3 DEF Written, Taken
  <1>5. Fifo
    BY <1>1, <1>3, <1>4, RingAssumption DEF Fifo
  <1>6. NothingSent
    <2>1. CASE Passed = 0
      BY <2>1, RingAssumption DEF Init, NothingSent, Procs
    <2>2. CASE Passed # 0
      <3>1. pc["comprobador"] = "loop"
        BY <2>2 DEF Init, Procs
      <3> QED BY <3>1 DEF NothingSent, Starting
    <2> QED BY <2>1, <2>2
  <1> QED BY <1>5, <1>6

(* A step that moves no block.                                              *)
LEMMA FifoStays ==
  ASSUME TypeInv, Fifo,
         UNCHANGED <<sent, printed, Content, InHand, Unread, writing, reading, blocks>>,
         Showing' => Showing /\ UNCHANGED read_block,
         (~Showing' /\ ~Over') => ~Showing /\ ~Over,
         InHand = 1 => UNCHANGED msg
  PROVE  Fifo'
  <1>1. UNCHANGED <<Written, Taken>>
    BY DEF Written, Taken
  <1>2. Over' => Taken \in {Len(printed), Len(printed) + 1}
    BY DEF Fifo
  <1> QED BY <1>1, <1>2 DEF Fifo

LEMMA NothingSentNext ==
  ASSUME TypeInv, NothingSent, [Next]_vars
  PROVE  NothingSent'
  <1> USE DEF ring, sems, queue, flag, locals, signal, seen
  <1> DEFINE Early == Starting \cup {"open_queue"}
  <1> SUFFICES ASSUME pc'["comprobador"] \in Early
               PROVE  /\ inbox' = 0 /\ monitor_up' = 0 /\ sent' = <<>>
                      /\ \A q \in 1 .. MaxQueues : queues'[q] = <<>>
                      /\ \A w \in Winners : pc'[w] \in {"idle", "check"}
    BY DEF NothingSent
  <1> DEFINE Goal == /\ inbox' = 0 /\ monitor_up' = 0 /\ sent' = <<>>
                     /\ \A q \in 1 .. MaxQueues : queues'[q] = <<>>
                     /\ \A w \in Winners : pc'[w] \in {"idle", "check"}
  <1>1. ASSUME UNCHANGED <<inbox, monitor_up, sent, queues>>,
               \A w \in Winners : pc'[w] = pc[w], pc["comprobador"] \in Early
        PROVE  Goal
    BY <1>1 DEF NothingSent
  <1>2. ASSUME NEW w \in Winners, Win(w) \/ Winner(w)
        PROVE  Goal
    <2>1. \E from, to : Goto(w, from, to)
      BY <1>2 DEF Win, Winner, CheckMonitor, OpenForSending, Send, SendFails
    <2>2. pc["comprobador"] \in Early
      BY <2>1, RingAssumption DEF Goto, TypeInv, PcType, Procs
    <2>3. /\ inbox = 0 /\ monitor_up = 0 /\ sent = <<>> /\ \A q \in 1 .. MaxQueues : queues[q] = <<>>
          /\ \A v \in Winners : pc[v] \in {"idle", "check"}
      BY <2>2 DEF NothingSent
    <2>4. Win(w) \/ CheckMonitor(w)
      BY <1>2, <2>3 DEF Winner, OpenForSending, Send, SendFails, Goto
    <2>5. UNCHANGED <<inbox, monitor_up, sent, queues>>
      BY <2>4 DEF Win, CheckMonitor
    <2>6. \E to \in {"idle", "check"} : pc' = [pc EXCEPT ![w] = to]
      BY <2>3, <2>4 DEF Win, CheckMonitor, Goto
    <2>7. \A v \in Winners : pc'[v] \in {"idle", "check"}
      BY <2>3, <2>6 DEF TypeInv, PcType
    <2> QED BY <2>3, <2>5, <2>7
  <1>3. CASE Comprobador
    <2>1. CreateRing
      <3>1. ASSUME NEW from, NEW to \in ComprobadorLabels, Goto("comprobador", from, to)
            PROVE  to \in Early
        BY <3>1, ComprobadorMoves DEF TypeInv
      <3> HIDE DEF Early
      <3>2. \A to \in { "find_system", "loop", "receive", "empty_wait", "mutex_wait", "write",
                        "mutex_post", "fill_post", "lower", "wait_child", "done" } :
              to \notin Early /\ to \in ComprobadorLabels
        BY DEF Early, Starting, ComprobadorLabels
      <3>3. ~OpenForReceiving /\ ~NotifyUp /\ ~NotifyDown /\ ~ReapChild
        BY <3>1, <3>2 DEF OpenForReceiving, NotifyUp, NotifyDown, ReapChild, Leave
      <3>4. ~Loop("comprobador", "receive", "lower") /\ ~Receive /\ ~EmptyWait /\ ~Write /\ ~FillPost
        BY <3>1, <3>2 DEF Loop, Receive, EmptyWait, Write, FillPost
      <3>5. ~MutexWait("comprobador") /\ ~MutexPost("comprobador")
        BY <3>1, <3>2, MutexRows
      <3> QED BY <1>3, <3>3, <3>4, <3>5 DEF Comprobador
    <2>2. \E from \in Starting : \E to : Goto("comprobador", from, to)
      BY <2>1 DEF CreateRing, Starting
    <2>3. pc["comprobador"] \in Early /\ \A w \in Winners : pc'[w] = pc[w]
      BY <2>2, RingAssumption DEF Goto, TypeInv, PcType, Procs
    <2> QED BY <1>1, <2>1, <2>3 DEF CreateRing
  <1>4. CASE Monitor
    <2>1. PICK from, to \in MonitorLabels : Goto("monitor", from, to)
      BY <1>4, MutexRows DEF Monitor, OpenRing, WaitTooEarly, CountUser, Loop, FillWait, Read,
            EmptyPost, PrintBlock, Leave, MonitorLabels
    <2>2. pc'["comprobador"] = pc["comprobador"] /\ \A w \in Winners : pc'[w] = pc[w]
      BY <2>1, MonitorMoves DEF TypeInv
    <2>3. UNCHANGED <<inbox, monitor_up, sent, queues>>
      BY <1>4 DEF Monitor, OpenRing, WaitTooEarly, CountUser, Loop, FillWait, MutexWait, Read,
            MutexPost, EmptyPost, PrintBlock, Leave
    <2> QED BY <1>1, <2>2, <2>3
  <1>5. CASE Signalled
    <2>1. UNCHANGED <<inbox, monitor_up, sent, queues>>
      BY <1>5 DEF Signalled, Deliver, Handle, InterruptSemWait, InterruptReceive, InterruptSleep,
                  InterruptReap
    <2>2. UNCHANGED pc \/ \E p \in Procs : \E from, to : Goto(p, from, to)
      BY <1>5 DEF Signalled, Deliver, InterruptSemWait, InterruptReceive, InterruptSleep,
                  InterruptReap, Procs
    <2>3. \A w \in Winners : pc'[w] = pc[w]
      BY <2>2, RingAssumption DEF Goto, TypeInv, PcType
    <2>4. pc["comprobador"] \in Early
      <3>1. CASE \E p \in Procs : Deliver(p)
        BY <3>1 DEF Deliver
      <3>2. CASE InterruptSemWait("comprobador")
        BY <3>2, InterruptRows DEF Goto, TypeInv, PcType, Procs, Starting
      <3>3. CASE InterruptSemWait("monitor")
        BY <3>3, InterruptRows DEF Goto, TypeInv, PcType, Procs
      <3>4. CASE InterruptReceive \/ InterruptSleep \/ InterruptReap
        BY <3>4 DEF InterruptReceive, InterruptSleep, InterruptReap, Goto, TypeInv, PcType, Procs,
                    Starting
      <3> QED BY <1>5, <3>1, <3>2, <3>3, <3>4 DEF Signalled, Procs
    <2> QED BY <1>1, <2>1, <2>3, <2>4
  <1>6. CASE SystemAppears \/ (\E to \in SUBSET Procs \ {{}} : Interrupt(to)) \/ UNCHANGED vars
    BY <1>1, <1>6 DEF SystemAppears, Interrupt, vars
  <1> QED BY <1>2, <1>3, <1>4, <1>5, <1>6 DEF Next

(* A block of the ring is read before its slot is used again.               *)
LEMMA SlotApart ==
  ASSUME NEW taken \in Nat, NEW k \in Nat, NEW written \in Nat,
         taken + 1 <= k, k <= written, written - taken <= BUFFER_LENGTH - 1
  PROVE  (Passed + k - 1) % BUFFER_LENGTH # (Passed + written) % BUFFER_LENGTH
  <1> DEFINE m == Passed + k - 1
             n == Passed + written
  <1>1. m \in Nat /\ n \in Nat /\ m < n /\ n < m + BUFFER_LENGTH
    BY RingAssumption
  <1> HIDE DEF m, n
  <1>2. m % BUFFER_LENGTH # n % BUFFER_LENGTH
    BY <1>1, ModApart, RingAssumption
  <1> QED BY <1>2 DEF m, n

(* All the counts are natural numbers.                                      *)
LEMMA FifoCounts ==
  ASSUME TypeInv, Fifo
  PROVE  /\ Taken \in Nat /\ Written \in Nat /\ Taken <= Written
         /\ Written + InHand + Len(Content) = Len(sent)
         /\ Len(printed) <= Taken
  <1>1. Taken \in {Len(printed), Len(printed) + 1}
    BY CountTypes DEF Fifo
  <1> QED BY <1>1, CountTypes DEF Written, Taken

(* A winner's message.                                                      *)
LEMMA FifoWinner ==
  ASSUME TypeInv, Fifo, NEW w \in Winners, Win(w) \/ Winner(w)
  PROVE  Fifo'
  <1> USE DEF ring, sems, queue, flag, locals, signal, seen
  <1>1. UNCHANGED <<pc["comprobador"], pc["monitor"], inbox, gym_fill, printed, writing, reading,
                    blocks, msg, read_block>>
    <2>1. \E from, to : Goto(w, from, to)
      BY DEF Win, Winner, CheckMonitor, OpenForSending, Send, SendFails
    <2>2. UNCHANGED <<pc["comprobador"], pc["monitor"]>>
      BY <2>1, RingAssumption DEF Goto, TypeInv, PcType, Procs
    <2> QED BY <2>2 DEF Win, Winner, CheckMonitor, OpenForSending, Send, SendFails
  <1>2. UNCHANGED <<InHand, Unread, Showing, Over>>
    BY <1>1 DEF InHand, Unread, Showing, Over
  <1>3. CASE UNCHANGED <<queues, sent>>
    <2>1. UNCHANGED Content
      BY <1>1, <1>3 DEF Content
    <2> QED BY <1>1, <1>2, <1>3, <2>1, FifoStays
  <1>4. CASE Send(w) /\ mq[w] # inbox
    <2>1. queues' = [queues EXCEPT ![mq[w]] = Append(@, current[w])] /\ sent' = sent
      BY <1>4 DEF Send
    <2>2. UNCHANGED Content
      BY <1>1, <1>4, <2>1 DEF Content, TypeInv, QueueInv
    <2> QED BY <1>1, <1>2, <2>1, <2>2, FifoStays
  <1>5. CASE Send(w) /\ mq[w] = inbox
    <2> DEFINE b == current[w]
    <2>1. sent' = Append(sent, b) /\ queues' = [queues EXCEPT ![inbox] = Append(@, b)]
      BY <1>5 DEF Send
    <2>2. mq[w] \in 1 .. MaxQueues
      BY <1>5 DEF Send, Goto, TypeInv, WinnerInv
    <2>3. Content' = Append(Content, b)
      BY <1>1, <1>5, <2>1, <2>2, RingAssumption DEF Content, TypeInv, QueueInv
    <2> HIDE DEF b
    <2>4. /\ Len(sent') = Len(sent) + 1 /\ \A i \in 1 .. Len(sent) : sent'[i] = sent[i]
          /\ sent'[Len(sent) + 1] = b
      BY <2>1, CountTypes
    <2>5. /\ Len(Content') = Len(Content) + 1
          /\ \A i \in 1 .. Len(Content) : Content'[i] = Content[i]
          /\ Content'[Len(Content) + 1] = b
      BY <2>3, CountTypes
    <2>6. Written' = Written /\ Taken' = Taken
      BY <1>2, <2>4, <2>5, CountTypes DEF Written, Taken
    <2>7. /\ Taken \in Nat /\ Written \in Nat /\ Taken <= Written /\ InHand \in {0, 1}
          /\ Written + InHand + Len(Content) = Len(sent)
          /\ Len(printed) <= Taken /\ Len(Content) \in Nat /\ Len(sent) \in Nat
          /\ Len(printed) \in Nat
      BY FifoCounts, CountTypes
    <2>8. /\ writing' = (Passed + Written') % Wrap /\ reading' = (Passed + Taken') % Wrap
          /\ Over' => Taken' \in {Len(printed'), Len(printed') + 1}
          /\ ~Showing' /\ ~Over' => Taken' = Len(printed')
      BY <1>1, <1>2, <2>6 DEF Fifo
    <2>9. Showing' => Taken' = Len(printed') + 1 /\ read_block' = sent'[Taken']
      BY <1>1, <1>2, <2>4, <2>6, <2>7 DEF Fifo
    <2>10. /\ \A i \in 1 .. Len(printed') : printed'[i] = sent'[i]
           /\ \A k \in Taken' + 1 .. Written' :
                 blocks'[(Passed + k - 1) % BUFFER_LENGTH] = sent'[k]
      <3>1. ASSUME NEW i \in 1 .. Len(printed)
            PROVE  printed[i] = sent'[i]
        <4>1. printed[i] = sent[i]
          BY DEF Fifo
        <4>2. i \in 1 .. Len(sent)
          BY <2>7
        <4> QED BY <2>4, <4>1, <4>2
      <3>2. ASSUME NEW k \in Taken + 1 .. Written
            PROVE  blocks[(Passed + k - 1) % BUFFER_LENGTH] = sent'[k]
        <4>1. blocks[(Passed + k - 1) % BUFFER_LENGTH] = sent[k]
          BY DEF Fifo
        <4>2. k \in 1 .. Len(sent)
          BY <2>7
        <4> QED BY <2>4, <4>1, <4>2
      <3> QED BY <1>1, <2>6, <3>1, <3>2
    <2>11. InHand' = 1 => msg' = sent'[Written' + 1]
      BY <1>1, <1>2, <2>4, <2>6, <2>7 DEF Fifo
    <2>12. \A j \in 1 .. Len(Content') : Content'[j] = sent'[Written' + InHand' + j]
      <3> SUFFICES ASSUME NEW j \in 1 .. Len(Content')
                   PROVE  Content'[j] = sent'[Written + InHand + j]
        BY <1>2, <2>6
      <3>1. CASE j = Len(Content) + 1
        <4>1. Written + InHand + j = Len(sent) + 1
          BY <2>7, <3>1
        <4> QED BY <2>4, <2>5, <3>1, <4>1
      <3>2. CASE j \in 1 .. Len(Content)
        <4>1. Content[j] = sent[Written + InHand + j]
          BY <3>2 DEF Fifo
        <4>2. Written + InHand + j \in 1 .. Len(sent)
          BY <2>7, <3>2
        <4> QED BY <2>4, <2>5, <3>2, <4>1, <4>2
      <3> QED BY <2>5, <2>7, <3>1, <3>2
    <2> QED BY <2>8, <2>9, <2>10, <2>11, <2>12 DEF Fifo
  <1> QED BY <1>3, <1>4, <1>5 DEF Win, Winner, CheckMonitor, OpenForSending, Send, SendFails

(* mq_receive: the oldest message is in hand.                               *)
LEMMA FifoReceive ==
  ASSUME TypeInv, Fifo, Receive
  PROVE  Fifo'
  <1> USE DEF ring, sems, queue, flag, locals, signal, seen
  <1>1. /\ pc["comprobador"] = "receive" /\ pc'["comprobador"] = "empty_wait"
        /\ pc'["monitor"] = pc["monitor"]
    BY ComprobadorMoves DEF Receive, Goto, TypeInv, ComprobadorLabels
  <1>2. /\ UNCHANGED <<inbox, gym_fill, printed, sent, writing, reading, blocks, read_block>>
        /\ queues[inbox] # <<>> /\ msg' = Head(queues[inbox])
        /\ queues' = [queues EXCEPT ![inbox] = Tail(@)]
    BY DEF Receive
  <1>3. inbox \in 1 .. MaxQueues
    BY <1>1, RingAssumption DEF TypeInv, QueueInv, Starting
  <1>4. Content # <<>> /\ Content' = Tail(Content) /\ msg' = Head(Content)
    BY <1>2, <1>3 DEF Content, TypeInv, QueueInv
  <1>5. /\ Len(Content) \in Nat \ {0} /\ Len(Content') = Len(Content) - 1
        /\ msg' = Content[1] /\ \A j \in 1 .. Len(Content') : Content'[j] = Content[j + 1]
    BY <1>4, CountTypes
  <1>6. InHand = 0 /\ InHand' = 1 /\ UNCHANGED <<Unread, Showing, Over>>
    BY <1>1, <1>2 DEF InHand, Unread, Showing, Over, One
  <1>7. UNCHANGED <<Written, Taken>>
    BY <1>2, <1>5, <1>6, CountTypes DEF Written, Taken
  <1>8. \A j \in 1 .. Len(Content) : Content[j] = sent[Written + j]
    BY <1>6, CountTypes DEF Fifo
  <1>9. msg' = sent[Written + 1]
    BY <1>5, <1>8
  <1>10. \A j \in 1 .. Len(Content') : Content'[j] = sent[Written + 1 + j]
    <2> TAKE j \in 1 .. Len(Content')
    <2>1. j + 1 \in 1 .. Len(Content) /\ Written + (j + 1) = Written + 1 + j
      BY <1>5, CountTypes
    <2> QED BY <1>5, <1>8, <2>1
  <1> QED BY <1>2, <1>6, <1>7, <1>9, <1>10 DEF Fifo

(* blocks[index] = msg: the slot holds no block that is still to be read.   *)
LEMMA FifoWrite ==
  ASSUME TypeInv, SlotsAccounted, ~interrupted, InStep, Fifo, Write
  PROVE  Fifo'
  <1> USE DEF ring, sems, queue, flag, locals, signal, seen
  <1>1. /\ pc["comprobador"] = "write" /\ pc'["comprobador"] = "mutex_post"
        /\ pc'["monitor"] = pc["monitor"]
    BY ComprobadorMoves DEF Write, Goto, TypeInv, ComprobadorLabels
  <1>2. /\ UNCHANGED <<gym_fill, gym_empty, printed, sent, reading, read_block, Content>>
        /\ blocks' = [blocks EXCEPT ![Index(writing)] = msg] /\ writing' = Incremented(writing)
    BY DEF Write, Content
  <1>3. InHand = 1 /\ InHand' = 0 /\ Unread' = Unread + 1 /\ UNCHANGED <<Showing, Over>>
    BY <1>1, <1>2, CountTypes DEF InHand, Unread, Showing, Over, One, TypeInv, RingInv
  <1>4. Written' = Written + 1 /\ Taken' = Taken
    BY <1>2, <1>3, CountTypes DEF Written, Taken
  <1>5. /\ Taken \in Nat /\ Written \in Nat /\ Taken <= Written /\ Len(printed) <= Taken
        /\ Written + 1 <= Len(sent)
    BY <1>3, FifoCounts, CountTypes
  <1>6. Written - Taken <= BUFFER_LENGTH - 1
    <2>1. gym_empty + gym_fill + Tokens = BUFFER_LENGTH
      BY <1>1 DEF SlotsAccounted, Ready
    <2>2. Unread <= BUFFER_LENGTH - 1
      BY <1>1, <2>1, RingAssumption DEF Tokens, Unread, One, TypeInv, RingInv
    <2> QED BY <2>2, CountTypes DEF Taken
  <1>7. Index(writing) = (Passed + Written) % BUFFER_LENGTH
    <2>1. Written \in 0 .. Len(sent) - 1
      BY <1>5, CountTypes
    <2> QED BY <2>1 DEF Fifo, InStep
  <1>8. writing' = (Passed + Written') % Wrap
    <2>1. writing' = (((Passed + Written) % Wrap) + 1) % Wrap
      BY <1>2 DEF Fifo, Incremented
    <2>2. Passed + Written \in Nat /\ Passed + Written + 1 = Passed + (Written + 1)
      BY <1>5, RingAssumption
    <2> QED BY <1>4, <2>1, <2>2, ModSuccessor, RingAssumption
  <1>9. \A k \in Taken' + 1 .. Written' : blocks'[(Passed + k - 1) % BUFFER_LENGTH] = sent'[k]
    <2> SUFFICES ASSUME NEW k \in Taken + 1 .. Written + 1
                 PROVE  blocks'[(Passed + k - 1) % BUFFER_LENGTH] = sent[k]
      BY <1>2, <1>4
    <2>1. /\ (Passed + k - 1) % BUFFER_LENGTH \in Indices
          /\ (Passed + Written) % BUFFER_LENGTH \in Indices
      BY <1>5, RingAssumption DEF Indices
    <2>2. blocks \in [Indices -> 0 .. MaxBlocks]
      BY DEF TypeInv, RingInv
    <2>3. CASE k = Written + 1
      <3>1. Passed + k - 1 = Passed + Written
        BY <1>5, <2>3, RingAssumption
      <3>2. msg = sent[Written + 1]
        BY <1>3 DEF Fifo
      <3> QED BY <1>2, <1>7, <2>1, <2>2, <2>3, <3>1, <3>2
    <2>4. CASE k # Written + 1
      <3>1. k \in Taken + 1 .. Written
        BY <1>5, <2>4
      <3>2. (Passed + k - 1) % BUFFER_LENGTH # (Passed + Written) % BUFFER_LENGTH
        BY <1>5, <1>6, <3>1, SlotApart
      <3>3. blocks[(Passed + k - 1) % BUFFER_LENGTH] = sent[k]
        BY <3>1 DEF Fifo
      <3> QED BY <1>2, <1>7, <2>1, <2>2, <3>2, <3>3
    <2> QED BY <2>3, <2>4
  <1>10. \A j \in 1 .. Len(Content') : Content'[j] = sent'[Written' + InHand' + j]
    <2>1. Written' + InHand' = Written + InHand
      BY <1>3, <1>4, <1>5
    <2> QED BY <1>2, <2>1 DEF Fifo
  <1>11. reading' = (Passed + Taken') % Wrap
    BY <1>2, <1>4 DEF Fifo
  <1>12. /\ Showing' => Taken' = Len(printed') + 1 /\ read_block' = sent'[Taken']
         /\ Over' => Taken' \in {Len(printed'), Len(printed') + 1}
         /\ ~Showing' /\ ~Over' => Taken' = Len(printed')
         /\ \A i \in 1 .. Len(printed') : printed'[i] = sent'[i]
    BY <1>2, <1>3, <1>4 DEF Fifo
  <1> QED BY <1>3, <1>8, <1>9, <1>10, <1>11, <1>12 DEF Fifo

(* read_block = blocks[aux]: it is the oldest one.                          *)
LEMMA FifoRead ==
  ASSUME TypeInv, InStep, Fifo, Read
  PROVE  Fifo'
  <1> USE DEF ring, sems, queue, flag, locals, signal, seen
  <1>1. /\ pc["monitor"] = "read" /\ pc'["monitor"] = "mutex_post"
        /\ pc'["comprobador"] = pc["comprobador"]
    BY MonitorMoves DEF Read, Goto, TypeInv, MonitorLabels
  <1>2. /\ UNCHANGED <<gym_fill, printed, sent, writing, blocks, msg, Content>>
        /\ read_block' = blocks[Index(reading)] /\ reading' = Incremented(reading)
    BY DEF Read, Content
  <1>3. /\ UNCHANGED InHand /\ Unread \in Nat \ {0} /\ Unread' = Unread - 1
        /\ Showing' /\ ~Showing /\ ~Over /\ ~Over'
    BY <1>1, <1>2 DEF InHand, Unread, Showing, Over, One, TypeInv, RingInv
  <1>4. Written' = Written /\ Taken' = Taken + 1
    BY <1>2, <1>3, CountTypes DEF Written, Taken
  <1>5. Taken \in Nat /\ Written \in Nat /\ Taken + 1 <= Written /\ Written <= Len(sent)
    BY <1>3, FifoCounts, CountTypes DEF Taken
  <1>6. Index(reading) = (Passed + Taken) % BUFFER_LENGTH
    <2>1. Taken \in 0 .. Len(sent) - 1
      BY <1>5, CountTypes
    <2> QED BY <2>1 DEF Fifo, InStep
  <1>7. reading' = (Passed + Taken') % Wrap
    <2>1. reading' = (((Passed + Taken) % Wrap) + 1) % Wrap
      BY <1>2 DEF Fifo, Incremented
    <2>2. Passed + Taken \in Nat /\ Passed + Taken + 1 = Passed + (Taken + 1)
      BY <1>5, RingAssumption
    <2> QED BY <1>4, <2>1, <2>2, ModSuccessor, RingAssumption
  <1>8. read_block' = sent[Taken + 1]
    <2>1. Taken + 1 \in Taken + 1 .. Written /\ Passed + (Taken + 1) - 1 = Passed + Taken
      BY <1>5, RingAssumption
    <2> QED BY <1>2, <1>6, <2>1 DEF Fifo
  <1>9. Taken = Len(printed)
    BY <1>3 DEF Fifo
  <1>10. \A k \in Taken' + 1 .. Written' : blocks'[(Passed + k - 1) % BUFFER_LENGTH] = sent'[k]
    <2>1. \A k \in Taken' + 1 .. Written' : k \in Taken + 1 .. Written
      BY <1>4, <1>5
    <2> QED BY <1>2, <2>1 DEF Fifo
  <1>11. /\ writing' = (Passed + Written') % Wrap
         /\ \A i \in 1 .. Len(printed') : printed'[i] = sent'[i]
         /\ InHand' = 1 => msg' = sent'[Written' + 1]
         /\ \A j \in 1 .. Len(Content') : Content'[j] = sent'[Written' + InHand' + j]
    BY <1>2, <1>3, <1>4 DEF Fifo
  <1>12. Taken' = Len(printed') + 1 /\ read_block' = sent'[Taken']
    BY <1>2, <1>4, <1>8, <1>9
  <1> QED BY <1>3, <1>7, <1>10, <1>11, <1>12 DEF Fifo

(* The block is printed, or the monitor leaves with it.                     *)
LEMMA FifoPrint ==
  ASSUME TypeInv, Fifo, PrintBlock
  PROVE  Fifo'
  <1> USE DEF ring, sems, queue, flag, locals, signal, seen
  <1>1. UNCHANGED <<gym_fill, sent, writing, reading, blocks, msg, read_block, Content>>
    BY DEF PrintBlock, Content
  <1>2. pc["monitor"] = "print" /\ pc'["comprobador"] = pc["comprobador"]
    BY MonitorMoves DEF PrintBlock, Goto, TypeInv, MonitorLabels
  <1>3. pc'["monitor"] \in {"loop", "leave"}
    BY MonitorMoves DEF PrintBlock, TypeInv, MonitorLabels
  <1>4. UNCHANGED <<InHand, Unread, Written, Taken>> /\ Showing /\ ~Showing'
    BY <1>1, <1>2, <1>3 DEF InHand, Unread, Written, Taken, Showing
  <1>5. /\ Taken = Len(printed) + 1 /\ read_block = sent[Taken]
        /\ \A i \in 1 .. Len(printed) : printed[i] = sent[i]
    BY <1>4 DEF Fifo
  <1>6. /\ Over' => Taken' \in {Len(printed'), Len(printed') + 1}
        /\ ~Over' => Taken' = Len(printed')
        /\ \A i \in 1 .. Len(printed') : printed'[i] = sent[i]
    <2>1. CASE Goto("monitor", "print", "leave") /\ UNCHANGED printed
      <3>1. Over'
        BY <2>1, MonitorMoves DEF TypeInv, MonitorLabels, Over
      <3> QED BY <1>4, <1>5, <2>1, <3>1
    <2>2. CASE Goto("monitor", "print", "loop") /\ printed' = Append(printed, read_block)
      <3>1. ~Over'
        BY <2>2, MonitorMoves DEF TypeInv, MonitorLabels, Over
      <3>2. /\ Len(printed') = Len(printed) + 1 /\ printed'[Len(printed) + 1] = read_block
            /\ \A i \in 1 .. Len(printed) : printed'[i] = printed[i]
        BY <2>2, CountTypes, RingAssumption DEF TypeInv, RingInv
      <3>3. \A i \in 1 .. Len(printed') : i = Len(printed) + 1 \/ i \in 1 .. Len(printed)
        BY <3>2, CountTypes
      <3> QED BY <1>4, <1>5, <3>1, <3>2, <3>3
    <2> QED BY <2>1, <2>2 DEF PrintBlock
  <1>7. /\ writing' = (Passed + Written') % Wrap /\ reading' = (Passed + Taken') % Wrap
        /\ \A k \in Taken' + 1 .. Written' : blocks'[(Passed + k - 1) % BUFFER_LENGTH] = sent'[k]
        /\ InHand' = 1 => msg' = sent'[Written' + 1]
        /\ \A j \in 1 .. Len(Content') : Content'[j] = sent'[Written' + InHand' + j]
    BY <1>1, <1>4 DEF Fifo
  <1> QED BY <1>1, <1>4, <1>6, <1>7 DEF Fifo

(* The comprobador's other steps move no block.                             *)
LEMMA FifoComprobador ==
  ASSUME TypeInv, SemInv, ~interrupted, InStep, NothingSent, NothingSent', Fifo, Comprobador
  PROVE  Fifo'
  <1> USE DEF ring, sems, queue, flag, locals, signal, seen
  <1>1. CASE Receive
    BY <1>1, FifoReceive
  <1>2. CASE Write
    BY <1>2, FifoWrite DEF SemInv
  <1>3. ASSUME NEW from, NEW to, Goto("comprobador", from, to)
        PROVE  pc["comprobador"] = from /\ pc'["comprobador"] = to /\ pc'["monitor"] = pc["monitor"]
    BY <1>3 DEF Goto, TypeInv, PcType, Procs
  <1>4. ASSUME UNCHANGED <<sent, printed, Content, writing, reading, blocks, msg, read_block>>,
               UNCHANGED <<InHand, Unread, pc["monitor"]>>
        PROVE  Fifo'
    BY <1>4, FifoStays DEF Showing, Over
  <1>5. CASE CreateRing
    <2>1. /\ UNCHANGED <<sent, printed, Content, writing, reading, blocks, msg, read_block>>
          /\ pc["comprobador"] \in Starting /\ pc'["comprobador"] \in Starting \cup {"open_queue"}
          /\ UNCHANGED pc["monitor"] /\ gym_fill' \in {gym_fill, 0}
      BY <1>3, <1>5 DEF CreateRing, Content, Starting
    <2>2. gym_fill = 0
      BY <2>1 DEF SemInv, EarlyInv, UnfilledInv, BeforeMutex, Starting
    <2>3. UNCHANGED <<InHand, Unread>>
      BY <2>1, <2>2 DEF InHand, Unread, Starting, One
    <2> QED BY <1>4, <2>1, <2>3
  <1>6. CASE OpenForReceiving
    <2>1. /\ UNCHANGED <<sent, printed, writing, reading, blocks, msg, read_block, queues, gym_fill>>
          /\ pc["comprobador"] = "open_queue" /\ pc'["comprobador"] = "find_system"
          /\ UNCHANGED pc["monitor"] /\ inbox' \in 1 .. MaxQueues
      BY <1>3, <1>6 DEF OpenForReceiving
    <2>2. inbox = 0 /\ \A q \in 1 .. MaxQueues : queues[q] = <<>>
      BY <2>1 DEF NothingSent
    <2>3. UNCHANGED Content
      BY <2>1, <2>2, RingAssumption DEF Content
    <2>4. UNCHANGED <<InHand, Unread>>
      BY <2>1 DEF InHand, Unread
    <2> QED BY <1>4, <2>1, <2>3, <2>4
  <1>7. CASE NotifyUp \/ NotifyDown \/ ReapChild \/ Loop("comprobador", "receive", "lower")
    <2>1. UNCHANGED <<sent, printed, Content, writing, reading, blocks, msg, read_block, gym_fill>>
      BY <1>7 DEF NotifyUp, NotifyDown, ReapChild, Leave, Loop, Content
    <2>2. /\ {pc["comprobador"], pc'["comprobador"]} \subseteq
                 {"find_system", "loop", "lower", "wait_child", "receive", "done"}
          /\ UNCHANGED pc["monitor"]
      BY <1>3, <1>7 DEF NotifyUp, NotifyDown, ReapChild, Leave, Loop
    <2>3. UNCHANGED <<InHand, Unread>>
      BY <2>1, <2>2 DEF InHand, Unread, One
    <2> QED BY <1>4, <2>1, <2>2, <2>3
  <1>8. CASE EmptyWait \/ FillPost \/ MutexWait("comprobador") \/ MutexPost("comprobador")
    <2>1. UNCHANGED <<sent, printed, Content, writing, reading, blocks, msg, read_block>>
      BY <1>8 DEF EmptyWait, FillPost, MutexWait, MutexPost, Content
    <2>2. UNCHANGED pc["monitor"]
      BY <1>3, <1>8, MutexRows DEF EmptyWait, FillPost
    <2>3. \/ /\ pc["comprobador"] = "empty_wait" /\ pc'["comprobador"] = "mutex_wait"
             /\ UNCHANGED gym_fill
          \/ /\ pc["comprobador"] = "mutex_wait" /\ pc'["comprobador"] = "write"
             /\ UNCHANGED gym_fill
          \/ /\ pc["comprobador"] = "mutex_post" /\ pc'["comprobador"] = "fill_post"
             /\ UNCHANGED gym_fill
          \/ /\ pc["comprobador"] = "fill_post" /\ pc'["comprobador"] = "loop"
             /\ gym_fill' = gym_fill + 1
      BY <1>3, <1>8, MutexRows DEF EmptyWait, FillPost, MutexWait, MutexPost
    <2>4. UNCHANGED <<InHand, Unread>>
      BY <2>2, <2>3 DEF InHand, Unread, One, TypeInv, RingInv
    <2> QED BY <1>4, <2>1, <2>2, <2>4
  <1> QED BY <1>1, <1>2, <1>5, <1>6, <1>7, <1>8 DEF Comprobador

LEMMA FifoMonitor ==
  ASSUME TypeInv, InStep, Fifo, Monitor
  PROVE  Fifo'
  <1> USE DEF ring, sems, queue, flag, locals, signal, seen
  <1>1. CASE Read
    BY <1>1, FifoRead
  <1>2. CASE PrintBlock
    BY <1>2, FifoPrint
  <1>3. CASE ~Read /\ ~PrintBlock
    <2>1. UNCHANGED <<sent, printed, Content, writing, reading, blocks, msg, read_block>>
      BY <1>3 DEF Monitor, OpenRing, WaitTooEarly, CountUser, Loop, FillWait, MutexWait, MutexPost,
            EmptyPost, Leave, Content
    <2>2. ASSUME NEW from, NEW to, Goto("monitor", from, to)
          PROVE  /\ pc["monitor"] = from /\ pc'["monitor"] = to
                 /\ pc'["comprobador"] = pc["comprobador"]
      BY <2>2 DEF Goto, TypeInv, PcType, Procs
    <2>3. UNCHANGED pc["comprobador"]
      BY <1>3, <2>2, MutexRows DEF Monitor, OpenRing, WaitTooEarly, CountUser, Loop, FillWait,
            EmptyPost, Leave
    <2>4. \/ /\ pc["monitor"] = "fill_wait" /\ pc'["monitor"] = "mutex_wait"
             /\ gym_fill' = gym_fill - 1
          \/ /\ pc["monitor"] = "mutex_wait" /\ pc'["monitor"] = "read" /\ UNCHANGED gym_fill
          \/ /\ pc["monitor"] = "mutex_post" /\ pc'["monitor"] = "empty_post"
             /\ UNCHANGED gym_fill
          \/ /\ pc["monitor"] = "empty_post" /\ pc'["monitor"] = "print" /\ UNCHANGED gym_fill
          \/ /\ pc["monitor"] = "loop" /\ pc'["monitor"] \in {"fill_wait", "leave"}
             /\ UNCHANGED gym_fill
          \/ /\ pc["monitor"] = "leave" /\ pc'["monitor"] = "done" /\ UNCHANGED gym_fill
          \/ /\ {pc["monitor"], pc'["monitor"]} \subseteq
                   { "open", "using_wait", "using", "using_post", "loop", "fill_wait", "killed",
                     "asleep_mutex", "asleep_fill" }
             /\ UNCHANGED gym_fill
      <3>1. CASE OpenRing \/ WaitTooEarly \/ CountUser \/ Loop("monitor", "fill_wait", "leave")
                   \/ FillWait \/ EmptyPost \/ Leave("monitor", "leave")
        BY <2>2, <3>1 DEF OpenRing, WaitTooEarly, CountUser, Loop, FillWait, EmptyPost, Leave
      <3>2. CASE MutexWait("monitor") \/ MutexPost("monitor")
        <4>1. UNCHANGED gym_fill
          BY <3>2 DEF MutexWait, MutexPost
        <4> QED BY <2>2, <3>2, <4>1, MutexRows
      <3> QED BY <1>3, <3>1, <3>2 DEF Monitor
    <2>5. UNCHANGED <<InHand, Unread>>
      BY <2>3, <2>4 DEF InHand, Unread, One, TypeInv, RingInv
    <2>6. (Showing' => Showing) /\ (~Showing' /\ ~Over' => ~Showing /\ ~Over)
      BY <2>4 DEF Showing, Over
    <2> QED BY <2>1, <2>5, <2>6, FifoStays
  <1> QED BY <1>1, <1>2, <1>3

(* A signal that finds a process running moves nothing.                     *)
LEMMA FifoNext ==
  ASSUME TypeInv, SemInv, NothingSent, FifoInv, [Next]_vars
  PROVE  FifoInv'
  <1> SUFFICES ASSUME ~interrupted', InStep' PROVE Fifo'
    BY DEF FifoInv
  <1> USE DEF ring, sems, queue, flag, locals, signal, seen
  <1>1. ~interrupted
    BY CalmBefore
  <1>2. InStep
    <2>1. sent' = sent \/ \E b : sent' = Append(sent, b)
      BY DEF Next, vars, Win, Winner, CheckMonitor, OpenForSending, Send, SendFails, Comprobador,
         CreateRing, OpenForReceiving, NotifyUp, NotifyDown, ReapChild, Leave, Loop, Receive,
         EmptyWait, MutexWait, Write, MutexPost, FillPost, Monitor, OpenRing, WaitTooEarly,
         CountUser, FillWait, Read, EmptyPost, PrintBlock, Signalled, Deliver, Handle,
         InterruptSemWait, InterruptReceive, InterruptSleep, InterruptReap, Interrupt, SystemAppears
    <2>2. Len(sent') >= Len(sent) /\ Len(sent) \in Nat /\ Len(sent') \in Nat
      BY <2>1, CountTypes
    <2> QED BY <2>2 DEF InStep
  <1>3. Fifo
    BY <1>1, <1>2 DEF FifoInv
  <1>4. ASSUME NEW w \in Winners, Win(w) \/ Winner(w)
        PROVE  Fifo'
    BY <1>3, <1>4, FifoWinner
  <1>5. CASE Comprobador
    BY <1>1, <1>2, <1>3, <1>5, FifoComprobador, NothingSentNext
  <1>6. CASE Monitor
    BY <1>2, <1>3, <1>6, FifoMonitor
  <1>7. CASE \/ Signalled \/ SystemAppears \/ UNCHANGED vars
             \/ \E to \in SUBSET Procs \ {{}} : Interrupt(to)
    <2>1. UNCHANGED <<pc, gym_fill, sent, printed, queues, inbox, writing, reading, blocks, msg,
                      read_block>>
      <3>1. CASE Signalled
        <4>1. \E p \in Procs : Deliver(p)
          BY <3>1 DEF Signalled, InterruptSemWait, InterruptReceive, InterruptSleep, InterruptReap
        <4> QED BY <4>1 DEF Deliver, Handle
      <3> QED BY <1>7, <3>1 DEF SystemAppears, Interrupt, vars
    <2>2. UNCHANGED <<InHand, Unread, Content, Showing, Over>>
      BY <2>1 DEF InHand, Unread, Content, Showing, Over
    <2> QED BY <1>3, <2>1, <2>2, FifoStays
  <1> QED BY <1>4, <1>5, <1>6, <1>7 DEF Next

LEMMA OrderAlways == Spec => []OrderInv
  <1>1. Init => OrderInv
    BY TypeInit, SemInit, OrderInit DEF OrderInv
  <1>2. OrderInv /\ [Next]_vars => OrderInv'
    BY TypeNext, SemNext, NothingSentNext, FifoNext DEF OrderInv
  <1> QED BY <1>1, <1>2, PTL DEF Spec

LEMMA InOrder ==
  ASSUME OrderInv, ~interrupted, InStep
  PROVE  NoBlockLost
  <1>1. Fifo /\ printed \in Seq(0 .. MaxBlocks)
    BY CountTypes DEF OrderInv, FifoInv
  <1>2. DOMAIN printed = 1 .. Len(printed)
    BY <1>1
  <1> QED BY <1>1, <1>2 DEF NoBlockLost, Fifo

(* "It is guaranteed that no block is lost": true, as long as no wait was   *)
(* interrupted, while the byte counters of the ring have not wrapped.       *)
THEOREM NothingLostBeforeWrap ==
  Spec => [](~interrupted /\ Passed + Len(sent) <= Wrap => NoBlockLost)
  <1>1. OrderInv => (~interrupted /\ Passed + Len(sent) <= Wrap => NoBlockLost)
    <2> SUFFICES ASSUME OrderInv, ~interrupted, Passed + Len(sent) <= Wrap
                 PROVE  NoBlockLost
      OBVIOUS
    <2>1. ASSUME NEW n \in 0 .. Len(sent) - 1
          PROVE  (Passed + n) % Wrap = Passed + n
      <3> DEFINE m == Passed + n
      <3>1. m \in 0 .. Wrap - 1
        BY CountTypes, RingAssumption DEF OrderInv
      <3> HIDE DEF m
      <3>2. m % Wrap = m
        BY <3>1, ModSmall, RingAssumption
      <3> QED BY <3>2 DEF m
    <2>2. InStep
      BY <2>1 DEF InStep, Index
    <2> QED BY <2>2, InOrder
  <1> QED BY <1>1, OrderAlways, PTL

(* It would be true for good if the ring's size divided the 256 values of   *)
(* the counters: 10 does not, a ring of 8 or 16 slots would.                *)
THEOREM NothingLostIfSizeDivides ==
  Wrap % BUFFER_LENGTH = 0 /\ Spec => [](~interrupted => NoBlockLost)
  <1> SUFFICES ASSUME Wrap % BUFFER_LENGTH = 0
               PROVE  Spec => [](~interrupted => NoBlockLost)
    OBVIOUS
  <1>1. OrderInv => (~interrupted => NoBlockLost)
    <2> SUFFICES ASSUME OrderInv, ~interrupted PROVE NoBlockLost
      OBVIOUS
    <2>1. ASSUME NEW n \in 0 .. Len(sent) - 1
          PROVE  ((Passed + n) % Wrap) % BUFFER_LENGTH = (Passed + n) % BUFFER_LENGTH
      <3>1. Passed + n \in Nat
        BY RingAssumption
      <3> QED BY <3>1, ModOfMultiple, RingAssumption
    <2>2. InStep
      BY <2>1 DEF InStep, Index
    <2> QED BY <2>2, InOrder
  <1> QED BY <1>1, OrderAlways, PTL

-----------------------------------------------------------------------------
(* The channel.                                                             *)

(* Nobody presses Ctrl-C.                                                   *)
CalmInv == ints = 0 /\ ~interrupted /\ \A p \in Procs : ~sigint[p]

LEMMA CalmNext ==
  ASSUME MaxInts = 0, CalmInv, [Next]_vars
  PROVE  CalmInv'
  BY DEF CalmInv, Procs, Next, vars, ring, sems, queue, flag, locals, signal, seen, Win, Winner,
         CheckMonitor, OpenForSending, Send, SendFails, Comprobador, CreateRing, OpenForReceiving,
         NotifyUp, NotifyDown, ReapChild, Leave, Loop, Receive, EmptyWait, MutexWait, Write,
         MutexPost, FillPost, Monitor, OpenRing, WaitTooEarly, CountUser, FillWait, Read, EmptyPost,
         PrintBlock, Signalled, Deliver, Handle, InterruptSemWait, InterruptReceive,
         InterruptSleep, InterruptReap, Interrupt, SystemAppears

(* A block that is sent has been won, and who is busy has one to send.      *)
Busy == {w \in Winners : pc[w] # "idle"}

SentInv == Len(sent) + Cardinality(Busy) <= won

LEMMA BusyFinite ==
  IsFiniteSet(Busy) /\ Cardinality(Busy) \in Nat
  <1>1. Busy \subseteq Winners /\ IsFiniteSet(Winners)
    BY RingAssumption DEF Busy
  <1> QED BY <1>1, FS_Subset, FS_CardinalityType

LEMMA SentInit == Init => SentInv
  <1> SUFFICES ASSUME Init PROVE SentInv
    OBVIOUS
  <1>1. Busy = {}
    BY RingAssumption DEF Init, Busy, Procs
  <1>2. sent = <<>> /\ won = 0
    BY DEF Init
  <1> QED BY <1>1, <1>2, FS_EmptySet DEF SentInv

LEMMA SentNext ==
  ASSUME TypeInv, SentInv, [Next]_vars
  PROVE  SentInv'
  <1> USE DEF ring, sems, queue, flag, locals, signal, seen
  <1>0. /\ IsFiniteSet(Busy) /\ Cardinality(Busy) \in Nat /\ Cardinality(Busy') \in Nat
        /\ won \in Nat /\ Len(sent) \in Nat
    <2>1. IsFiniteSet(Busy') /\ Cardinality(Busy') \in Nat
      <3>1. Busy' \subseteq Winners /\ IsFiniteSet(Winners)
        BY RingAssumption DEF Busy
      <3> QED BY <3>1, FS_Subset, FS_CardinalityType
    <2> QED BY <2>1, BusyFinite, CountTypes DEF TypeInv, WinnerInv
  <1>1. ASSUME UNCHANGED <<sent, won>>, \A w \in Winners : pc'[w] = pc[w]
        PROVE  SentInv'
    <2>1. Busy' = Busy
      BY <1>1 DEF Busy
    <2> QED BY <1>1, <2>1 DEF SentInv
  <1>2. ASSUME NEW w \in Winners, Win(w) \/ Winner(w)
        PROVE  SentInv'
    <2>1. CASE Win(w)
      <3>1. Busy' = Busy \cup {w} /\ w \notin Busy
        BY <2>1 DEF Win, Goto, Busy, TypeInv, PcType
      <3>2. Cardinality(Busy') = Cardinality(Busy) + 1
        BY <1>0, <3>1, FS_AddElement
      <3> QED BY <1>0, <2>1, <3>2 DEF Win, SentInv
    <2>2. ASSUME NEW from \in {"check", "open_queue", "send"}, NEW to \in WinnerLabels,
                 Goto(w, from, to), UNCHANGED <<sent, won>>
          PROVE  SentInv'
      <3>1. Busy' = Busy \/ (w \in Busy /\ Busy' = Busy \ {w})
        BY <2>2 DEF Goto, Busy, TypeInv, PcType
      <3>2. Cardinality(Busy') <= Cardinality(Busy)
        <4>1. CASE Busy' = Busy
          BY <1>0, <4>1
        <4>2. CASE w \in Busy /\ Busy' = Busy \ {w}
          <5>1. Cardinality(Busy') = Cardinality(Busy) - 1
            BY <1>0, <4>2, FS_RemoveElement
          <5> QED BY <1>0, <5>1
        <4> QED BY <3>1, <4>1, <4>2
      <3> QED BY <1>0, <2>2, <3>2 DEF SentInv
    <2>3. CASE CheckMonitor(w) \/ OpenForSending(w) \/ SendFails(w)
      <3>1. UNCHANGED <<sent, won>>
        BY <2>3 DEF CheckMonitor, OpenForSending, SendFails
      <3> QED BY <2>2, <2>3, <3>1 DEF CheckMonitor, OpenForSending, SendFails, WinnerLabels
    <2>4. CASE Send(w)
      <3>1. w \in Busy /\ Busy' = Busy \ {w}
        BY <2>4 DEF Send, Goto, Busy, TypeInv, PcType
      <3>2. Cardinality(Busy') = Cardinality(Busy) - 1
        BY <1>0, <3>1, FS_RemoveElement
      <3>3. won' = won /\ (sent' = sent \/ sent' = Append(sent, current[w]))
        BY <2>4 DEF Send
      <3>4. Len(sent') <= Len(sent) + 1 /\ Len(sent') \in Nat
        BY <1>0, <3>3, CountTypes
      <3> QED BY <1>0, <3>2, <3>3, <3>4 DEF SentInv
    <2> QED BY <1>2, <2>1, <2>3, <2>4 DEF Winner
  <1>3. CASE Comprobador
    <2>1. \E from, to : Goto("comprobador", from, to)
      BY <1>3, MutexRows DEF Comprobador, CreateRing, OpenForReceiving, NotifyUp, NotifyDown,
            ReapChild, Leave, Loop, Receive, EmptyWait, Write, FillPost
    <2>2. \A w \in Winners : pc'[w] = pc[w]
      BY <2>1, RingAssumption DEF Goto, TypeInv, PcType, Procs
    <2>3. UNCHANGED <<sent, won>>
      BY <1>3 DEF Comprobador, CreateRing, OpenForReceiving, NotifyUp, NotifyDown, ReapChild, Leave,
            Loop, Receive, EmptyWait, MutexWait, Write, MutexPost, FillPost
    <2> QED BY <1>1, <2>2, <2>3
  <1>4. CASE Monitor
    <2>1. \E from, to : Goto("monitor", from, to)
      BY <1>4, MutexRows DEF Monitor, OpenRing, WaitTooEarly, CountUser, Loop, FillWait, Read,
            EmptyPost, PrintBlock, Leave
    <2>2. \A w \in Winners : pc'[w] = pc[w]
      BY <2>1, RingAssumption DEF Goto, TypeInv, PcType, Procs
    <2>3. UNCHANGED <<sent, won>>
      BY <1>4 DEF Monitor, OpenRing, WaitTooEarly, CountUser, Loop, FillWait, MutexWait, Read,
            MutexPost, EmptyPost, PrintBlock, Leave
    <2> QED BY <1>1, <2>2, <2>3
  <1>5. CASE Signalled
    <2>1. UNCHANGED pc \/ \E p \in Procs : \E from, to : Goto(p, from, to)
      BY <1>5 DEF Signalled, Deliver, InterruptSemWait, InterruptReceive, InterruptSleep,
                  InterruptReap, Procs
    <2>2. \A w \in Winners : pc'[w] = pc[w]
      BY <2>1, RingAssumption DEF Goto, TypeInv, PcType
    <2>3. UNCHANGED <<sent, won>>
      BY <1>5 DEF Signalled, Deliver, Handle, InterruptSemWait, InterruptReceive, InterruptSleep,
                  InterruptReap
    <2> QED BY <1>1, <2>2, <2>3
  <1>6. CASE SystemAppears \/ (\E to \in SUBSET Procs \ {{}} : Interrupt(to)) \/ UNCHANGED vars
    BY <1>1, <1>6 DEF SystemAppears, Interrupt, vars
  <1> QED BY <1>2, <1>3, <1>4, <1>5, <1>6 DEF Next

(* What the channel holds: the queue, a message in hand, the ring and a     *)
(* block that is being shown.                                               *)
LEMMA ChannelHolds ==
  ASSUME TypeInv, NothingSent, SlotsAccounted, ~interrupted, Fifo, inbox # 0
  PROVE  Len(sent) - Len(printed) <= Len(Content) + BUFFER_LENGTH + 2
  <1>1. pc["comprobador"] \notin Starting
    BY DEF NothingSent
  <1>2. gym_empty + gym_fill + Tokens = BUFFER_LENGTH
    BY <1>1 DEF SlotsAccounted, Ready, Starting
  <1>3. Unread <= BUFFER_LENGTH
    BY <1>2, RingAssumption DEF Tokens, Unread, One, TypeInv, RingInv
  <1>4. Taken <= Len(printed) + 1
    BY CountTypes DEF Fifo
  <1>5. Written - Taken = Unread
    BY CountTypes DEF Taken
  <1> QED BY <1>3, <1>4, <1>5, FifoCounts, CountTypes, RingAssumption

LEMMA ChannelStep ==
  ASSUME OrderInv, ~interrupted, InStep, [Next]_vars
  PROVE  [Channel!Next]_<<sent, printed>>
  <1> USE DEF ring, sems, queue, flag, locals, signal, seen
  <1>0. TypeInv /\ NothingSent /\ SlotsAccounted /\ Fifo
    BY DEF OrderInv, SemInv, FifoInv
  <1>1. ASSUME NEW w \in Winners, Win(w) \/ Winner(w)
        PROVE  [Channel!Next]_<<sent, printed>>
    <2>1. CASE Send(w) /\ mq[w] = inbox
      <3>1. /\ pc[w] = "send" /\ sent' = Append(sent, current[w]) /\ UNCHANGED printed
            /\ Len(queues[inbox]) < MAX_MSG
        BY <2>1 DEF Send, Goto
      <3>2. mq[w] # -2 /\ mq[w] # -1 /\ current[w] \in 0 .. MaxBlocks /\ current[w] # 0
        BY <1>0, <2>1, <3>1 DEF Send, TypeInv, WinnerInv
      <3>3. inbox \in 1 .. MaxQueues /\ current[w] \in 1 .. MaxBlocks
        BY <1>0, <2>1, <3>2, RingAssumption DEF TypeInv, WinnerInv
      <3>4. Content = queues[inbox]
        BY <3>3 DEF Content
      <3>5. Channel!UnderWay < MAX_MSG + BUFFER_LENGTH + 2
        <4>1. Len(sent) - Len(printed) <= Len(Content) + BUFFER_LENGTH + 2
          BY <1>0, <3>3, ChannelHolds
        <4>2. Len(Content) < MAX_MSG
          BY <3>1, <3>4
        <4>3. Len(sent) - Len(printed) < MAX_MSG + BUFFER_LENGTH + 2
          BY <1>0, <4>1, <4>2, CountTypes, RingAssumption
        <4> QED BY <4>3 DEF Channel!UnderWay
      <3>6. Channel!Send
        BY <3>1, <3>3, <3>5 DEF Channel!Send
      <3> QED BY <3>6 DEF Channel!Next
    <2>2. CASE ~(Send(w) /\ mq[w] = inbox)
      <3>1. UNCHANGED <<sent, printed>>
        BY <1>1, <2>2 DEF Win, Winner, CheckMonitor, OpenForSending, Send, SendFails
      <3> QED BY <3>1
    <2> QED BY <2>1, <2>2
  <1>2. CASE PrintBlock
    <2>1. pc["monitor"] = "print" /\ UNCHANGED sent
            /\ (UNCHANGED printed \/ printed' = Append(printed, read_block))
      BY <1>2 DEF PrintBlock, Goto
    <2>2. Taken = Len(printed) + 1 /\ read_block = sent[Taken]
      BY <1>0, <2>1 DEF Fifo, Showing
    <2>3. Channel!UnderWay > 0
      BY <1>0, <2>2, FifoCounts, CountTypes DEF Channel!UnderWay
    <2> QED BY <2>1, <2>2, <2>3 DEF Channel!Next, Channel!Show
  <1>3. CASE Comprobador \/ (Monitor /\ ~PrintBlock)
    <2>1. UNCHANGED <<sent, printed>>
      BY <1>3 DEF Comprobador, CreateRing, OpenForReceiving, NotifyUp, NotifyDown, ReapChild, Leave,
            Loop, Receive, EmptyWait, MutexWait, Write, MutexPost, FillPost, Monitor, OpenRing,
            WaitTooEarly, CountUser, FillWait, Read, EmptyPost
    <2> QED BY <2>1
  <1>4. CASE \/ Signalled \/ SystemAppears \/ UNCHANGED vars
             \/ \E to \in SUBSET Procs \ {{}} : Interrupt(to)
    <2>1. UNCHANGED <<sent, printed>>
      BY <1>4 DEF Signalled, Deliver, Handle, InterruptSemWait, InterruptReceive, InterruptSleep,
                  InterruptReap, Interrupt, SystemAppears, vars
    <2> QED BY <2>1
  <1> QED BY <1>1, <1>2, <1>3, <1>4 DEF Next

(* Nobody presses Ctrl-C, and the counters of the ring do not matter: then  *)
(* queue, comprobador, ring and monitor together are a bounded first-in     *)
(* first-out channel, step by step, and hold MAX_MSG + BUFFER_LENGTH + 2    *)
(* blocks at most.                                                          *)
THEOREM PathIsAChannel ==
  MaxInts = 0 /\ (Wrap % BUFFER_LENGTH = 0 \/ Passed + MaxBlocks <= Wrap) /\ Spec => Channel!Spec
  <1> SUFFICES ASSUME MaxInts = 0, Wrap % BUFFER_LENGTH = 0 \/ Passed + MaxBlocks <= Wrap
               PROVE  Spec => Channel!Spec
    OBVIOUS
  <1> DEFINE Inv == OrderInv /\ SentInv /\ CalmInv
  <1>1. Init => Inv
    <2>1. Init => CalmInv
      BY DEF Init, CalmInv
    <2> QED BY <2>1, TypeInit, SemInit, OrderInit, SentInit DEF OrderInv
  <1>2. Inv /\ [Next]_vars => Inv'
    BY TypeNext, SemNext, NothingSentNext, FifoNext, SentNext, CalmNext DEF OrderInv
  <1>3. Inv => InStep
    <2> SUFFICES ASSUME Inv, NEW n \in 0 .. Len(sent) - 1
                 PROVE  ((Passed + n) % Wrap) % BUFFER_LENGTH = (Passed + n) % BUFFER_LENGTH
      BY DEF InStep, Index
    <2>1. CASE Wrap % BUFFER_LENGTH = 0
      <3>1. Passed + n \in Nat
        BY RingAssumption
      <3> QED BY <2>1, <3>1, ModOfMultiple, RingAssumption
    <2>2. CASE Passed + MaxBlocks <= Wrap
      <3> DEFINE m == Passed + n
      <3>1. Len(sent) <= MaxBlocks
        BY BusyFinite, CountTypes, RingAssumption DEF OrderInv, SentInv, TypeInv, WinnerInv
      <3>2. m \in 0 .. Wrap - 1
        BY <2>2, <3>1, CountTypes, RingAssumption DEF OrderInv
      <3> HIDE DEF m
      <3>3. m % Wrap = m
        BY <3>2, ModSmall, RingAssumption
      <3> QED BY <3>3 DEF m
    <2> QED BY <2>1, <2>2
  <1>4. Init => Channel!Init
    BY DEF Init, Channel!Init
  <1>5. Inv /\ [Next]_vars => [Channel!Next]_<<sent, printed>>
    BY <1>3, ChannelStep DEF CalmInv
  <1> HIDE DEF Inv
  <1> QED BY <1>1, <1>2, <1>4, <1>5, PTL DEF Spec, Channel!Spec
=============================================================================
