-------------------------- MODULE LifecycleProofs --------------------------
(***************************************************************************)
(* Machine-checked proofs about SystemLifecycle, for any processes, any     *)
(* arguments they are launched with and any values of the bounds.           *)
(*                                                                          *)
(* The inductive invariant says of each property what the code relies on:   *)
(* a segment that has not been created is untouched and nobody is on it; a  *)
(* segment in the making is its maker's alone; the name stands for somebody *)
(* who will unlink it or who broke off; and each end of the pipe to the     *)
(* register is open exactly while its process is at the statements between  *)
(* the fork and the close.                                                  *)
(***************************************************************************)
EXTENDS SystemLifecycle, FiniteSetTheorems, TLAPS

All == Procs \cup Monitors

Making == {"truncate", "sem_init"}

(* A segment is initialised by its maker, and there is one maker at most.   *)
MakingInv ==
  /\ InitialisedOnce
  /\ \A p \in Procs : pc[p] \in Making => inits[mapped[p]] = 0
  /\ \A s \in Segments : s > created => inits[s] = 0

(* The statements of a process that has unlinked the name, or broken off.   *)
Away == {"full", "wait", "left", "failed"}

(* While the name stands, there is a process beyond its first two calls     *)
(* that has not unlinked it.                                                *)
Harmless == {"start", "refused", "open", "create", "lost_race", "full", "wait", "left"}

NameInv == name # NoSegment => \E p \in All : pc[p] \notin Harmless

(* The miner holds its write end from the fork to its close or exit.        *)
Writing ==
  { "open", "create", "truncate", "sem_init", "check_room", "reg_wait", "asleep", "running" }

PipeInv ==
  \A p \in Procs :
    /\ "miner" \in writers[p] <=> pc[p] \in Writing
    /\ "register" \in writers[p] <=> register[p] = "forked"
    /\ pc[p] \in Writing => register[p] # "ended"

LifeInv ==
  /\ TypeOK /\ MakingInv /\ SharedUntilSomeoneLeaves /\ NameInv /\ TableExact /\ PipeInv

-----------------------------------------------------------------------------
(* Types.                                                                   *)

LEMMA TypeInit == Init => TypeOK
  BY LifecycleAssumption DEF Init, TypeOK, Labels, Segments, NoSegment

(* A process that moves to a label and keeps its segment.                   *)
LEMMA GotoType ==
  ASSUME TypeOK, NEW p \in All, NEW from, NEW to \in Labels, Goto(p, from, to),
         from \notin {"start", "refused", "open", "create", "lost_race"}
           \/ to \in {"start", "refused", "open", "create", "lost_race"},
         UNCHANGED <<mapped, created>>
  PROVE  /\ pc' \in [All -> Labels]
         /\ mapped' \in [All -> {NoSegment} \cup 1 .. created']
         /\ created' \in 0 .. MaxSegments
         /\ \A q \in All :
              mapped'[q] = NoSegment =>
                pc'[q] \in {"start", "refused", "open", "create", "lost_race"}
  BY DEF TypeOK, Goto, All

(* Behind its shm_open a process is on a segment that exists.               *)
LEMMA OnSegment ==
  ASSUME TypeOK, NEW p \in All,
         pc[p] \notin {"start", "refused", "open", "create", "lost_race"}
  PROVE  mapped[p] \in Segments /\ mapped[p] \in 1 .. created
  <1>1. mapped[p] \in 1 .. created /\ created \in 0 .. MaxSegments
    BY DEF TypeOK, All
  <1> QED BY <1>1, LifecycleAssumption DEF Segments

LEMMA TypeStarts ==
  ASSUME TypeOK, NEW p \in Procs, Starts(p)
  PROVE  TypeOK'
  <1> USE LifecycleAssumption DEF segments, contents, child, All, NoSegment
  <1>1. CASE Launch(p)
    <2>1. n_sec' \in [Procs -> Seconds \cup {0}]
      BY <1>1 DEF Launch, TypeOK
    <2>2. /\ register' \in [Procs -> {"none", "forked", "reading", "ended", "killed"}]
          /\ writers' \in [Procs -> SUBSET {"miner", "register"}]
      BY <1>1 DEF Launch, TypeOK
    <2>3. \E to \in {"refused", "open"} : Goto(p, "start", to)
      BY <1>1 DEF Launch
    <2>4. "refused" \in Labels /\ "open" \in Labels
      BY DEF Labels, Ended
    <2>5. UNCHANGED <<mapped, created, name, sized, inits, mutex, members, signals>>
      BY <1>1 DEF Launch
    <2> QED BY <2>1, <2>2, <2>3, <2>4, <2>5, GotoType DEF TypeOK
  <1>2. CASE Open(p)
    <2>1. pc' \in [All -> Labels] /\ mapped' \in [All -> {NoSegment} \cup 1 .. created]
      BY <1>2 DEF Open, Goto, TypeOK, Labels
    <2>2. \A q \in All : mapped'[q] = NoSegment =>
            pc'[q] \in {"start", "refused", "open", "create", "lost_race"}
      BY <1>2 DEF Open, Goto, TypeOK
    <2> QED BY <1>2, <2>1, <2>2 DEF Open, TypeOK
  <1>3. CASE Create(p)
    <2>1. CASE NewSegment(p)
      <3>1. pc' \in [All -> Labels] /\ mapped' \in [All -> {NoSegment} \cup 1 .. created']
        BY <2>1 DEF NewSegment, Goto, TypeOK, Labels
      <3>2. \A q \in All : mapped'[q] = NoSegment =>
              pc'[q] \in {"start", "refused", "open", "create", "lost_race"}
        BY <2>1 DEF NewSegment, Goto, TypeOK
      <3>3. name' \in {NoSegment} \cup 1 .. created' /\ created' \in 0 .. MaxSegments
        BY <2>1 DEF NewSegment, TypeOK
      <3>4. UNCHANGED <<n_sec, sized, inits, mutex, members, signals>>
        BY <1>3 DEF Create
      <3>5. UNCHANGED <<register, writers>>
        BY <1>3, <2>1 DEF Create, NewSegment, LoseRace, Goto
      <3> QED BY <3>1, <3>2, <3>3, <3>4, <3>5 DEF TypeOK
    <2>2. CASE LoseRace(p) /\ Exits(p)
      <3>1. writers' \in [Procs -> SUBSET {"miner", "register"}]
        BY <2>2 DEF Exits, TypeOK
      <3>2. "lost_race" \in Labels
        BY DEF Labels, Ended
      <3> QED BY <1>3, <2>2, <3>1, <3>2, GotoType DEF Create, LoseRace, Exits, TypeOK
    <2> QED BY <1>3, <2>1, <2>2 DEF Create
  <1>4. CASE Initialise(p)
    <2>1. "sem_init" \in Labels /\ "reg_wait" \in Labels
      BY DEF Labels
    <2>2. /\ sized' \in [Segments -> BOOLEAN] /\ inits' \in [Segments -> Nat]
          /\ mutex' \in [Segments -> Nat]
      <3>1. mapped[p] \in Segments
        BY <1>4, OnSegment DEF Initialise, Goto
      <3>2. /\ sized' = sized \/ sized' = [sized EXCEPT ![mapped[p]] = TRUE]
            /\ inits' = inits \/ inits' = [inits EXCEPT ![mapped[p]] = @ + 1]
            /\ mutex' = mutex \/ mutex' = [mutex EXCEPT ![mapped[p]] = 1]
        BY <1>4 DEF Initialise
      <3>3. sized' \in [Segments -> BOOLEAN]
        BY <3>1, <3>2 DEF TypeOK
      <3>4. inits' \in [Segments -> Nat]
        BY <3>1, <3>2 DEF TypeOK
      <3>5. mutex' \in [Segments -> Nat]
        BY <3>1, <3>2 DEF TypeOK
      <3> QED BY <3>3, <3>4, <3>5
    <2>3. \E from \in {"truncate", "sem_init"}, to \in {"sem_init", "reg_wait"} : Goto(p, from, to)
      BY <1>4 DEF Initialise
    <2>4. UNCHANGED <<n_sec, name, created, mapped, members, signals, register, writers>>
      BY <1>4 DEF Initialise
    <2> QED BY <2>1, <2>2, <2>3, <2>4, GotoType DEF TypeOK
  <1>5. CASE CheckRoom(p)
    <2>1. {"killed", "full", "reg_wait"} \subseteq Labels
      BY DEF Labels, Ended
    <2>2. \E to \in {"killed", "full", "reg_wait"} : Goto(p, "check_room", to)
      BY <1>5 DEF CheckRoom
    <2>3. /\ name' \in {NoSegment} \cup 1 .. created
          /\ register' = register /\ writers' \in [Procs -> SUBSET {"miner", "register"}]
      BY <1>5 DEF CheckRoom, Exits, TypeOK
    <2>4. UNCHANGED <<n_sec, created, mapped, sized, inits, mutex, members, signals>>
      BY <1>5 DEF CheckRoom
    <2> QED BY <2>1, <2>2, <2>3, <2>4, GotoType DEF TypeOK
  <1>6. CASE FallAsleep(p)
    <2>1. "asleep" \in Labels
      BY DEF Labels
    <2> QED BY <1>6, <2>1, GotoType DEF FallAsleep, TypeOK
  <1>7. CASE Register(p) \/ RegisterInterrupted(p)
    <2>1. "running" \in Labels
      BY DEF Labels
    <2>2. \E from \in {"reg_wait", "asleep"} : Goto(p, from, "running")
      BY <1>7 DEF Register, RegisterInterrupted
    <2>3. members' \in [Segments -> SUBSET Procs] /\ mutex' \in [Segments -> Nat]
      <3>1. mapped[p] \in Segments
        BY <2>2, OnSegment DEF Goto
      <3>2. members' = [members EXCEPT ![mapped[p]] = @ \cup {p}]
        BY <1>7 DEF Register, RegisterInterrupted
      <3>3. members' \in [Segments -> SUBSET Procs]
        BY <3>1, <3>2 DEF TypeOK
      <3>4. mutex' = mutex \/ mutex' = [mutex EXCEPT ![mapped[p]] = @ + 1]
        BY <1>7 DEF Register, RegisterInterrupted
      <3>5. mutex' \in [Segments -> Nat]
        BY <3>1, <3>4 DEF TypeOK
      <3> QED BY <3>3, <3>5
    <2>4. signals' \in 0 .. MaxSignals
      BY <1>7 DEF Register, RegisterInterrupted, TypeOK
    <2>5. UNCHANGED <<n_sec, name, mapped, created, sized, inits, register, writers>>
      BY <1>7 DEF Register, RegisterInterrupted
    <2> QED BY <2>1, <2>2, <2>3, <2>4, <2>5, GotoType DEF TypeOK
  <1> QED BY <1>1, <1>2, <1>3, <1>4, <1>5, <1>6, <1>7 DEF Starts

LEMMA TypeLeaves ==
  ASSUME TypeOK, NEW p \in Procs, Leaves(p)
  PROVE  TypeOK'
  <1> USE LifecycleAssumption DEF segments, contents, child, All, NoSegment
  <1>1. \E from \in {"running", "leaving", "unlink", "unlink_last", "wait"},
           to \in {"leaving", "unlink", "unlink_last", "wait", "left", "failed"} : Goto(p, from, to)
    BY DEF Leaves, Shutdown, LeaveLast, UnlinksAtTheEnd, Leave, Unlink, Wait, LeaveFromNap, Fail
  <1>2. {"leaving", "unlink", "unlink_last", "wait", "left", "failed"} \subseteq Labels
    BY DEF Labels, Ended
  <1>3. UNCHANGED <<n_sec, mapped, created, sized, inits>>
    BY DEF Leaves, Shutdown, LeaveLast, Leave, Unlink, Wait, LeaveFromNap, Fail
  <1>4. mapped[p] \in Segments
    BY <1>1, OnSegment DEF Goto
  <1>5. members' \in [Segments -> SUBSET Procs] /\ mutex' \in [Segments -> Nat]
    <2>1. CASE LeaveLast(p) \/ Leave(p)
      <3>1. members' = [members EXCEPT ![mapped[p]] = @ \ {p}]
        BY <2>1 DEF LeaveLast, Leave, Delete
      <3>2. members' \in [Segments -> SUBSET Procs]
        BY <1>4, <3>1 DEF TypeOK
      <3>3. \/ mutex' = mutex
            \/ mutex[mapped[p]] > 0 /\ mutex' = [mutex EXCEPT ![mapped[p]] = @ - 1]
        BY <2>1 DEF LeaveLast, Leave
      <3>4. mutex' \in [Segments -> Nat]
        BY <1>4, <3>3 DEF TypeOK
      <3> QED BY <3>2, <3>4
    <2>2. CASE Shutdown(p) \/ Unlink(p) \/ Wait(p) \/ LeaveFromNap(p) \/ Fail(p)
      BY <2>2 DEF Shutdown, Unlink, Wait, LeaveFromNap, Fail, TypeOK
    <2> QED BY <2>1, <2>2 DEF Leaves
  <1>6. signals' \in 0 .. MaxSignals /\ name' \in {NoSegment} \cup 1 .. created
    BY DEF Leaves, Shutdown, LeaveLast, Leave, Unlink, Wait, LeaveFromNap, Fail, TypeOK
  <1>7. register' = register /\ writers' \in [Procs -> SUBSET {"miner", "register"}]
    BY DEF Leaves, Shutdown, LeaveLast, Leave, Unlink, Wait, LeaveFromNap, Fail, Exits, TypeOK
  <1> QED BY <1>1, <1>2, <1>3, <1>5, <1>6, <1>7, GotoType DEF TypeOK

LEMMA TypeRegister ==
  ASSUME TypeOK, NEW p \in Procs, RegisterRuns(p) \/ RegisterDies(p)
  PROVE  TypeOK'
  <1>1. /\ register' \in [Procs -> {"none", "forked", "reading", "ended", "killed"}]
        /\ writers' \in [Procs -> SUBSET {"miner", "register"}]
    BY DEF RegisterRuns, RegisterDies, RegisterCloses, RegisterEnds, RegisterKilled, TypeOK
  <1>2. UNCHANGED <<pc, n_sec, name, mapped, segments, contents, signals>>
    BY DEF RegisterRuns, RegisterDies
  <1> QED BY <1>1, <1>2 DEF TypeOK, segments, contents

LEMMA TypeMonitor ==
  ASSUME TypeOK, NEW c \in Monitors, Monitor(c)
  PROVE  TypeOK'
  <1> USE LifecycleAssumption DEF segments, contents, child, All, NoSegment
  <1>1. {"notify", "killed", "asleep", "notified", "left"} \subseteq Labels
    BY DEF Labels, Ended
  <1>2. CASE MonitorOpens(c)
    <2>1. /\ pc' \in [All -> Labels] /\ mapped' \in [All -> {NoSegment} \cup 1 .. created]
          /\ \A q \in All : mapped'[q] = NoSegment =>
               pc'[q] \in {"start", "refused", "open", "create", "lost_race"}
      BY <1>1, <1>2 DEF MonitorOpens, Goto, TypeOK
    <2> QED BY <1>2, <2>1 DEF MonitorOpens, TypeOK
  <1>3. CASE Notify(c)
    <2>1. \E to \in {"killed", "asleep", "notified"} : Goto(c, "notify", to)
      BY <1>3 DEF Notify, Goto
    <2> QED BY <1>1, <1>3, <2>1, GotoType DEF Notify, TypeOK
  <1>4. CASE NotifyInterrupted(c)
    <2>1. \E from \in {"asleep", "notify"} : Goto(c, from, "notified")
      BY <1>4 DEF NotifyInterrupted
    <2>2. mapped[c] \in Segments
      BY <2>1, OnSegment DEF Goto
    <2>3. mutex' \in [Segments -> Nat] /\ signals' \in 0 .. MaxSignals
      BY <1>4, <2>2 DEF NotifyInterrupted, TypeOK
    <2> QED BY <1>1, <1>4, <2>1, <2>3, GotoType DEF NotifyInterrupted, TypeOK
  <1>5. CASE MonitorLeaves(c)
    BY <1>1, <1>5, GotoType DEF MonitorLeaves, TypeOK
  <1> QED BY <1>2, <1>3, <1>4, <1>5 DEF Monitor

LEMMA TypeNext == TypeOK /\ [Next]_vars => TypeOK'
  <1>1. TypeOK /\ UNCHANGED vars => TypeOK'
    BY DEF vars, TypeOK
  <1> QED BY <1>1, TypeStarts, TypeLeaves, TypeRegister, TypeMonitor DEF Next

-----------------------------------------------------------------------------
(* The making of a segment.                                                 *)

LEMMA MakingInit == Init => MakingInv
  BY LifecycleAssumption DEF Init, MakingInv, InitialisedOnce, Making, Segments

(* A step that moves one process between statements outside the making.     *)
LEMMA MakingStays ==
  ASSUME TypeOK, MakingInv, UNCHANGED inits, created' = created,
         \A q \in Procs : pc'[q] \in Making => pc[q] \in Making /\ mapped'[q] = mapped[q]
  PROVE  MakingInv'
  <1>1. \A q, r \in Procs : mapped'[q] = mapped'[r] /\ q # r =>
          ~(pc'[q] \in Making /\ pc'[r] \in Making)
    BY DEF MakingInv, InitialisedOnce, Making
  <1> QED BY <1>1 DEF MakingInv, InitialisedOnce, Making

LEMMA MakingNext ==
  ASSUME TypeOK, MakingInv, [Next]_vars
  PROVE  MakingInv'
  <1> USE LifecycleAssumption DEF segments, All
  <1>1. ASSUME NEW p \in Procs, Starts(p)
        PROVE  MakingInv'
    <2>1. CASE Create(p) /\ NewSegment(p)
      <3>1. created' = created + 1 /\ mapped' = [mapped EXCEPT ![p] = created'] /\ inits' = inits
        BY <2>1 DEF Create, NewSegment
      <3>2. created' \in Segments /\ inits[created'] = 0
        BY <2>1, <3>1 DEF NewSegment, Segments, TypeOK, MakingInv
      <3>3. mapped'[p] = created' /\ \A q \in Procs \ {p} : mapped'[q] = mapped[q] /\ mapped[q] # created'
        BY <3>1 DEF TypeOK, NoSegment
      <3>4. pc'[p] = "truncate" /\ \A q \in Procs \ {p} : pc'[q] = pc[q]
        BY <2>1 DEF NewSegment, Goto, TypeOK
      <3>5. \A q, r \in Procs : mapped'[q] = mapped'[r] /\ q # r =>
              ~(pc'[q] \in Making /\ pc'[r] \in Making)
        BY <3>3, <3>4 DEF MakingInv, InitialisedOnce, Making
      <3>6. \A q \in Procs : pc'[q] \in Making => inits'[mapped'[q]] = 0
        BY <3>1, <3>2, <3>3, <3>4 DEF MakingInv
      <3>7. \A s \in Segments : s > created' => inits'[s] = 0
        BY <3>1 DEF MakingInv, TypeOK, Segments
      <3> QED BY <3>1, <3>5, <3>6, <3>7 DEF MakingInv, InitialisedOnce, Making
    <2>2. CASE Initialise(p)
      <3>1. mapped[p] \in Segments /\ mapped[p] \in 1 .. created
        BY <2>2, OnSegment DEF Initialise, Goto
      <3>2. UNCHANGED <<mapped, created>> /\ pc[p] \in Making
            /\ \A q \in Procs \ {p} : pc'[q] = pc[q]
        BY <2>2 DEF Initialise, Goto, TypeOK, Making
      <3>3. CASE UNCHANGED inits
        BY <2>2, <3>2, <3>3, MakingStays
      <3>4. CASE /\ Goto(p, "sem_init", "reg_wait")
                 /\ inits' = [inits EXCEPT ![mapped[p]] = @ + 1]
        <4>1. inits[mapped[p]] = 0
          BY <3>2 DEF MakingInv
        <4>2. inits'[mapped[p]] = 1 /\ \A s \in Segments \ {mapped[p]} : inits'[s] = inits[s]
          BY <3>1, <3>4, <4>1 DEF TypeOK
        <4>3. pc'[p] = "reg_wait"
          BY <3>4 DEF Goto, TypeOK
        <4>4. \A q \in Procs : pc'[q] \in Making => pc[q] \in Making /\ mapped[q] # mapped[p]
          BY <3>2, <4>3 DEF Making, MakingInv, InitialisedOnce
        <4>5. \A q \in Procs : pc'[q] \in Making => inits'[mapped[q]] = 0
          <5> SUFFICES ASSUME NEW q \in Procs, pc'[q] \in Making PROVE inits'[mapped[q]] = 0
            OBVIOUS
          <5>1. mapped[q] \in Segments
            BY <4>4, OnSegment DEF Making
          <5> QED BY <4>2, <4>4, <5>1 DEF MakingInv
        <4>6. \A q, r \in Procs : mapped'[q] = mapped'[r] /\ q # r =>
                ~(pc'[q] \in Making /\ pc'[r] \in Making)
          BY <3>2, <4>4 DEF Making, MakingInv, InitialisedOnce
        <4>7. \A s \in Segments : inits'[s] <= 1 /\ (s > created' => inits'[s] = 0)
          BY <3>1, <3>2, <4>2 DEF MakingInv, InitialisedOnce, TypeOK
        <4> QED BY <3>2, <4>5, <4>6, <4>7 DEF MakingInv, InitialisedOnce, Making
      <3> QED BY <2>2, <3>3, <3>4 DEF Initialise
    <2>3. CASE Launch(p) \/ Open(p) \/ CheckRoom(p) \/ FallAsleep(p) \/ Register(p)
               \/ RegisterInterrupted(p) \/ (Create(p) /\ LoseRace(p))
      <3>1. UNCHANGED <<inits, created>>
        BY <2>3 DEF Launch, Open, CheckRoom, FallAsleep, Register, RegisterInterrupted,
                    Create, LoseRace
      <3>2. pc'[p] \notin Making /\ \A q \in Procs \ {p} : pc'[q] = pc[q] /\ mapped'[q] = mapped[q]
        BY <2>3 DEF Launch, Open, CheckRoom, FallAsleep, Register, RegisterInterrupted,
                    Create, LoseRace, Goto, TypeOK, Making
      <3> QED BY <3>1, <3>2, MakingStays
    <2> QED BY <1>1, <2>1, <2>2, <2>3 DEF Starts, Create
  <1>2. ASSUME NEW p \in Procs, Leaves(p)
        PROVE  MakingInv'
    <2>1. UNCHANGED <<inits, created, mapped>>
      BY <1>2 DEF Leaves, Shutdown, LeaveLast, Leave, Unlink, Wait, LeaveFromNap, Fail
    <2>2. \A q \in Procs : pc'[q] \in Making => pc[q] \in Making
      BY <1>2 DEF Leaves, Shutdown, LeaveLast, UnlinksAtTheEnd, Leave, Unlink, Wait, LeaveFromNap,
                  Fail, Goto, TypeOK, Making
    <2> QED BY <2>1, <2>2, MakingStays
  <1>3. ASSUME NEW p \in Procs, RegisterRuns(p) \/ RegisterDies(p)
        PROVE  MakingInv'
    BY <1>3, MakingStays DEF RegisterRuns, RegisterDies
  <1>4. ASSUME NEW c \in Monitors, Monitor(c)
        PROVE  MakingInv'
    <2>1. UNCHANGED <<inits, created>>
      BY <1>4 DEF Monitor, MonitorOpens, Notify, NotifyInterrupted, MonitorLeaves
    <2>2. \A q \in Procs : pc'[q] = pc[q] /\ mapped'[q] = mapped[q]
      BY <1>4 DEF Monitor, MonitorOpens, Notify, NotifyInterrupted, MonitorLeaves, Goto, TypeOK
    <2> QED BY <2>1, <2>2, MakingStays
  <1>5. CASE UNCHANGED vars
    BY <1>5, MakingStays DEF vars
  <1> QED BY <1>1, <1>2, <1>3, <1>4, <1>5 DEF Next

-----------------------------------------------------------------------------
(* The name.                                                                *)

(* What a step does to the name: it leaves it and every mapping alone, or   *)
(* maps what it refers to, or creates it, or unlinks it and goes Away.      *)
LEMMA NameSteps ==
  ASSUME TypeOK, [Next]_vars
  PROVE  /\ \A q \in All : pc[q] \in Away => pc'[q] \in Away
         /\ \/ UNCHANGED <<name, mapped>>
            \/ UNCHANGED name /\ \E p \in All : mapped' = [mapped EXCEPT ![p] = name]
            \/ name = NoSegment /\ \E p \in All : mapped' = [mapped EXCEPT ![p] = name']
            \/ name' = NoSegment /\ \E p \in All : pc'[p] \in Away
  <1> USE DEF segments, contents, child, All
  <1>1. ASSUME NEW p \in Procs, Starts(p)
        PROVE  /\ \A q \in All : pc[q] \in Away => pc'[q] \in Away
               /\ \/ UNCHANGED <<name, mapped>>
                  \/ UNCHANGED name /\ mapped' = [mapped EXCEPT ![p] = name]
                  \/ name = NoSegment /\ mapped' = [mapped EXCEPT ![p] = name']
                  \/ name' = NoSegment /\ pc'[p] \in Away
    <2>1. pc[p] \notin Away /\ \A q \in All \ {p} : pc'[q] = pc[q]
      BY <1>1 DEF Starts, Launch, Open, Create, NewSegment, LoseRace, Initialise, CheckRoom,
                  FallAsleep, Register, RegisterInterrupted, Goto, Away, TypeOK
    <2>2. CASE CheckRoom(p) \/ Open(p) \/ Create(p)
      BY <2>1, <2>2 DEF CheckRoom, Open, Create, NewSegment, LoseRace, Goto, Away, TypeOK
    <2>3. CASE Launch(p) \/ Initialise(p) \/ FallAsleep(p) \/ Register(p)
               \/ RegisterInterrupted(p)
      BY <2>1, <2>3 DEF Launch, Initialise, FallAsleep, Register, RegisterInterrupted
    <2> QED BY <1>1, <2>2, <2>3 DEF Starts
  <1>2. ASSUME NEW p \in Procs, Leaves(p)
        PROVE  /\ \A q \in All : pc[q] \in Away => pc'[q] \in Away
               /\ \/ UNCHANGED <<name, mapped>>
                  \/ name' = NoSegment /\ pc'[p] \in Away
    <2>1. \A q \in All : pc[q] \in Away => pc'[q] \in Away
      BY <1>2 DEF Leaves, Shutdown, LeaveLast, Leave, Unlink, Wait, LeaveFromNap, Fail, Goto, Away,
                  TypeOK
    <2>2. UNCHANGED mapped
      BY <1>2 DEF Leaves, Shutdown, LeaveLast, Leave, Unlink, Wait, LeaveFromNap, Fail
    <2>3. UNCHANGED name \/ (name' = NoSegment /\ pc'[p] \in Away)
      BY <1>2 DEF Leaves, Shutdown, LeaveLast, Leave, Unlink, Wait, LeaveFromNap, Fail, Goto, Away,
                  TypeOK
    <2> QED BY <2>1, <2>2, <2>3
  <1>3. ASSUME NEW p \in Procs, RegisterRuns(p) \/ RegisterDies(p)
        PROVE  UNCHANGED <<pc, name, mapped>>
    BY <1>3 DEF RegisterRuns, RegisterDies
  <1>4. ASSUME NEW c \in Monitors, Monitor(c)
        PROVE  /\ \A q \in All : pc[q] \in Away => pc'[q] \in Away
               /\ \/ UNCHANGED <<name, mapped>>
                  \/ UNCHANGED name /\ mapped' = [mapped EXCEPT ![c] = name]
                  \/ name' = NoSegment /\ pc'[c] \in Away
    BY <1>4 DEF Monitor, MonitorOpens, Notify, NotifyInterrupted, MonitorLeaves, Goto, Away, TypeOK
  <1>5. CASE UNCHANGED vars
    BY <1>5 DEF vars
  <1> QED BY <1>1, <1>2, <1>3, <1>4, <1>5 DEF Next

LEMMA SharedNext ==
  ASSUME TypeOK, SharedUntilSomeoneLeaves, [Next]_vars
  PROVE  SharedUntilSomeoneLeaves'
  <1> SUFFICES ASSUME \A q \in All : pc'[q] \notin Away
               PROVE  \A q \in All : mapped'[q] \in {NoSegment, name'}
    BY DEF SharedUntilSomeoneLeaves, Away, All
  <1>1. \A q \in All : mapped[q] \in {NoSegment, name}
    BY NameSteps DEF SharedUntilSomeoneLeaves, Away, All
  <1>2. mapped \in [All -> {NoSegment} \cup 1 .. created]
    BY DEF TypeOK, All
  <1> QED BY <1>1, <1>2, NameSteps

LEMMA NameNext ==
  ASSUME TypeOK, NameInv, [Next]_vars
  PROVE  NameInv'
  <1> USE DEF segments, contents, child, All
  <1>1. ASSUME name' = name, NEW p \in All, \A q \in All \ {p} : pc'[q] = pc[q],
               pc[p] \notin Harmless => pc'[p] \notin Harmless
        PROVE  NameInv'
    BY <1>1 DEF NameInv
  <1>2. ASSUME name' # NoSegment => \E q \in All : pc'[q] \notin Harmless
        PROVE  NameInv'
    BY <1>2 DEF NameInv
  <1>3. ASSUME NEW p \in Procs, Starts(p)
        PROVE  NameInv'
    <2>1. \A q \in All \ {p} : pc'[q] = pc[q]
      BY <1>3 DEF Starts, Launch, Open, Create, NewSegment, LoseRace, Initialise, CheckRoom,
                  FallAsleep, Register, RegisterInterrupted, Goto, TypeOK
    <2>2. CASE CheckRoom(p)
      BY <1>1, <1>2, <2>1, <2>2 DEF CheckRoom, Goto, Harmless, TypeOK
    <2>3. CASE Create(p)
      BY <1>1, <1>2, <2>1, <2>3 DEF Create, NewSegment, LoseRace, Goto, Harmless, TypeOK
    <2>4. CASE Launch(p) \/ Open(p) \/ Initialise(p) \/ FallAsleep(p) \/ Register(p)
               \/ RegisterInterrupted(p)
      <3>1. name' = name /\ (pc[p] \notin Harmless => pc'[p] \notin Harmless)
        BY <2>4 DEF Launch, Open, Initialise, FallAsleep, Register, RegisterInterrupted, Goto,
                    Harmless, TypeOK
      <3> QED BY <1>1, <2>1, <3>1
    <2> QED BY <1>3, <2>2, <2>3, <2>4 DEF Starts
  <1>4. ASSUME NEW p \in Procs, Leaves(p)
        PROVE  NameInv'
    <2>1. \A q \in All \ {p} : pc'[q] = pc[q]
      BY <1>4 DEF Leaves, Shutdown, LeaveLast, Leave, Unlink, Wait, LeaveFromNap, Fail, Goto, TypeOK
    <2>2. CASE Unlink(p) \/ LeaveFromNap(p)
      BY <1>2, <2>2 DEF Unlink, LeaveFromNap
    <2>3. CASE Shutdown(p) \/ LeaveLast(p) \/ Leave(p) \/ Wait(p) \/ Fail(p)
      <3>1. name' = name /\ (pc[p] \notin Harmless => pc'[p] \notin Harmless)
        BY <2>3 DEF Shutdown, LeaveLast, UnlinksAtTheEnd, Leave, Wait, Fail, Goto, Harmless, TypeOK
      <3> QED BY <1>1, <2>1, <3>1
    <2> QED BY <1>4, <2>2, <2>3 DEF Leaves
  <1>5. ASSUME NEW p \in Procs, RegisterRuns(p) \/ RegisterDies(p)
        PROVE  NameInv'
    BY <1>5 DEF RegisterRuns, RegisterDies, NameInv
  <1>6. ASSUME NEW c \in Monitors, Monitor(c)
        PROVE  NameInv'
    <2>1. \A q \in All \ {c} : pc'[q] = pc[q]
      BY <1>6 DEF Monitor, MonitorOpens, Notify, NotifyInterrupted, MonitorLeaves, Goto, TypeOK
    <2>2. name' = NoSegment \/ (name' = name /\ (pc[c] \notin Harmless => pc'[c] \notin Harmless))
      BY <1>6 DEF Monitor, MonitorOpens, Notify, NotifyInterrupted, MonitorLeaves, Goto, Harmless,
                  TypeOK
    <2> QED BY <1>1, <1>2, <2>1, <2>2
  <1>7. CASE UNCHANGED vars
    BY <1>7 DEF vars, NameInv
  <1> QED BY <1>3, <1>4, <1>5, <1>6, <1>7 DEF Next

-----------------------------------------------------------------------------
(* The tables.                                                              *)

Listed == {"running", "leaving", "failed"}

(* A step that changes no table and moves nobody into or out of one.        *)
LEMMA TableStays ==
  ASSUME TypeOK, TableExact, UNCHANGED members,
         \A q \in Procs : /\ pc'[q] \in Listed <=> pc[q] \in Listed
                          /\ pc[q] \in Listed => mapped'[q] = mapped[q]
  PROVE  TableExact'
  BY DEF TableExact, Listed

LEMMA TableNext ==
  ASSUME TypeOK, TableExact, [Next]_vars
  PROVE  TableExact'
  <1> USE LifecycleAssumption DEF contents, All
  <1>1. ASSUME NEW p \in Procs, Starts(p)
        PROVE  TableExact'
    <2>1. CASE Register(p) \/ RegisterInterrupted(p)
      <3>1. mapped[p] \in Segments
        BY <2>1, OnSegment DEF Register, RegisterInterrupted, Goto
      <3>2. /\ members' = [members EXCEPT ![mapped[p]] = @ \cup {p}] /\ mapped' = mapped
            /\ pc[p] \notin Listed /\ pc' = [pc EXCEPT ![p] = "running"]
        BY <2>1 DEF Register, RegisterInterrupted, Goto, Listed
      <3>3. pc'[p] \in Listed /\ \A q \in Procs \ {p} : pc'[q] = pc[q]
        BY <3>2 DEF TypeOK, Listed
      <3>4. \A s \in Segments : members'[s] = IF s = mapped[p] THEN members[s] \cup {p} ELSE members[s]
        BY <3>1, <3>2 DEF TypeOK
      <3> QED BY <3>2, <3>3, <3>4 DEF TableExact, Listed
    <2>2. CASE Launch(p) \/ Open(p) \/ Create(p) \/ Initialise(p) \/ CheckRoom(p)
               \/ FallAsleep(p)
      <3>1. UNCHANGED members
        BY <2>2 DEF Launch, Open, Create, Initialise, CheckRoom, FallAsleep
      <3>2. pc[p] \notin Listed /\ pc'[p] \notin Listed
        BY <2>2 DEF Launch, Open, Create, NewSegment, LoseRace, Initialise, CheckRoom, FallAsleep,
                    Goto, Listed, TypeOK
      <3>3. \A q \in Procs \ {p} : pc'[q] = pc[q] /\ mapped'[q] = mapped[q]
        BY <2>2 DEF Launch, Open, Create, NewSegment, LoseRace, Initialise, CheckRoom, FallAsleep,
                    Goto, TypeOK
      <3> QED BY <3>1, <3>2, <3>3, TableStays
    <2> QED BY <1>1, <2>1, <2>2 DEF Starts
  <1>2. ASSUME NEW p \in Procs, Leaves(p)
        PROVE  TableExact'
    <2>1. CASE LeaveLast(p) \/ Leave(p)
      <3>1. mapped[p] \in Segments
        BY <2>1, OnSegment DEF LeaveLast, Leave, Goto
      <3>2. /\ members' = [members EXCEPT ![mapped[p]] = @ \ {p}] /\ mapped' = mapped
            /\ pc[p] \in Listed
        BY <2>1 DEF LeaveLast, Leave, Delete, Goto, Listed
      <3>3. pc'[p] \notin Listed /\ \A q \in Procs \ {p} : pc'[q] = pc[q]
        BY <2>1 DEF LeaveLast, UnlinksAtTheEnd, Leave, Goto, TypeOK, Listed
      <3>4. \A s \in Segments : members'[s] = IF s = mapped[p] THEN members[s] \ {p} ELSE members[s]
        BY <3>1, <3>2 DEF TypeOK
      <3> QED BY <3>2, <3>3, <3>4 DEF TableExact, Listed
    <2>2. CASE Shutdown(p) \/ Unlink(p) \/ Wait(p) \/ LeaveFromNap(p) \/ Fail(p)
      <3>1. UNCHANGED <<members, mapped>>
        BY <2>2 DEF Shutdown, Unlink, Wait, LeaveFromNap, Fail
      <3>2. \A q \in Procs : pc'[q] \in Listed <=> pc[q] \in Listed
        BY <2>2 DEF Shutdown, Unlink, Wait, LeaveFromNap, Fail, Goto, Listed, TypeOK
      <3> QED BY <3>1, <3>2, TableStays
    <2> QED BY <1>2, <2>1, <2>2 DEF Leaves
  <1>3. ASSUME NEW p \in Procs, RegisterRuns(p) \/ RegisterDies(p)
        PROVE  TableExact'
    BY <1>3, TableStays DEF RegisterRuns, RegisterDies
  <1>4. ASSUME NEW c \in Monitors, Monitor(c)
        PROVE  TableExact'
    <2>1. UNCHANGED members
      BY <1>4 DEF Monitor, MonitorOpens, Notify, NotifyInterrupted, MonitorLeaves
    <2>2. \A q \in Procs : pc'[q] = pc[q] /\ mapped'[q] = mapped[q]
      BY <1>4 DEF Monitor, MonitorOpens, Notify, NotifyInterrupted, MonitorLeaves, Goto, TypeOK
    <2> QED BY <2>1, <2>2, TableStays
  <1>5. CASE UNCHANGED vars
    BY <1>5, TableStays DEF vars
  <1> QED BY <1>1, <1>2, <1>3, <1>4, <1>5 DEF Next

-----------------------------------------------------------------------------
(* The pipes.                                                               *)

(* A step of one miner that stays on its side of the close.                 *)
LEMMA PipeStays ==
  ASSUME PipeInv, UNCHANGED <<register, writers>>,
         \A q \in Procs : pc'[q] \in Writing <=> pc[q] \in Writing
  PROVE  PipeInv'
  BY DEF PipeInv

(* A step of one miner that closes its end and is past the close.           *)
LEMMA PipeCloses ==
  ASSUME TypeOK, PipeInv, NEW p \in Procs, Exits(p), pc'[p] \notin Writing,
         \A q \in Procs \ {p} : pc'[q] = pc[q]
  PROVE  PipeInv'
  <1>1. writers' = [writers EXCEPT ![p] = @ \ {"miner"}] /\ register' = register
    BY DEF Exits
  <1>2. writers'[p] = writers[p] \ {"miner"} /\ \A q \in Procs \ {p} : writers'[q] = writers[q]
    BY <1>1 DEF TypeOK
  <1> QED BY <1>1, <1>2 DEF PipeInv

LEMMA PipeNext ==
  ASSUME TypeOK, PipeInv, [Next]_vars
  PROVE  PipeInv'
  <1> USE LifecycleAssumption DEF child, All
  <1>1. ASSUME NEW p \in Procs, Starts(p) \/ Leaves(p)
        PROVE  PipeInv'
    <2>1. \A q \in Procs \ {p} : pc'[q] = pc[q]
      BY <1>1 DEF Starts, Launch, Open, Create, NewSegment, LoseRace, Initialise, CheckRoom,
                  FallAsleep, Register, RegisterInterrupted, Leaves, Shutdown, LeaveLast, Leave,
                  Unlink, Wait, LeaveFromNap, Fail, Goto, TypeOK
    <2>2. CASE Launch(p)
      <3>1. \/ UNCHANGED child /\ Goto(p, "start", "refused")
            \/ /\ register' = [register EXCEPT ![p] = "forked"]
               /\ writers' = [writers EXCEPT ![p] = {"miner", "register"}]
               /\ Goto(p, "start", "open")
        BY <2>2 DEF Launch
      <3> QED BY <2>1, <3>1, PipeStays DEF PipeInv, Goto, Writing, TypeOK
    <2>3. CASE Shutdown(p) \/ LeaveFromNap(p) \/ Fail(p)
      BY <2>1, <2>3, PipeCloses DEF Shutdown, LeaveFromNap, Fail, Goto, Writing, TypeOK
    <2>4. CASE Create(p) \/ CheckRoom(p)
      <3>1. \/ Exits(p) /\ pc'[p] \notin Writing
            \/ UNCHANGED child /\ pc[p] \in Writing /\ pc'[p] \in Writing
        BY <2>4 DEF Create, NewSegment, LoseRace, CheckRoom, Goto, Writing, TypeOK
      <3> QED BY <2>1, <3>1, PipeStays, PipeCloses
    <2>5. CASE Open(p) \/ Initialise(p) \/ FallAsleep(p) \/ Register(p)
               \/ RegisterInterrupted(p) \/ LeaveLast(p) \/ Leave(p) \/ Unlink(p) \/ Wait(p)
      <3>1. UNCHANGED child /\ (pc'[p] \in Writing <=> pc[p] \in Writing)
        BY <2>5 DEF Open, Initialise, FallAsleep, Register, RegisterInterrupted, LeaveLast,
                    UnlinksAtTheEnd, Leave, Unlink, Wait, Goto, Writing, TypeOK
      <3> QED BY <2>1, <3>1, PipeStays
    <2> QED BY <1>1, <2>2, <2>3, <2>4, <2>5 DEF Starts, Leaves
  <1>2. ASSUME NEW p \in Procs, RegisterRuns(p) \/ RegisterDies(p)
        PROVE  PipeInv'
    <2>1. UNCHANGED pc
      BY <1>2 DEF RegisterRuns, RegisterDies
    <2>2. CASE RegisterCloses(p) \/ RegisterKilled(p)
      <3>1. /\ \E r \in {"reading", "killed"} : register' = [register EXCEPT ![p] = r]
            /\ writers' = [writers EXCEPT ![p] = @ \ {"register"}]
        BY <2>2 DEF RegisterCloses, RegisterKilled
      <3> QED BY <2>1, <3>1 DEF PipeInv, TypeOK
    <2>3. CASE RegisterEnds(p)
      <3>1. /\ register' = [register EXCEPT ![p] = "ended"] /\ UNCHANGED writers
            /\ register[p] = "reading" /\ "miner" \notin writers[p]
        BY <2>3 DEF RegisterEnds
      <3> QED BY <2>1, <3>1 DEF PipeInv, TypeOK
    <2> QED BY <1>2, <2>2, <2>3 DEF RegisterRuns, RegisterDies
  <1>3. ASSUME NEW c \in Monitors, Monitor(c)
        PROVE  PipeInv'
    <2>1. UNCHANGED child
      BY <1>3 DEF Monitor, MonitorOpens, Notify, NotifyInterrupted, MonitorLeaves
    <2>2. \A q \in Procs : pc'[q] = pc[q]
      BY <1>3 DEF Monitor, MonitorOpens, Notify, NotifyInterrupted, MonitorLeaves, Goto, TypeOK
    <2> QED BY <2>1, <2>2, PipeStays
  <1>4. CASE UNCHANGED vars
    BY <1>4, PipeStays DEF vars
  <1> QED BY <1>1, <1>2, <1>3, <1>4 DEF Next

-----------------------------------------------------------------------------
(* The theorems.                                                            *)

LEMMA LifeInvAlways == Spec => []LifeInv
  <1>1. Init => LifeInv
    <2> SUFFICES ASSUME Init PROVE LifeInv
      OBVIOUS
    <2>1. SharedUntilSomeoneLeaves /\ NameInv
      BY DEF Init, SharedUntilSomeoneLeaves, NameInv
    <2>2. TableExact
      BY LifecycleAssumption DEF Init, TableExact, Segments, NoSegment
    <2>3. PipeInv
      BY DEF Init, PipeInv, Writing
    <2> QED BY <2>1, <2>2, <2>3, TypeInit, MakingInit DEF LifeInv
  <1>2. LifeInv /\ [Next]_vars => LifeInv'
    BY TypeNext, MakingNext, SharedNext, NameNext, TableNext, PipeNext DEF LifeInv
  <1> QED BY <1>1, <1>2, PTL DEF Spec

(* The variables keep their types, and past its shm_open a process is on a  *)
(* segment that was created: no statement of miner_launch.c or of the       *)
(* comprobador touches a segment that is not there.                         *)
THEOREM TypesHold == Spec => []TypeOK
  <1>1. LifeInv => TypeOK
    BY DEF LifeInv
  <1> QED BY <1>1, LifeInvAlways, PTL

(* However many first miners race through shm_open, O_EXCL leaves one of    *)
(* them to initialise each segment, and it does so once.                    *)
THEOREM OneInitialiser == Spec => []InitialisedOnce
  <1>1. LifeInv => InitialisedOnce
    BY DEF LifeInv, MakingInv
  <1> QED BY <1>1, LifeInvAlways, PTL

(* The network is one network until the first process unlinks its name.     *)
THEOREM OneSegmentAtFirst == Spec => []SharedUntilSomeoneLeaves
  <1>1. LifeInv => SharedUntilSomeoneLeaves
    BY DEF LifeInv
  <1> QED BY <1>1, LifeInvAlways, PTL

(* Once every process has ended in order, the next miner finds no name.     *)
THEOREM NameIsUnlinked == Spec => []NoLeftover
  <1>1. LifeInv => NoLeftover
    BY DEF LifeInv, NameInv, NoLeftover, Harmless, All
  <1> QED BY <1>1, LifeInvAlways, PTL

(* In any number of networks, each table lists its own miners exactly.      *)
THEOREM TablesAreExact == Spec => []TableExact
  <1>1. LifeInv => TableExact
    BY DEF LifeInv
  <1> QED BY <1>1, LifeInvAlways, PTL

(* The register child reads on while its miner mines and finds the end of   *)
(* its pipe once the miner is gone or waits for it.                         *)
THEOREM RegisterEndsWithMiner == Spec => []LedgerEndsWithMiner
  <1>1. LifeInv => LedgerEndsWithMiner
    <2> SUFFICES ASSUME LifeInv, NEW p \in Procs
                 PROVE  /\ pc[p] = "running" => register[p] # "ended"
                        /\ pc[p] \in Ended \cup {"wait"} /\ register[p] = "reading" =>
                             writers[p] = {}
      BY DEF LedgerEndsWithMiner
    <2>1. writers[p] \subseteq {"miner", "register"}
      BY DEF LifeInv, TypeOK
    <2> QED BY <2>1 DEF LifeInv, PipeInv, Writing, Ended
  <1> QED BY <1>1, LifeInvAlways, PTL

=============================================================================
