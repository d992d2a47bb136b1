------------------------- MODULE MinerRoundsProofs -------------------------
(***************************************************************************)
(* Machine-checked proofs about MinerRounds, for any set of miners and any  *)
(* values of the bounds.                                                    *)
(*                                                                          *)
(* The argument for the sections: a sem_wait takes one from the semaphore   *)
(* and lets one miner in, a sem_post does the reverse, an interrupted       *)
(* sem_wait lets one in and counts itself, and every other statement stays  *)
(* on its side of the section's border. So the sum in SemAccounting never   *)
(* changes, and without interruptions it leaves room for one miner.         *)
(***************************************************************************)
EXTENDS MinerRounds, FiniteSetTheorems, TLAPS

Critical == Protected \cup {"last_exit"}

(* What SemAccounting needs of the types.                                   *)
SemTypes ==
  /\ pc \in [Miners -> Labels] /\ mutex \in Nat /\ interrupted \in Nat

(* The inductive invariant of the semaphore.                                *)
SemInv == SemTypes /\ SemAccounting

-----------------------------------------------------------------------------
(* How a step of one miner's pc changes the set of miners inside.           *)

(* The set of miners inside is finite.                                      *)
LEMMA InsideFinite == IsFiniteSet(Inside) /\ Cardinality(Inside) \in Nat
  <1>1. IsFiniteSet(Inside)
    BY RoundsAssumption, FS_Subset DEF Inside
  <1> QED BY <1>1, FS_CardinalityType

(* A miner that crosses no border leaves the set as it is.                  *)
LEMMA InsideStays ==
  ASSUME NEW m \in Miners, NEW to, pc \in [Miners -> Labels],
         pc' = [pc EXCEPT ![m] = to], pc[m] \in Critical <=> to \in Critical
  PROVE  Inside' = Inside
  BY DEF Inside, Critical

(* A miner that enters adds one.                                            *)
LEMMA InsideGrows ==
  ASSUME NEW m \in Miners, NEW to, pc \in [Miners -> Labels],
         pc' = [pc EXCEPT ![m] = to], pc[m] \notin Critical, to \in Critical
  PROVE  Cardinality(Inside') = Cardinality(Inside) + 1
  <1>1. Inside' = Inside \cup {m} /\ m \notin Inside
    BY DEF Inside, Critical
  <1> QED BY <1>1, InsideFinite, FS_AddElement

(* A miner that leaves takes one away.                                      *)
LEMMA InsideShrinks ==
  ASSUME NEW m \in Miners, NEW to, pc \in [Miners -> Labels],
         pc' = [pc EXCEPT ![m] = to], pc[m] \in Critical, to \notin Critical
  PROVE  Cardinality(Inside') = Cardinality(Inside) - 1
  <1>1. Inside' = Inside \ {m} /\ m \in Inside
    BY DEF Inside, Critical
  <1> QED BY <1>1, InsideFinite, FS_RemoveElement

(* Where the labels of sem_wait and sem_post lead.                          *)
LEMMA Borders ==
  /\ \A e \in Entries : e[1] \notin Critical /\ e[2] \in Critical /\ e[2] \in Labels
  /\ \A e \in Exits : e[1] \in Critical /\ e[2] \notin Critical /\ e[2] \in Labels
  BY DEF Entries, Exits, Critical, Protected, Labels, Suspended, Ended, Waiting

-----------------------------------------------------------------------------
(* The semaphore. *)

(* A step that keeps the semaphore and crosses no border keeps the sum.     *)
LEMMA NeutralStep ==
  ASSUME SemInv, NEW m \in Miners, NEW to \in Labels,
         pc' = [pc EXCEPT ![m] = to], pc[m] \in Critical <=> to \in Critical,
         mutex' = mutex, interrupted' = interrupted
  PROVE  SemInv'
  <1>1. Inside' = Inside
    BY InsideStays DEF SemInv, SemTypes
  <1> QED BY <1>1 DEF SemInv, SemTypes, SemAccounting

(* A step that does not move any pc.                                        *)
LEMMA StillStep ==
  ASSUME SemInv, UNCHANGED <<pc, mutex, interrupted>>
  PROVE  SemInv'
  BY DEF SemInv, SemTypes, SemAccounting, Inside

LEMMA SemWaitStep ==
  ASSUME SemInv, NEW m \in Miners, SemWait(m)
  PROVE  SemInv'
  <1>1. PICK e \in Entries : Goto(m, e[1], e[2])
    BY DEF SemWait
  <1>2. Cardinality(Inside') = Cardinality(Inside) + 1 /\ pc' \in [Miners -> Labels]
    BY <1>1, Borders, InsideGrows DEF SemInv, SemTypes, Goto
  <1> QED BY <1>2, InsideFinite DEF SemWait, SemInv, SemTypes, SemAccounting

LEMMA SemPostStep ==
  ASSUME SemInv, NEW m \in Miners, SemPost(m)
  PROVE  SemInv'
  <1>1. PICK e \in Exits : Goto(m, e[1], e[2])
    BY DEF SemPost
  <1>2. Cardinality(Inside') = Cardinality(Inside) - 1 /\ pc' \in [Miners -> Labels]
    BY <1>1, Borders, InsideShrinks DEF SemInv, SemTypes, Goto
  <1> QED BY <1>2, InsideFinite DEF SemPost, SemInv, SemTypes, SemAccounting

LEMMA InterruptSemWaitStep ==
  ASSUME SemInv, NEW m \in Miners, NEW s \in Signals, InterruptSemWait(m, s)
  PROVE  SemInv'
  <1>1. PICK e \in Entries : Goto(m, e[1], e[2])
    BY DEF InterruptSemWait
  <1>2. Cardinality(Inside') = Cardinality(Inside) + 1 /\ pc' \in [Miners -> Labels]
    BY <1>1, Borders, InsideGrows DEF SemInv, SemTypes, Goto
  <1> QED BY <1>2, InsideFinite
          DEF InterruptSemWait, Handle, SemInv, SemTypes, SemAccounting

(* A Goto between two labels on the same side of the border.                *)
LEMMA NeutralGoto ==
  ASSUME SemInv, NEW m \in Miners, NEW from, NEW to, Goto(m, from, to),
         to \in Labels, from \in Critical <=> to \in Critical,
         mutex' = mutex, interrupted' = interrupted
  PROVE  SemInv'
  BY NeutralStep DEF Goto

LEMMA StatementStep ==
  ASSUME SemInv, NEW m \in Miners, Statement(m)
  PROVE  SemInv'
  <1> USE DEF Labels, Protected, Critical, Suspended, Ended, Waiting, Entries
  <1>0. mutex' = mutex /\ interrupted' = interrupted
    BY DEF Statement
  <1>1. CASE Register(m)
    BY <1>0, <1>1, NeutralGoto DEF Register, Load
  <1>2. CASE AfterRegistering(m)
    BY <1>0, <1>2, NeutralGoto DEF AfterRegistering
  <1>3. CASE FirstBlock(m)
    BY <1>0, <1>3, NeutralGoto DEF FirstBlock, StoreBlock
  <1>4. CASE JoinBlock(m)
    BY <1>0, <1>4, NeutralGoto DEF JoinBlock, Load, StoreBlock
  <1>5. CASE PublishAndVote(m)
    BY <1>0, <1>5, NeutralGoto DEF PublishAndVote, Load, StoreBlock
  <1>6. CASE NextBlock(m)
    BY <1>0, <1>6, NeutralGoto DEF NextBlock, StoreBlock
  <1>7. CASE Vote(m)
    BY <1>0, <1>7, NeutralGoto DEF Vote, CountVote, Load, StoreBlock
  <1>8. CASE Deregister(m)
    BY <1>0, <1>8, NeutralGoto DEF Deregister
  <1> QED BY <1>1, <1>2, <1>3, <1>4, <1>5, <1>6, <1>7, <1>8 DEF Statement

LEMMA SignallingStep ==
  ASSUME SemInv, NEW m \in Miners, Signalling(m)
  PROVE  SemInv'
  <1> USE DEF Labels, Protected, Critical, Suspended, Ended, Waiting, Entries
  <1>0. mutex' = mutex /\ interrupted' = interrupted
    BY DEF Signalling, KillLoop
  <1>1. CASE UNCHANGED pc
    BY <1>0, <1>1, StillStep
  <1>2. CASE \/ Goto(m, "first_kill", "first_post") \/ Goto(m, "win_kill", "win_total")
             \/ Goto(m, "next_kill", "next_post")
    BY <1>0, <1>2, NeutralGoto
  <1> QED BY <1>1, <1>2 DEF Signalling, KillLoop

(* The statements outside the sections.                                     *)
LEMMA OutsideStep ==
  ASSUME SemInv, NEW m \in Miners,
         \/ CheckRoom(m) \/ Allocate(m) \/ Top(m) \/ Mine(m) \/ Poll(m)
         \/ Award(m) \/ Record(m) \/ Suspend(m) \/ Wake(m)
  PROVE  SemInv'
  <1> USE DEF Labels, Protected, Critical, Suspended, Ended, Waiting, Entries
  <1>1. CASE CheckRoom(m)  BY <1>1, NeutralGoto DEF CheckRoom
  <1>2. CASE Allocate(m)   BY <1>2, NeutralGoto DEF Allocate
  <1>3. CASE Top(m)        BY <1>3, NeutralGoto DEF Top
  <1>4. CASE Mine(m)       BY <1>4, NeutralGoto DEF Mine
  <1>5. CASE Poll(m)       BY <1>5, NeutralGoto DEF Poll
  <1>6. CASE Award(m)      BY <1>6, NeutralGoto DEF Award
  <1>7. CASE Record(m)     BY <1>7, NeutralGoto DEF Record
  <1>8. CASE Suspend(m)    BY <1>8, NeutralGoto DEF Suspend
  <1>9. CASE Wake(m)       BY <1>9, NeutralGoto DEF Wake
  <1> QED BY <1>1, <1>2, <1>3, <1>4, <1>5, <1>6, <1>7, <1>8, <1>9

LEMMA SignalStep ==
  ASSUME SemInv, NEW m \in Miners, Signal(m)
  PROVE  SemInv'
  <1>1. PICK s \in Signals : \/ Deliver(m, s) \/ InterruptSemWait(m, s)
                             \/ InterruptNap(m, s)
    BY DEF Signal
  <1>2. CASE Deliver(m, s)
    BY <1>2, StillStep DEF Deliver, Handle
  <1>3. CASE InterruptSemWait(m, s)
    BY <1>3, InterruptSemWaitStep
  <1>4. CASE InterruptNap(m, s)
    BY <1>4, NeutralGoto
       DEF InterruptNap, Handle, Labels, Protected, Critical, Ended
  <1> QED BY <1>1, <1>2, <1>3, <1>4

LEMMA FailedExitStep ==
  ASSUME SemInv, NEW m \in Miners, FailedExit(m)
  PROVE  SemInv'
  BY NeutralStep DEF FailedExit, Labels, Protected, Critical, Ended

LEMMA SemInvInit == Init => SemInv
  <1> SUFFICES ASSUME Init PROVE SemInv
    OBVIOUS
  <1>1. Inside = {}
    BY DEF Init, Inside, Protected
  <1>2. SemTypes
    BY DEF Init, InitBlocks, SemTypes, Labels, Waiting, Entries
  <1> QED BY <1>1, <1>2, FS_EmptySet DEF Init, InitBlocks, SemInv, SemAccounting

LEMMA SemInvNext == SemInv /\ [Next]_vars => SemInv'
  <1> SUFFICES ASSUME SemInv, [Next]_vars PROVE SemInv'
    OBVIOUS
  <1>1. CASE UNCHANGED vars
    BY <1>1, StillStep DEF vars
  <1>2. CASE Next
    <2>1. PICK m \in Miners : Step(m) \/ Signal(m) \/ Terminate(m) \/ FailedExit(m)
      BY <1>2 DEF Next
    <2>2. CASE Step(m)
      BY <2>2, SemWaitStep, SemPostStep, StatementStep, SignallingStep, OutsideStep
         DEF Step
    <2>3. CASE Signal(m)      BY <2>3, SignalStep
    <2>4. CASE Terminate(m)   BY <2>4, StillStep DEF Terminate
    <2>5. CASE FailedExit(m)  BY <2>5, FailedExitStep
    <2> QED BY <2>1, <2>2, <2>3, <2>4, <2>5
  <1> QED BY <1>1, <1>2

(* The semaphore's value, the miners inside and the interrupted sem_waits   *)
(* always add up, on every path of miner_launch.c's main.                   *)
THEOREM SemaphoreAccounts == Spec => []SemAccounting
  <1>1. SemInv => SemAccounting
    BY DEF SemInv
  <1> QED BY SemInvInit, SemInvNext, <1>1, PTL DEF Spec

(* One unit to share: two miners inside would make at least two.            *)
LEMMA ExclusiveFromSum == SemInv => ExclusionUnlessInterrupted
  <1> SUFFICES ASSUME SemInv, interrupted = 0, NEW m \in Inside, NEW n \in Inside,
                      m # n
               PROVE  FALSE
    BY DEF ExclusionUnlessInterrupted
  <1>1. Cardinality(Inside) \in 0 .. 1
    BY InsideFinite DEF SemInv, SemTypes, SemAccounting
  <1>2. Cardinality({m, n}) = 2
    <2>1. IsFiniteSet({m}) /\ Cardinality({m}) = 1
      BY FS_Singleton
    <2>2. {m, n} = {m} \cup {n} /\ n \notin {m}
      OBVIOUS
    <2> QED BY <2>1, <2>2, FS_AddElement
  <1>3. Cardinality({m, n}) <= Cardinality(Inside)
    BY InsideFinite, FS_Subset
  <1> QED BY <1>1, <1>2, <1>3

(* As long as no signal has interrupted a sem_wait, at most one miner is in *)
(* a section guarded by System.mutex.                                       *)
THEOREM MutualExclusion == Spec => []ExclusionUnlessInterrupted
  BY SemInvInit, SemInvNext, ExclusiveFromSum, PTL DEF Spec

-----------------------------------------------------------------------------
(* Types. A nap is only taken below the limit, which bounds _voting.        *)

PollBound == \A m \in Miners : pc[m] = "nap" => voting[m] < MAX_POLLS

(* The inductive invariant of the types.                                    *)
TypeInv == TypeOK /\ PollBound

LEMMA ByteFits == \A n \in Int : UInt8(n) \in 0 .. 255
  BY DEF UInt8

LEMMA InitBlockType ==
  ASSUME NEW id \in Int, id >= -1, NEW t \in Nat
  PROVE  InitBlock(id, t) \in Blocks
  BY DEF InitBlock, Blocks, Slotted

LEMMA WriteSlotType ==
  ASSUME NEW slots \in [Slots -> Slotted], NEW i \in Nat, NEW m \in Miners
  PROVE  WriteSlot(slots, i, m) \in [Slots -> Slotted]
  BY DEF WriteSlot, Slotted

LEMMA DeleteMinerType ==
  ASSUME NEW slots \in [Slots -> Slotted], NEW num \in 0 .. 255, NEW m \in Miners
  PROVE  /\ DeleteMiner(slots, num, m).miners \in [Slots -> Slotted]
         /\ DeleteMiner(slots, num, m).num \in 0 .. 255
  <1>1. \A index : ShiftDown(slots, num, index) \in [Slots -> Slotted]
    BY DEF ShiftDown, Slotted
  <1>2. UInt8(num - 1) \in 0 .. 255
    BY ByteFits
  <1> QED BY <1>1, <1>2 DEF DeleteMiner

(* Goto keeps the labels in place when its target is one.                   *)
LEMMA GotoType ==
  ASSUME NEW m \in Miners, NEW from, NEW to \in Labels, Goto(m, from, to),
         pc \in [Miners -> Labels]
  PROVE  pc' \in [Miners -> Labels]
  BY DEF Goto

(* The part of the type invariant that the statements on the segment touch. *)
ShmTypes ==
  /\ miners \in [Slots -> Slotted] /\ num_miners \in 0 .. 255
  /\ current_block \in Blocks /\ last_block \in Blocks
  /\ pc \in [Miners -> Labels] /\ load \in [Miners -> 0 .. 255]

LEMMA LoadType ==
  ASSUME ShmTypes, NEW m \in Miners, NEW from, NEW to \in Labels,
         NEW value \in 0 .. 255, Load(m, from, to, value)
  PROVE  ShmTypes'
  BY GotoType DEF ShmTypes, Load, SetLoad, shm

LEMMA StoreBlockType ==
  ASSUME ShmTypes, NEW m \in Miners, NEW from, NEW to \in Labels,
         NEW block \in Blocks, StoreBlock(m, from, to, block)
  PROVE  ShmTypes'
  BY GotoType DEF ShmTypes, StoreBlock, SetLoad

(* A statement of a section keeps the types of what it writes.              *)
LEMMA StatementTypes ==
  ASSUME TypeOK, NEW m \in Miners, Statement(m)
  PROVE  ShmTypes'
  <1>1. ShmTypes /\ Bump(m) \in 0 .. 255 /\ solution[m] \in Nat
    <2>1. ShmTypes /\ solution[m] \in Nat /\ load[m] \in 0 .. 255
      BY DEF TypeOK, ShmTypes
    <2>2. load[m] + 1 \in Int
      BY <2>1
    <2> QED BY <2>1, <2>2, ByteFits DEF Bump
  <1>0. num_miners \in Nat /\ current_block.num_voters \in Nat
    BY <1>1 DEF ShmTypes, Blocks
  <1>a. WriteSlot(miners, num_miners, m) \in [Slots -> Slotted]
    BY <1>0, <1>1, WriteSlotType DEF ShmTypes
  <1>b. [current_block EXCEPT !.miners =
           WriteSlot(@, current_block.num_voters, m)] \in Blocks
    <2>1. WriteSlot(current_block.miners, current_block.num_voters, m)
            \in [Slots -> Slotted]
      BY <1>0, <1>1, WriteSlotType DEF ShmTypes, Blocks
    <2> QED BY <1>1, <2>1 DEF ShmTypes, Blocks
  <1> USE DEF Labels, Protected, Suspended, Ended, Waiting, Entries
  <1>2. CASE Register(m)
    <2>1. CASE Load(m, "reg_load", "reg_store", num_miners)
      BY <1>1, <2>1, LoadType DEF ShmTypes
    <2> QED BY <1>1, <1>2, <1>a, <2>1, GotoType DEF Register, ShmTypes, SetLoad
  <1>3. CASE AfterRegistering(m)
    BY <1>1, <1>3, GotoType DEF AfterRegistering, ShmTypes, shm
  <1>4. CASE FirstBlock(m)
    BY <1>1, <1>4, StoreBlockType, InitBlockType DEF FirstBlock
  <1>5. CASE JoinBlock(m)
    <2>1. /\ current_block.num_voters \in 0 .. 255
          /\ [current_block EXCEPT !.num_voters = Bump(m)] \in Blocks
      BY <1>1 DEF ShmTypes, Blocks
    <2> QED BY <1>1, <1>5, <1>b, <2>1, LoadType, StoreBlockType DEF JoinBlock
  <1>6. CASE PublishAndVote(m)
    <2>1. /\ current_block.total \in 0 .. 255 /\ current_block.fav \in 0 .. 255
          /\ [current_block EXCEPT !.solution = solution[m]] \in Blocks
          /\ [current_block EXCEPT !.total = Bump(m)] \in Blocks
          /\ [current_block EXCEPT !.fav = Bump(m)] \in Blocks
      BY <1>1 DEF ShmTypes, Blocks
    <2> QED BY <1>1, <1>6, <2>1, LoadType, StoreBlockType DEF PublishAndVote
  <1>7. CASE NextBlock(m)
    <2>1. Successor(last_block) \in Blocks
      BY <1>1, InitBlockType DEF Successor, ShmTypes, Blocks
    <2> QED BY <1>1, <1>7, <2>1, StoreBlockType, GotoType DEF NextBlock, ShmTypes
  <1>8. CASE Vote(m)
    <2>1. /\ current_block.total \in 0 .. 255 /\ current_block.fav \in 0 .. 255
          /\ [current_block EXCEPT !.total = Bump(m)] \in Blocks
          /\ [current_block EXCEPT !.fav = Bump(m)] \in Blocks
      BY <1>1 DEF ShmTypes, Blocks
    <2>2. CASE Goto(m, "lose_compare", "lose_total") /\ UNCHANGED <<shm, load>>
      BY <1>1, <2>2, GotoType DEF ShmTypes, shm
    <2> QED BY <1>1, <1>8, <2>1, <2>2, LoadType, StoreBlockType DEF Vote, CountVote
  <1>9. CASE Deregister(m)
    BY <1>1, <1>9, DeleteMinerType, GotoType DEF Deregister, ShmTypes
  <1> QED BY <1>2, <1>3, <1>4, <1>5, <1>6, <1>7, <1>8, <1>9 DEF Statement

(* No statement of a section leads to a nap.                                *)
LEMMA StatementNeverNaps ==
  ASSUME TypeOK, NEW m \in Miners, Statement(m)
  PROVE  pc'[m] # "nap" /\ \A n \in Miners \ {m} : pc'[n] = pc[n]
  BY DEF Statement, Register, AfterRegistering, FirstBlock, JoinBlock, PublishAndVote,
         NextBlock, Vote, CountVote, Deregister, Load, StoreBlock, Goto, TypeOK

LEMMA StatementType ==
  ASSUME TypeInv, NEW m \in Miners, Statement(m)
  PROVE  TypeInv'
  <1>1. TypeOK'
    BY StatementTypes DEF TypeInv, TypeOK, ShmTypes, Statement, local, sig
  <1>2. PollBound'
    BY StatementNeverNaps DEF TypeInv, PollBound, Statement, local
  <1> QED BY <1>1, <1>2 DEF TypeInv

LEMMA KillType ==
  ASSUME pending \in [Miners -> SUBSET Signals], NEW to, NEW s \in Signals, Kill(to, s)
  PROVE  pending' \in [Miners -> SUBSET Signals]
  BY DEF Kill

LEMMA KillLoopType ==
  ASSUME TypeInv, NEW m \in Miners, NEW from, NEW to \in Labels \ {"nap"}, NEW slots,
         NEW num \in 0 .. 255, NEW s \in Signals, KillLoop(m, from, to, slots, num, s)
  PROVE  TypeInv'
  <1>1. load[m] \in 0 .. 255 /\ pending \in [Miners -> SUBSET Signals]
    BY DEF TypeInv, TypeOK
  <1>2. pending' \in [Miners -> SUBSET Signals]
    BY <1>1, KillType DEF KillLoop
  <1>3. load' \in [Miners -> 0 .. 255]
    <2>1. PICK i \in {0, load[m] + 1} : (i = 0 \/ load[m] < num) /\ SetLoad(m, i)
      BY DEF KillLoop
    <2>2. i \in 0 .. 255
      BY <1>1, <2>1
    <2> QED BY <2>1, <2>2 DEF SetLoad, TypeInv, TypeOK
  <1>4. /\ pc' \in [Miners -> Labels]
        /\ \A n \in Miners : pc'[n] = "nap" => pc[n] = "nap"
    BY DEF KillLoop, Goto, TypeInv, TypeOK
  <1>5. PollBound'
    BY <1>4 DEF KillLoop, TypeInv, PollBound, local
  <1> QED BY <1>2, <1>3, <1>4, <1>5 DEF KillLoop, TypeInv, TypeOK, shm, local

LEMMA SignallingType ==
  ASSUME TypeInv, NEW m \in Miners, Signalling(m)
  PROVE  TypeInv'
  <1>1. num_miners \in 0 .. 255 /\ current_block.num_voters \in 0 .. 255
    BY DEF TypeInv, TypeOK, Blocks
  <1>2. {"first_post", "win_total", "next_post"} \subseteq Labels \ {"nap"}
    BY DEF Labels, Protected
  <1> QED BY <1>1, <1>2, KillLoopType DEF Signalling, Signals

(* The semaphore's operations.                                              *)
LEMMA SemaphoreType ==
  ASSUME TypeInv, NEW m \in Miners, SemWait(m) \/ SemPost(m)
  PROVE  TypeInv'
  <1>1. \A e \in Entries \cup Exits : e[2] \in Labels \ {"nap"}
    BY DEF Entries, Exits, Labels, Protected, Waiting, Suspended, Ended
  <1>2. PICK e \in Entries \cup Exits : Goto(m, e[1], e[2])
    BY DEF SemWait, SemPost
  <1>3. pc' \in [Miners -> Labels] /\ mutex' \in Nat
    BY <1>1, <1>2, GotoType DEF SemWait, SemPost, TypeInv, TypeOK
  <1>4. PollBound'
    BY <1>1, <1>2 DEF Goto, TypeInv, TypeOK, PollBound, SemWait, SemPost, local
  <1> QED BY <1>3, <1>4 DEF TypeInv, TypeOK, SemWait, SemPost, shm, local, sig

(* A Goto elsewhere than to a nap puts nobody into a nap.                   *)
LEMMA GotoAwake ==
  ASSUME NEW m \in Miners, NEW from, NEW to \in Labels \ {"nap"}, Goto(m, from, to),
         pc \in [Miners -> Labels]
  PROVE  /\ pc' \in [Miners -> Labels]
         /\ \A n \in Miners : pc'[n] = "nap" => pc[n] = "nap"
  BY DEF Goto

(* The statements outside the sections.                                     *)
LEMMA OutsideType ==
  ASSUME TypeInv, NEW m \in Miners,
         CheckRoom(m) \/ Allocate(m) \/ Top(m) \/ Mine(m) \/ Suspend(m) \/ Wake(m)
  PROVE  TypeInv'
  <1>1. /\ pc' \in [Miners -> Labels]
        /\ \A n \in Miners : pc'[n] = "nap" => pc[n] = "nap"
    <2>1. {"exited", "reg_wait", "top", "del_wait", "join_wait", "lose_wait",
           "win_wait", "suspended_first", "suspended", "alloc"} \subseteq Labels \ {"nap"}
      BY DEF Labels, Waiting, Entries, Suspended, Ended
    <2>2. \E from, to : Goto(m, from, to) /\
            to \in {"exited", "reg_wait", "top", "del_wait", "join_wait", "lose_wait",
                   "win_wait", "suspended_first", "suspended", "alloc"}
      <3>1. CASE CheckRoom(m)  BY <3>1 DEF CheckRoom
      <3>2. CASE Allocate(m)   BY <3>2 DEF Allocate
      <3>3. CASE Top(m)        BY <3>3 DEF Top
      <3>4. CASE Mine(m)       BY <3>4 DEF Mine
      <3>5. CASE Suspend(m)    BY <3>5 DEF Suspend
      <3>6. CASE Wake(m)       BY <3>6 DEF Wake
      <3> QED BY <3>1, <3>2, <3>3, <3>4, <3>5, <3>6
    <2> QED BY <2>1, <2>2, GotoAwake DEF TypeInv, TypeOK
  <1>2. voting' = voting
    BY DEF CheckRoom, Allocate, Top, Mine, Suspend, Wake, local
  <1>3. PollBound'
    BY <1>1, <1>2 DEF TypeInv, PollBound
  <1>4. ShmTypes'
    BY <1>1 DEF TypeInv, TypeOK, ShmTypes, CheckRoom, Allocate, Top, Mine, Suspend,
                Wake, shm
  <1>5. target' \in [Miners -> Nat] /\ solution' \in [Miners -> Nat]
    <2>1. current_block.target \in Nat /\ Solve(target[m]) \in Nat
      BY DEF TypeInv, TypeOK, Blocks, Solve
    <2>2. \/ UNCHANGED <<target, solution>>
          \/ UNCHANGED target /\ solution' = [solution EXCEPT ![m] = Solve(target[m])]
          \/ UNCHANGED solution /\ target' = [target EXCEPT ![m] = current_block.target]
      BY DEF CheckRoom, Allocate, Top, Mine, Suspend, Wake, local
    <2> QED BY <2>1, <2>2 DEF TypeInv, TypeOK
  <1>6. /\ sigusr2' \in [Miners -> BOOLEAN] /\ shutdown' \in [Miners -> BOOLEAN]
        /\ pending' \in [Miners -> SUBSET Signals]
    BY DEF TypeInv, TypeOK, CheckRoom, Allocate, Top, Mine, Suspend, Wake, sig
  <1>7. UNCHANGED <<mutex, interrupted, coins, ledger, alarms>>
    BY DEF CheckRoom, Allocate, Top, Mine, Suspend, Wake, local, sig
  <1> QED BY <1>2, <1>3, <1>4, <1>5, <1>6, <1>7 DEF TypeInv, TypeOK, ShmTypes

(* A nap starts below the limit, so the count after it is within it.        *)
LEMMA PollType ==
  ASSUME TypeInv, NEW m \in Miners, Poll(m)
  PROVE  TypeInv'
  <1>1. pc' \in [Miners -> Labels]
    BY GotoType DEF Poll, TypeInv, TypeOK, Labels
  <1>2. voting' \in [Miners -> 0 .. MAX_POLLS]
    <2>1. voting[m] \in 0 .. MAX_POLLS /\ (pc[m] = "nap" => voting[m] < MAX_POLLS)
      BY DEF TypeInv, TypeOK, PollBound
    <2>2. PICK i \in {voting[m], 0, voting[m] + 1} :
            /\ voting' = [voting EXCEPT ![m] = i]
            /\ i = voting[m] + 1 => pc[m] = "nap"
      BY <2>1, RoundsAssumption DEF Poll, Goto, NextPoll, TypeInv, TypeOK
    <2>3. i \in 0 .. MAX_POLLS
      BY <2>1, <2>2, RoundsAssumption
    <2> QED BY <2>2, <2>3 DEF TypeInv, TypeOK
  <1>3. PollBound'
    <2>1. voting[m] \in 0 .. MAX_POLLS
      BY DEF TypeInv, TypeOK
    <2>2. pc'[m] = "nap" => voting'[m] < MAX_POLLS
      BY <2>1, RoundsAssumption DEF Poll, Goto, KeepsPolling, TypeInv, TypeOK
    <2>3. \A n \in Miners \ {m} : pc'[n] = pc[n] /\ voting'[n] = voting[n]
      BY DEF Poll, Goto, TypeInv, TypeOK
    <2> QED BY <2>2, <2>3 DEF TypeInv, PollBound
  <1> QED BY <1>1, <1>2, <1>3 DEF Poll, TypeInv, TypeOK, shm, sig

LEMMA AwardType ==
  ASSUME TypeInv, NEW m \in Miners, Award(m)
  PROVE  TypeInv'
  <1>1. /\ pc' \in [Miners -> Labels]
        /\ \A n \in Miners : pc'[n] = "nap" => pc[n] = "nap"
    BY DEF Award, Goto, TypeInv, TypeOK, Labels
  <1>2. current_block' \in Blocks /\ coins' \in [Miners -> Nat]
    <2>1. [current_block EXCEPT !.winner = m] \in Blocks
      BY DEF TypeInv, TypeOK, Blocks, Slotted
    <2>2. [coins EXCEPT ![m] = @ + 1] \in [Miners -> Nat]
      BY DEF TypeInv, TypeOK
    <2> QED BY <2>1, <2>2 DEF Award, TypeInv, TypeOK
  <1>3. PollBound'
    BY <1>1 DEF Award, TypeInv, PollBound
  <1> QED BY <1>1, <1>2, <1>3 DEF Award, TypeInv, TypeOK, sig

LEMMA RecordType ==
  ASSUME TypeInv, NEW m \in Miners, Record(m)
  PROVE  TypeInv'
  <1>1. /\ pc' \in [Miners -> Labels]
        /\ \A n \in Miners : pc'[n] = "nap" => pc[n] = "nap"
    BY DEF Record, Goto, TypeInv, TypeOK, Labels, Waiting, Entries
  <1>2. Entry(current_block) \in Records
    BY DEF Entry, Records, TypeInv, TypeOK, Blocks
  <1>3. ledger' \in [Miners -> Seq(Records)]
    BY <1>2 DEF Record, TypeInv, TypeOK
  <1>4. PollBound'
    BY <1>1 DEF Record, TypeInv, PollBound
  <1> QED BY <1>1, <1>3, <1>4 DEF Record, TypeInv, TypeOK, sig, shm

(* The signals and the error exits.                                         *)
LEMMA EnvironmentType ==
  ASSUME TypeInv, NEW m \in Miners, Signal(m) \/ Terminate(m) \/ FailedExit(m)
  PROVE  TypeInv'
  <1>1. /\ pc' \in [Miners -> Labels]
        /\ \A n \in Miners : pc'[n] = "nap" => pc[n] = "nap"
    <2>1. \A e \in Entries : e[2] \in Labels \ {"nap"}
      BY DEF Entries, Labels, Protected
    <2>2. "dead" \in Labels \ {"nap"}
      BY DEF Labels, Ended
    <2>3. \/ UNCHANGED pc
          \/ \E from : Goto(m, from, "dead")
          \/ \E e \in Entries : Goto(m, e[1], e[2])
      BY DEF Signal, Deliver, InterruptSemWait, InterruptNap, Terminate, FailedExit,
             Goto
    <2> QED BY <2>1, <2>2, <2>3, GotoAwake DEF TypeInv, TypeOK
  <1>2. UNCHANGED <<shm, mutex, load, local>>
    BY DEF Signal, Deliver, InterruptSemWait, InterruptNap, Handle, Terminate,
           FailedExit
  <1>3. PollBound'
    BY <1>1, <1>2 DEF TypeInv, PollBound, local
  <1>4. interrupted' \in Nat
    BY DEF Signal, Deliver, InterruptSemWait, InterruptNap, Terminate, FailedExit,
           TypeInv, TypeOK
  <1>5. /\ sigusr2' \in [Miners -> BOOLEAN] /\ shutdown' \in [Miners -> BOOLEAN]
        /\ pending' \in [Miners -> SUBSET Signals]
        /\ alarms' \in [Miners -> Nat]
    <2>1. CASE Signal(m)
      <3>1. PICK s \in Signals : Handle(m, s)
        BY <2>1 DEF Signal, Deliver, InterruptSemWait, InterruptNap
      <3> QED BY <3>1 DEF Handle, TypeInv, TypeOK
    <2>2. CASE Terminate(m)
      <3>1. alarms[m] + 1 \in Nat /\ "TERM" \in Signals
        BY DEF TypeInv, TypeOK, Signals
      <3> QED BY <2>2, <3>1 DEF Terminate, TypeInv, TypeOK
    <2>3. CASE FailedExit(m)
      BY <2>3 DEF FailedExit, TypeInv, TypeOK, sig
    <2> QED BY <2>1, <2>2, <2>3
  <1> QED BY <1>1, <1>2, <1>3, <1>4, <1>5 DEF TypeInv, TypeOK, shm, local

LEMMA TypeInvInit == Init => TypeInv
  <1> SUFFICES ASSUME Init PROVE TypeInv
    OBVIOUS
  <1>1. InitBlock(-1, 0) \in Blocks
    BY InitBlockType
  <1>2. pc \in [Miners -> Labels] /\ PollBound
    BY DEF Init, Labels, Waiting, Entries, PollBound
  <1>3. \A m \in Miners : ledger[m] \in Seq(Records)
    BY DEF Init, InitLocals
  <1> QED BY <1>1, <1>2, <1>3, RoundsAssumption
          DEF Init, InitBlocks, InitLocals, TypeInv, TypeOK, Slotted

LEMMA TypeInvNext == TypeInv /\ [Next]_vars => TypeInv'
  <1> SUFFICES ASSUME TypeInv, [Next]_vars PROVE TypeInv'
    OBVIOUS
  <1>1. CASE UNCHANGED vars
    BY <1>1 DEF vars, shm, local, sig, TypeInv, TypeOK, PollBound
  <1>2. CASE Next
    <2>1. PICK m \in Miners : Step(m) \/ Signal(m) \/ Terminate(m) \/ FailedExit(m)
      BY <1>2 DEF Next
    <2>2. CASE Step(m)
      BY <2>2, SemaphoreType, StatementType, SignallingType, OutsideType, PollType,
         AwardType, RecordType DEF Step
    <2> QED BY <2>1, <2>2, EnvironmentType
  <1> QED BY <1>1, <1>2

(* All shared and local variables of the miners keep their types; in        *)
(* particular no kill loop runs past 255 and _voting never passes the limit. *)
THEOREM TypeCorrect == Spec => []TypeOK
  <1>1. TypeInv => TypeOK
    BY DEF TypeInv
  <1> QED BY TypeInvInit, TypeInvNext, <1>1, PTL DEF Spec

-----------------------------------------------------------------------------
(* The first block. A joiner gets past its first sigsuspend by SIGUSR1, and *)
(* the first one of those is sent behind the first block.                   *)

(* Where First is before it sets the first block.                           *)
Early == {"reg_wait", "reg_slot", "reg_load", "reg_store", "reg_post",
          "registered", "first_wait", "first_set"}

Leaving == {"del_wait", "del_check", "del_post"} \cup Ended

(* A joiner that has not been woken by SIGUSR1: only an alarm gets it past  *)
(* its first sigsuspend, and then straight to the end of main.              *)
Idle(m) ==
  \/ pc[m] \in {"start", "reg_wait", "reg_slot", "reg_load", "reg_store", "reg_post",
                "registered", "to_suspend_first", "suspended_first"} \cup Leaving
  \/ pc[m] \in {"alloc", "top"} /\ shutdown[m]

FirstInv ==
  /\ \A m \in Miners : pc[m] \in {"first_wait", "first_set"} => m = First
  /\ pc[First] # "start"
  /\ pc[First] \in Early =>
       /\ current_block.id = 0
       /\ \A m \in Miners : "USR1" \notin pending[m]
       /\ \A m \in Miners \ {First} : Idle(m)

(* What a step of m does to the parts of FirstInv.                          *)
EarlyMove(m) ==
  /\ \A n \in Miners \ {m} : pc'[n] = pc[n] /\ shutdown'[n] = shutdown[n]
  /\ pc'[m] \in {"first_wait", "first_set"} =>
       m = First \/ pc[m] \in {"first_wait", "first_set"}
  /\ pc'[m] # "start" \/ pc[m] = "start"
  /\ pc'[m] \in Early => pc[m] \in Early \cup {"start"}
  /\ pc[m] \in Early =>
       /\ current_block.id = 0 => current_block'.id = 0
       /\ \A n \in Miners : "USR1" \in pending'[n] => "USR1" \in pending[n]
  /\ m # First /\ Idle(m) =>
       /\ current_block.id = 0 => current_block'.id = 0
       /\ \A n \in Miners : "USR1" \in pending'[n] => "USR1" \in pending[n]
       /\ "USR1" \notin pending[m] => Idle(m)'

LEMMA EarlyMoveKeeps ==
  ASSUME TypeOK, FirstInv, NEW m \in Miners, EarlyMove(m)
  PROVE  FirstInv'
  BY RoundsAssumption DEF FirstInv, EarlyMove, Idle, Early

LEMMA EarlySemaphore ==
  ASSUME TypeOK, NEW m \in Miners, SemWait(m) \/ SemPost(m)
  PROVE  EarlyMove(m)
  <1>1. \E e \in Entries \cup Exits : Goto(m, e[1], e[2])
    BY DEF SemWait, SemPost
  <1>2. UNCHANGED <<shutdown, pending, current_block>>
    BY DEF SemWait, SemPost, sig, shm
  <1> QED BY <1>1, <1>2 DEF Goto, Entries, Exits, TypeOK, EarlyMove, Idle, Early, Leaving, Ended

LEMMA EarlyStatement ==
  ASSUME TypeOK, NEW m \in Miners, Statement(m)
  PROVE  EarlyMove(m)
  <1>0. UNCHANGED <<shutdown, pending>>
    BY DEF Statement, sig
  <1> USE <1>0 DEF EarlyMove, Idle, Early, Leaving, Ended, TypeOK, Goto, Load, StoreBlock,
       SetLoad, shm
  <1>2. CASE Register(m)  BY <1>2 DEF Register
  <1>3. CASE AfterRegistering(m)
    <2>1. CASE m = First
      <3>1. Goto(m, "registered", "first_wait") /\ UNCHANGED shm
        BY <1>3, <2>1 DEF AfterRegistering
      <3> QED BY <2>1, <3>1
    <2>2. CASE m # First
      <3>1. Goto(m, "registered", "to_suspend_first") /\ UNCHANGED shm
        BY <1>3, <2>2 DEF AfterRegistering
      <3> QED BY <2>2, <3>1
    <2> QED BY <2>1, <2>2
  <1>4. CASE FirstBlock(m)
    BY <1>4 DEF FirstBlock, InitBlock
  <1>5. CASE JoinBlock(m) BY <1>5 DEF JoinBlock
  <1>6. CASE PublishAndVote(m) BY <1>6 DEF PublishAndVote
  <1>7. CASE NextBlock(m) BY <1>7 DEF NextBlock
  <1>8. CASE Vote(m) BY <1>8 DEF Vote, CountVote
  <1>9. CASE Deregister(m) BY <1>9 DEF Deregister
  <1> QED BY <1>2, <1>3, <1>4, <1>5, <1>6, <1>7, <1>8, <1>9 DEF Statement

LEMMA EarlyOutside ==
  ASSUME TypeOK, NEW m \in Miners,
         Signalling(m) \/ CheckRoom(m) \/ Allocate(m) \/ Top(m) \/ Mine(m)
         \/ Poll(m) \/ Award(m) \/ Record(m) \/ Suspend(m)
  PROVE  EarlyMove(m)
  <1> USE DEF EarlyMove, Idle, Early, Leaving, Ended, TypeOK, Goto, shm, sig
  <1>1. CASE Signalling(m)
    <2>1. \/ pc[m] \in {"first_kill", "win_kill", "next_kill"}
             /\ UNCHANGED <<pc, shutdown, current_block>>
          \/ pc[m] \in {"first_kill", "win_kill", "next_kill"}
             /\ pc' = [pc EXCEPT ![m] = pc'[m]] /\ UNCHANGED <<shutdown, pending, current_block>>
             /\ pc'[m] \in {"first_post", "win_total", "next_post"}
      BY <1>1 DEF Signalling, KillLoop
    <2> QED BY <2>1
  <1>2. CASE CheckRoom(m)  BY <1>2 DEF CheckRoom
  <1>3. CASE Allocate(m)   BY <1>3 DEF Allocate
  <1>4. CASE Top(m)        BY <1>4 DEF Top
  <1>5. CASE Mine(m)       BY <1>5 DEF Mine
  <1>6. CASE Poll(m)       BY <1>6 DEF Poll
  <1>7. CASE Award(m)      BY <1>7 DEF Award
  <1>8. CASE Record(m)     BY <1>8 DEF Record
  <1>9. CASE Suspend(m)    BY <1>9 DEF Suspend
  <1> QED BY <1>1, <1>2, <1>3, <1>4, <1>5, <1>6, <1>7, <1>8, <1>9

LEMMA EarlySignals ==
  ASSUME TypeOK, NEW m \in Miners, Wake(m) \/ Signal(m) \/ Terminate(m) \/ FailedExit(m)
  PROVE  EarlyMove(m)
  <1> USE DEF EarlyMove, Idle, Early, Leaving, Ended, TypeOK, Goto, shm, sig
  <1>1. CASE Wake(m)
    <2>1. "USR1" \notin pending[m] => shutdown'[m]
      BY <1>1 DEF Wake, WakeSignals
    <2>2. /\ \A n \in Miners : pending'[n] \subseteq pending[n]
          /\ \A n \in Miners \ {m} : shutdown'[n] = shutdown[n]
          /\ UNCHANGED current_block
      BY <1>1 DEF Wake
    <2>3. Goto(m, "suspended_first", "alloc") \/ Goto(m, "suspended", "top")
      BY <1>1 DEF Wake
    <2> QED BY <2>1, <2>2, <2>3
  <1>2. CASE Signal(m)
    <2>1. PICK s \in Signals : /\ Handle(m, s)
                               /\ \/ Deliver(m, s) \/ InterruptSemWait(m, s)
                                  \/ InterruptNap(m, s)
      BY <1>2 DEF Signal, Deliver, InterruptSemWait, InterruptNap
    <2>2. /\ UNCHANGED <<current_block>>
          /\ \A n \in Miners : pending'[n] \subseteq pending[n] /\ (shutdown[n] => shutdown'[n])
          /\ \A n \in Miners \ {m} : shutdown'[n] = shutdown[n]
      BY <2>1 DEF Handle
    <2>3. CASE Deliver(m, s)  BY <2>2, <2>3 DEF Deliver
    <2>4. CASE InterruptSemWait(m, s)  BY <2>2, <2>4 DEF InterruptSemWait, Entries
    <2>5. CASE InterruptNap(m, s)  BY <2>2, <2>5 DEF InterruptNap
    <2> QED BY <2>1, <2>3, <2>4, <2>5
  <1>3. CASE Terminate(m)  BY <1>3 DEF Terminate
  <1>4. CASE FailedExit(m)  BY <1>4 DEF FailedExit
  <1> QED BY <1>1, <1>2, <1>3, <1>4

LEMMA FirstInvInit == Init => FirstInv
  BY RoundsAssumption DEF Init, InitBlocks, InitLocals, InitBlock, FirstInv, Idle, Early

LEMMA FirstInvNext == TypeInv /\ FirstInv /\ [Next]_vars => FirstInv'
  <1> SUFFICES ASSUME TypeInv, FirstInv, [Next]_vars PROVE FirstInv'
    OBVIOUS
  <1>1. CASE UNCHANGED vars
    BY <1>1 DEF vars, shm, local, sig, FirstInv, Idle
  <1>2. CASE Next
    <2>1. PICK m \in Miners : Step(m) \/ Signal(m) \/ Terminate(m) \/ FailedExit(m)
      BY <1>2 DEF Next
    <2>2. EarlyMove(m)
      BY <2>1, EarlySemaphore, EarlyStatement, EarlyOutside, EarlySignals DEF Step, TypeInv
    <2> QED BY <2>2, EarlyMoveKeeps DEF TypeInv
  <1> QED BY <1>1, <1>2

(* Joiners wait in their first sigsuspend until the creator has set the     *)
(* first block: the only SIGUSR1 before it is its own, and an alarm leads   *)
(* them out of main, whatever sem_waits were interrupted.                   *)
THEOREM NobodyMinesBeforeFirst == Spec => []FirstBlockFirst
  <1>1. FirstInv => FirstBlockFirst
    BY DEF FirstInv, FirstBlockFirst, Early, Idle, Leaving, Ended
  <1>2. Init => TypeInv /\ FirstInv
    BY TypeInvInit, FirstInvInit
  <1>3. (TypeInv /\ FirstInv) /\ [Next]_vars => (TypeInv /\ FirstInv)'
    BY TypeInvNext, FirstInvNext
  <1> QED BY <1>1, <1>2, <1>3, PTL DEF Spec

-----------------------------------------------------------------------------
(* The steps that are no statement of a section, and what they leave alone. *)

(* The statements before which a miner in a section is between its votes.    *)
InVote == {"win_total_store", "win_fav", "win_fav_store",
           "lose_fav_store", "lose_total", "lose_total_store"}

(* Who is not in the table: not yet, or no longer.                          *)
Unlisted == {"start", "reg_wait", "reg_slot", "reg_load", "reg_store",
             "del_post", "exited", "last_exit"}

(* Where a miner is half way through a change of the table or of a block.   *)
Halfway == InVote \cup {"next_new", "reg_load", "reg_store"}

KillLabels == {"first_kill", "win_kill", "next_kill"}

OutsideMove(m) ==
  /\ UNCHANGED <<miners, num_miners, last_block>>
  /\ \A f \in {"id", "target", "solution", "miners", "num_voters", "total", "fav"} :
       current_block'[f] = current_block[f]
  /\ \A n \in Miners \ {m} : pc'[n] = pc[n] /\ load'[n] = load[n]
  /\ \/ pc'[m] = pc[m] /\ (load'[m] = load[m] \/ pc[m] \in KillLabels)
     \/ /\ pc[m] \notin Halfway /\ pc'[m] \notin Halfway
        /\ pc[m] \in Unlisted <=> pc'[m] \in Unlisted

(* A Goto is an outside move when its two labels allow it.                  *)
LEMMA OutsideGoto ==
  ASSUME TypeOK, NEW m \in Miners, NEW from, NEW to, Goto(m, from, to), UNCHANGED <<shm, load>>,
         from \notin Halfway, to \notin Halfway, from \in Unlisted <=> to \in Unlisted
  PROVE  OutsideMove(m)
  BY DEF OutsideMove, Goto, TypeOK, shm

LEMMA OutsideStill ==
  ASSUME NEW m \in Miners, UNCHANGED <<pc, shm, load>>
  PROVE  OutsideMove(m)
  BY DEF OutsideMove, shm

LEMMA OutsideMoves ==
  ASSUME TypeOK, NEW m \in Miners,
         \/ SemWait(m) \/ SemPost(m) \/ Signalling(m) \/ CheckRoom(m) \/ Allocate(m)
         \/ Top(m) \/ Mine(m) \/ Poll(m) \/ Award(m) \/ Record(m) \/ Suspend(m)
         \/ Wake(m) \/ Signal(m) \/ Terminate(m) \/ FailedExit(m)
  PROVE  OutsideMove(m)
  <1>0. \A e \in Entries \cup Exits :
          /\ e[1] \notin Halfway /\ e[2] \notin Halfway
          /\ e[1] \in Unlisted <=> e[2] \in Unlisted
    BY DEF Entries, Exits, Halfway, InVote, Unlisted
  <1>a. {"start", "exited", "reg_wait"} \subseteq Unlisted
    BY DEF Unlisted
  <1>b. {"alloc", "top", "del_wait", "join_wait", "mine", "lose_wait", "win_wait", "poll", "nap",
         "tally", "award", "write", "next_wait", "to_suspend_first", "suspended_first",
         "to_suspend", "suspended", "dead", "first_kill", "win_kill", "next_kill", "first_post",
         "win_total", "next_post"} \cap (Halfway \cup Unlisted) = {}
    BY DEF Halfway, InVote, Unlisted
  <1>c. {"start", "exited", "reg_wait"} \cap Halfway = {}
    BY DEF Halfway, InVote
  <1>1. CASE SemWait(m) \/ SemPost(m)
    <2>1. UNCHANGED <<shm, load>> /\ \E e \in Entries \cup Exits : Goto(m, e[1], e[2])
      BY <1>1 DEF SemWait, SemPost
    <2> QED BY <1>0, <2>1, OutsideGoto
  <1>2. CASE Signalling(m)
    <2>1. /\ UNCHANGED shm /\ pc[m] \in KillLabels /\ load' = [load EXCEPT ![m] = load'[m]]
          /\ \/ UNCHANGED pc
             \/ \E to \in {"first_post", "win_total", "next_post"} : Goto(m, pc[m], to)
      <3>1. PICK from \in KillLabels, to \in {"first_post", "win_total", "next_post"},
                 slots \in {miners, current_block.miners},
                 num \in {num_miners, current_block.num_voters}, s \in Signals :
              KillLoop(m, from, to, slots, num, s)
        BY <1>2 DEF Signalling, KillLabels, Signals
      <3>2. UNCHANGED shm /\ \E i : SetLoad(m, i)
        BY <3>1 DEF KillLoop
      <3>3. pc[m] = from /\ (UNCHANGED pc \/ Goto(m, from, to))
        BY <3>1 DEF KillLoop, Goto
      <3>4. load' = [load EXCEPT ![m] = load'[m]]
        BY <3>2 DEF SetLoad, TypeOK
      <3> QED BY <3>2, <3>3, <3>4
    <2>2. \A n \in Miners \ {m} : load'[n] = load[n]
      BY <2>1 DEF TypeOK
    <2>3. CASE UNCHANGED pc
      BY <2>1, <2>2, <2>3 DEF OutsideMove, shm
    <2>4. CASE \E to \in {"first_post", "win_total", "next_post"} : Goto(m, pc[m], to)
      BY <1>b, <2>1, <2>2, <2>4 DEF OutsideMove, shm, Goto, TypeOK, KillLabels
    <2> QED BY <2>1, <2>3, <2>4
  <1>3. CASE CheckRoom(m)
    <2>1. \E to \in {"exited", "reg_wait"} : Goto(m, "start", to)
      BY <1>3 DEF CheckRoom
    <2> QED BY <1>3, <1>a, <1>c, <2>1, OutsideGoto DEF CheckRoom
  <1>4. CASE Mine(m)
    <2>1. \E to \in {"lose_wait", "win_wait"} : Goto(m, "mine", to)
      BY <1>4 DEF Mine
    <2> QED BY <1>4, <1>b, <2>1, OutsideGoto DEF Mine
  <1>5. CASE Award(m)
    <2>1. /\ UNCHANGED <<miners, num_miners, last_block, load>>
          /\ \E from \in {"tally", "award"}, to \in {"award", "write"} : Goto(m, from, to)
      BY <1>5 DEF Award
    <2>2. \A f \in {"id", "target", "solution", "miners", "num_voters", "total", "fav"} :
            current_block'[f] = current_block[f]
      BY <1>5 DEF Award, TypeOK, Blocks
    <2> QED BY <1>b, <2>1, <2>2 DEF OutsideMove, Goto, TypeOK
  <1>6. CASE Allocate(m) \/ Top(m) \/ Poll(m) \/ Record(m) \/ Suspend(m) \/ Wake(m)
    <2>1. /\ UNCHANGED <<shm, load>>
          /\ \E from, to \in {"alloc", "top", "del_wait", "join_wait", "poll", "nap", "tally", "write",
                "next_wait", "to_suspend_first", "suspended_first", "to_suspend", "suspended"} :
               Goto(m, from, to)
      <3>1. CASE Allocate(m)  BY <3>1 DEF Allocate
      <3>2. CASE Top(m)       BY <3>2 DEF Top
      <3>3. CASE Poll(m)      BY <3>3 DEF Poll
      <3>4. CASE Record(m)    BY <3>4 DEF Record
      <3>5. CASE Suspend(m)   BY <3>5 DEF Suspend
      <3>6. CASE Wake(m)      BY <3>6 DEF Wake
      <3> QED BY <1>6, <3>1, <3>2, <3>3, <3>4, <3>5, <3>6
    <2> QED BY <1>b, <2>1, OutsideGoto
  <1>7. CASE Signal(m) \/ Terminate(m) \/ FailedExit(m)
    <2>1. UNCHANGED <<shm, load>>
      BY <1>7 DEF Signal, Deliver, InterruptSemWait, InterruptNap, Handle, Terminate, FailedExit
    <2>2. \/ UNCHANGED pc
          \/ \E e \in Entries : Goto(m, e[1], e[2])
          \/ \E from \in {"nap", "alloc", "mine", "write"} : Goto(m, from, "dead")
      BY <1>7 DEF Signal, Deliver, InterruptSemWait, InterruptNap, Terminate, FailedExit, Goto
    <2> QED BY <1>0, <1>b, <2>1, <2>2, OutsideGoto, OutsideStill
  <1> QED BY <1>1, <1>2, <1>3, <1>4, <1>5, <1>6, <1>7

-----------------------------------------------------------------------------
(* The chain. Only three statements, all in sections, change the id or the  *)
(* target of the current block or replace the last one.                     *)

(* Between next_last and next_new, last_block is a copy of current_block;   *)
(* at all other times the two are linked.                                   *)
Copied == last_block.id = current_block.id

Linked == \/ current_block.id = 0
          \/ /\ current_block.id = last_block.id + 1
             /\ current_block.target = last_block.solution

ChainInv ==
  interrupted = 0 =>
    IF \E m \in Miners : pc[m] = "next_new" THEN Copied ELSE Linked

(* What a step of m does to the two blocks.                                 *)
KeepsBlocks(m) ==
  /\ UNCHANGED last_block
  /\ current_block'.id = current_block.id /\ current_block'.target = current_block.target
  /\ \A n \in Miners : pc'[n] = "next_new" <=> pc[n] = "next_new"

SetsFirst(m) ==
  /\ Goto(m, "first_set", "first_kill")
  /\ current_block' = InitBlock(-1, 0) /\ UNCHANGED last_block

CopiesBlock(m) ==
  /\ Goto(m, "next_last", "next_new")
  /\ last_block' = current_block /\ UNCHANGED current_block

Renews(m) ==
  /\ Goto(m, "next_new", "next_kill")
  /\ current_block' = Successor(last_block) /\ UNCHANGED last_block

BlockMove(m) == KeepsBlocks(m) \/ SetsFirst(m) \/ CopiesBlock(m) \/ Renews(m)

LEMMA BlockStatement ==
  ASSUME TypeOK, NEW m \in Miners, Statement(m)
  PROVE  BlockMove(m)
  <1> USE DEF TypeOK, Goto, Load, StoreBlock, SetLoad, shm, KeepsBlocks, Blocks
  <1>2. CASE Register(m)
    <2>1. KeepsBlocks(m)  BY <1>2 DEF Register
    <2> QED BY <2>1 DEF BlockMove
  <1>3. CASE AfterRegistering(m)
    <2>1. KeepsBlocks(m)
      <3>1. \E to \in {"first_wait", "to_suspend_first"} : Goto(m, "registered", to)
        BY <1>3 DEF AfterRegistering
      <3> QED BY <1>3, <3>1 DEF AfterRegistering
    <2> QED BY <2>1 DEF BlockMove
  <1>4. CASE FirstBlock(m)
    <2>1. SetsFirst(m)  BY <1>4 DEF FirstBlock, SetsFirst
    <2> QED BY <2>1 DEF BlockMove
  <1>5. CASE JoinBlock(m)
    <2>1. KeepsBlocks(m)  BY <1>5 DEF JoinBlock
    <2> QED BY <2>1 DEF BlockMove
  <1>6. CASE PublishAndVote(m)
    <2>1. KeepsBlocks(m)  BY <1>6 DEF PublishAndVote
    <2> QED BY <2>1 DEF BlockMove
  <1>7. CASE NextBlock(m)
    BY <1>7 DEF NextBlock, CopiesBlock, Renews, BlockMove
  <1>8. CASE Vote(m)
    <2>1. KeepsBlocks(m)  BY <1>8 DEF Vote, CountVote
    <2> QED BY <2>1 DEF BlockMove
  <1>9. CASE Deregister(m)
    <2>1. \E to \in {"last_exit", "del_post"} : Goto(m, "del_check", to)
      BY <1>9 DEF Deregister
    <2>2. KeepsBlocks(m)  BY <1>9, <2>1 DEF Deregister
    <2> QED BY <2>2 DEF BlockMove
  <1> QED BY <1>2, <1>3, <1>4, <1>5, <1>6, <1>7, <1>8, <1>9 DEF Statement

LEMMA BlockOutside ==
  ASSUME NEW m \in Miners, OutsideMove(m)
  PROVE  KeepsBlocks(m)
  BY DEF OutsideMove, KeepsBlocks, Halfway

LEMMA BlockNext ==
  ASSUME TypeOK, Next
  PROVE  \E m \in Miners : BlockMove(m)
  <1>1. PICK m \in Miners : Step(m) \/ Signal(m) \/ Terminate(m) \/ FailedExit(m)
    BY DEF Next
  <1> QED BY <1>1, BlockStatement, BlockOutside, OutsideMoves DEF Step, BlockMove

(* interrupted only grows.                                                  *)
LEMMA InterruptedGrows ==
  ASSUME TypeOK, [Next]_vars, interrupted' = 0
  PROVE  interrupted = 0
  <1>1. CASE UNCHANGED vars  BY <1>1 DEF vars
  <1>2. CASE Next
    <2>1. PICK m \in Miners : Step(m) \/ Signal(m) \/ Terminate(m) \/ FailedExit(m)
      BY <1>2 DEF Next
    <2>2. interrupted' \in {interrupted, interrupted + 1}
      BY <2>1 DEF Step, SemWait, SemPost, Statement, Signalling, KillLoop, CheckRoom,
         Allocate, Top, Mine, Poll, Award, Record, Suspend, Wake, Signal, Deliver,
         InterruptSemWait, InterruptNap, Terminate, FailedExit
    <2> QED BY <2>2 DEF TypeOK
  <1> QED BY <1>1, <1>2

LEMMA ChainInit == Init => ChainInv
  BY DEF Init, InitBlocks, InitBlock, ChainInv, Linked

LEMMA ChainNext == TypeInv /\ SemInv /\ ChainInv /\ [Next]_vars => ChainInv'
  <1> SUFFICES ASSUME TypeInv, SemInv, ChainInv, [Next]_vars, interrupted' = 0
               PROVE  ChainInv'
    BY DEF ChainInv
  <1>0. interrupted = 0 /\ TypeOK /\ TypeOK'
    BY InterruptedGrows, TypeInvNext DEF TypeInv
  <1>1. CASE UNCHANGED vars
    BY <1>1 DEF vars, shm, ChainInv, Copied, Linked
  <1>2. CASE Next
    <2>1. PICK m \in Miners : BlockMove(m)
      BY <1>0, <1>2, BlockNext
    <2>2. \A k, n \in Inside : k = n
      BY <1>0, ExclusiveFromSum DEF ExclusionUnlessInterrupted
    <2>3. \A n \in Miners : pc[n] \in {"next_new", "next_last", "first_set"} => n \in Inside
      BY DEF Inside, Protected
    <2>4. CASE KeepsBlocks(m)
      BY <1>0, <2>4 DEF KeepsBlocks, ChainInv, Copied, Linked
    <2>5. CASE SetsFirst(m)
      <3>1. \A n \in Miners : pc'[n] # "next_new"
        BY <1>0, <2>2, <2>3, <2>5 DEF SetsFirst, Goto, TypeOK
      <3>2. current_block'.id = 0
        BY <2>5 DEF SetsFirst, InitBlock
      <3> QED BY <3>1, <3>2 DEF ChainInv, Linked
    <2>6. CASE CopiesBlock(m)
      <3>1. pc'[m] = "next_new"
        BY <1>0, <2>6 DEF CopiesBlock, Goto, TypeOK
      <3> QED BY <2>6, <3>1 DEF CopiesBlock, ChainInv, Copied
    <2>7. CASE Renews(m)
      <3>1. \A n \in Miners : pc'[n] # "next_new"
        BY <1>0, <2>2, <2>3, <2>7 DEF Renews, Goto, TypeOK
      <3>2. current_block'.id = last_block.id + 1 /\ current_block'.target = last_block.solution
        BY <2>7 DEF Renews, Successor, InitBlock
      <3> QED BY <2>7, <3>1, <3>2 DEF Renews, ChainInv, Linked
    <2> QED BY <2>1, <2>4, <2>5, <2>6, <2>7 DEF BlockMove
  <1> QED BY <1>1, <1>2

LEMMA RoundInvAlways == Spec => [](TypeInv /\ SemInv /\ FirstInv /\ ChainInv)
  <1>1. Init => TypeInv /\ SemInv /\ FirstInv /\ ChainInv
    BY TypeInvInit, SemInvInit, FirstInvInit, ChainInit
  <1>2. (TypeInv /\ SemInv /\ FirstInv /\ ChainInv) /\ [Next]_vars
          => (TypeInv /\ SemInv /\ FirstInv /\ ChainInv)'
    BY TypeInvNext, SemInvNext, FirstInvNext, ChainNext
  <1> QED BY <1>1, <1>2, PTL DEF Spec

(* Unless a sem_wait was interrupted, the current block is the first one or  *)
(* carries the next id and the last block's solution as its target: two      *)
(* winners of one round copy and renew one after the other.                  *)
THEOREM BlocksFormAChain == Spec => []ChainLinked
  <1>1. ChainInv => ChainLinked
    BY DEF ChainInv, Linked, ChainLinked, Quiet, Inside, Protected
  <1> QED BY <1>1, RoundInvAlways, PTL

(* And no step sets the id back or skips one; in particular the creator's    *)
(* init_block does not overwrite a later block.                              *)
THEOREM IdsNeverGoBack == Spec => IdsAdvance
  <1>1. ASSUME TypeInv, SemInv, FirstInv, ChainInv, [Next]_vars, interrupted' = 0
        PROVE  current_block'.id \in {current_block.id, current_block.id + 1}
    <2>0. interrupted = 0 /\ TypeOK
      BY <1>1, InterruptedGrows DEF TypeInv
    <2>1. CASE UNCHANGED vars
      BY <2>1 DEF vars, shm
    <2>2. CASE Next
      <3>1. PICK m \in Miners : BlockMove(m)
        BY <2>0, <2>2, BlockNext
      <3>2. CASE SetsFirst(m)
        <4>1. current_block.id = 0
          BY <1>1, <3>2 DEF SetsFirst, Goto, FirstInv, Early
        <4> QED BY <3>2, <4>1 DEF SetsFirst, InitBlock
      <3>3. CASE Renews(m)
        <4>1. Copied
          BY <1>1, <2>0, <3>3 DEF Renews, Goto, ChainInv
        <4> QED BY <3>3, <4>1 DEF Renews, Copied, Successor, InitBlock
      <3> QED BY <3>1, <3>2, <3>3 DEF BlockMove, KeepsBlocks, CopiesBlock
    <2> QED BY <1>1, <2>1, <2>2
  <1> QED BY <1>1, RoundInvAlways, PTL DEF Spec, IdsAdvance

-----------------------------------------------------------------------------
(* The votes. Of the two counters one is ahead of the other in the middle   *)
(* of a section only.                                                       *)

(* No vote is the 256th of its block: total_votes is a uint8_t, and with as  *)
(* many votes it would be 0 again. The table has 100 slots.                  *)
FewVotes ==
  \A m \in Miners : pc[m] \in {"win_total_store", "lose_total_store"} => load[m] < 255

(* What m has loaded, and how far its two counters are apart.                *)
VoteOf(m) ==
  /\ pc[m] \in {"win_total_store", "lose_total_store"} => load[m] = current_block.total
  /\ pc[m] \in {"win_fav_store", "lose_fav_store"} => load[m] = current_block.fav
  /\ pc[m] \in {"win_fav", "win_fav_store"} => current_block.fav < current_block.total
  /\ pc[m] \in {"lose_total", "lose_total_store"}
       => current_block.fav <= current_block.total + 1
  /\ pc[m] \in {"win_total_store", "lose_fav_store"}
       => current_block.fav <= current_block.total

VoteInv ==
  interrupted = 0 =>
    /\ \A m \in Miners : VoteOf(m)
    /\ (\A m \in Miners : pc[m] \notin InVote) => current_block.fav <= current_block.total

KeepsVotes(m) ==
  /\ current_block'.total = current_block.total /\ current_block'.fav = current_block.fav
  /\ \A n \in Miners : pc[n] \in InVote \/ pc'[n] \in InVote
                         => pc'[n] = pc[n] /\ load'[n] = load[n]

ForgetsVotes(m) ==
  /\ \/ Goto(m, "first_set", "first_kill")
     \/ Goto(m, "next_new", "next_kill")
  /\ current_block'.total = 0 /\ current_block'.fav = 0

VoteMove(m) ==
  \/ KeepsVotes(m)
  \/ ForgetsVotes(m)
  \/ PublishAndVote(m)
  \/ Vote(m)

LEMMA VoteStatement ==
  ASSUME TypeOK, NEW m \in Miners, Statement(m)
  PROVE  VoteMove(m)
  <1> USE DEF TypeOK, Goto, Load, StoreBlock, SetLoad, shm, KeepsVotes, Blocks, InVote
  <1>2. CASE Register(m)
    <2>1. KeepsVotes(m)  BY <1>2 DEF Register
    <2> QED BY <2>1 DEF VoteMove
  <1>3. CASE AfterRegistering(m)
    <2>1. KeepsVotes(m)
      <3>1. \E to \in {"first_wait", "to_suspend_first"} : Goto(m, "registered", to)
        BY <1>3 DEF AfterRegistering
      <3> QED BY <1>3, <3>1 DEF AfterRegistering
    <2> QED BY <2>1 DEF VoteMove
  <1>4. CASE FirstBlock(m)
    <2>1. ForgetsVotes(m)  BY <1>4 DEF FirstBlock, ForgetsVotes, InitBlock
    <2> QED BY <2>1 DEF VoteMove
  <1>5. CASE JoinBlock(m)
    <2>1. current_block'.total = current_block.total /\ current_block'.fav = current_block.fav
      BY <1>5 DEF JoinBlock
    <2>2. /\ \E from, to : {from, to} \cap InVote = {} /\ Goto(m, from, to)
          /\ load' = [load EXCEPT ![m] = load'[m]]
      BY <1>5 DEF JoinBlock
    <2>3. KeepsVotes(m)  BY <2>1, <2>2
    <2> QED BY <2>3 DEF VoteMove
  <1>7. CASE NextBlock(m)
    <2>1. CASE Goto(m, "next_last", "next_new") /\ UNCHANGED <<current_block, load>>
      <3>1. KeepsVotes(m)  BY <2>1
      <3> QED BY <3>1 DEF VoteMove
    <2>2. CASE StoreBlock(m, "next_new", "next_kill", Successor(last_block))
      <3>1. ForgetsVotes(m)  BY <2>2 DEF ForgetsVotes, Successor, InitBlock
      <3> QED BY <3>1 DEF VoteMove
    <2> QED BY <1>7, <2>1, <2>2 DEF NextBlock
  <1>9. CASE Deregister(m)
    <2>1. \E to \in {"last_exit", "del_post"} : Goto(m, "del_check", to)
      BY <1>9 DEF Deregister
    <2>2. KeepsVotes(m)  BY <1>9, <2>1 DEF Deregister
    <2> QED BY <2>2 DEF VoteMove
  <1> QED BY <1>2, <1>3, <1>4, <1>5, <1>7, <1>9 DEF Statement, VoteMove

LEMMA VoteOutside ==
  ASSUME NEW m \in Miners, OutsideMove(m)
  PROVE  KeepsVotes(m)
  BY DEF OutsideMove, KeepsVotes, Halfway, InVote, KillLabels

LEMMA VoteInit == Init => VoteInv
  BY DEF Init, InitBlocks, InitBlock, VoteInv, VoteOf

(* The votes themselves. Nobody else is in a section.                        *)
LEMMA VoteStep ==
  ASSUME TypeInv, FewVotes, NEW m \in Miners, VoteOf(m),
         \A n \in Miners \ {m} : pc[n] \notin InVote,
         pc[m] \notin InVote => current_block.fav <= current_block.total,
         PublishAndVote(m) \/ Vote(m)
  PROVE  /\ \A n \in Miners : VoteOf(n)'
         /\ (\A n \in Miners : pc'[n] \notin InVote)
              => current_block'.fav <= current_block'.total
  <1>1. /\ current_block.fav \in 0 .. 255 /\ current_block.total \in 0 .. 255
        /\ load[m] \in 0 .. 255 /\ load \in [Miners -> 0 .. 255] /\ pc \in [Miners -> Labels]
        /\ current_block \in Blocks
    BY DEF TypeInv, TypeOK, Blocks
  <1>2. /\ \A n \in 0 .. 255 : UInt8(n + 1) <= n + 1
        /\ \A n \in 0 .. 254 : UInt8(n + 1) = n + 1
    BY DEF UInt8
  <1>3. \A n \in Miners \ {m} : pc'[n] = pc[n]
    BY <1>1 DEF PublishAndVote, Vote, CountVote, Goto, Load, StoreBlock
  <1> USE DEF Goto, Load, StoreBlock, SetLoad, shm, InVote
  <1>4. CASE PublishAndVote(m)
    <2>1. CASE pc[m] = "win_solution"
      <3>1. /\ current_block' = [current_block EXCEPT !.solution = solution[m]]
            /\ pc'[m] = "win_kill"
        BY <1>1, <1>4, <2>1 DEF PublishAndVote
      <3>2. current_block'.fav = current_block.fav /\ current_block'.total = current_block.total
        BY <1>1, <3>1 DEF Blocks
      <3> QED BY <1>3, <2>1, <3>1, <3>2 DEF VoteOf
    <2>2. CASE pc[m] = "win_total"
      <3>1. UNCHANGED current_block /\ pc'[m] = "win_total_store" /\ load'[m] = current_block.total
        BY <1>1, <1>4, <2>2 DEF PublishAndVote
      <3> QED BY <1>3, <2>2, <3>1 DEF VoteOf
    <2>3. CASE pc[m] = "win_total_store"
      <3>1. current_block' = [current_block EXCEPT !.total = Bump(m)] /\ pc'[m] = "win_fav"
        BY <1>1, <1>4, <2>3 DEF PublishAndVote
      <3>2. Bump(m) = current_block.total + 1
        BY <1>1, <1>2, <2>3 DEF Bump, VoteOf, FewVotes
      <3>3. current_block'.fav = current_block.fav /\ current_block'.total = current_block.total + 1
        BY <1>1, <3>1, <3>2 DEF Blocks
      <3>4. current_block'.fav < current_block'.total
        <4>1. current_block.fav <= current_block.total
          BY <2>3 DEF VoteOf
        <4>2. current_block.fav \in Int /\ current_block.total \in Int
          BY <1>1
        <4> QED BY <3>3, <4>1, <4>2
      <3>5. VoteOf(m)'
        BY <3>1, <3>4 DEF VoteOf
      <3>6. \A n \in Miners \ {m} : VoteOf(n)'
        BY <1>3 DEF VoteOf
      <3> QED BY <3>1, <3>5, <3>6
    <2>4. CASE pc[m] = "win_fav"
      <3>1. UNCHANGED current_block /\ pc'[m] = "win_fav_store" /\ load'[m] = current_block.fav
        BY <1>1, <1>4, <2>4 DEF PublishAndVote
      <3> QED BY <1>3, <2>4, <3>1 DEF VoteOf
    <2>5. CASE pc[m] = "win_fav_store"
      <3>1. current_block' = [current_block EXCEPT !.fav = Bump(m)] /\ pc'[m] = "win_post"
        BY <1>1, <1>4, <2>5 DEF PublishAndVote
      <3>2. Bump(m) <= current_block.total
        <4>1. load[m] < current_block.total
          BY <1>1, <2>5 DEF VoteOf
        <4>2. load[m] \in 0 .. 254 /\ current_block.total \in Int
          BY <1>1, <4>1
        <4>3. Bump(m) = load[m] + 1
          BY <1>2, <4>2 DEF Bump
        <4> QED BY <4>1, <4>2, <4>3
      <3>3. current_block'.fav = Bump(m) /\ current_block'.total = current_block.total
        BY <1>1, <3>1 DEF Blocks
      <3> QED BY <1>1, <1>3, <2>5, <3>1, <3>2, <3>3 DEF VoteOf
    <2> QED BY <1>4, <2>1, <2>2, <2>3, <2>4, <2>5 DEF PublishAndVote
  <1>5. CASE Vote(m)
    <2>1. CASE pc[m] = "lose_compare"
      <3>1. /\ UNCHANGED current_block
            /\ \/ pc'[m] = "lose_fav_store" /\ load'[m] = current_block.fav
               \/ pc'[m] = "lose_total"
        BY <1>1, <1>5, <2>1 DEF Vote, CountVote
      <3>2. current_block.fav <= current_block.total /\ current_block.fav <= current_block.total + 1
        <4>1. current_block.fav <= current_block.total
          BY <2>1
        <4>2. current_block.fav \in Int /\ current_block.total \in Int
          BY <1>1
        <4> QED BY <4>1, <4>2
      <3>3. VoteOf(m)'
        BY <3>1, <3>2 DEF VoteOf
      <3>4. \A n \in Miners \ {m} : VoteOf(n)'
        BY <1>3 DEF VoteOf
      <3> QED BY <3>1, <3>3, <3>4
    <2>2. CASE pc[m] = "lose_fav_store"
      <3>1. current_block' = [current_block EXCEPT !.fav = Bump(m)] /\ pc'[m] = "lose_total"
        BY <1>1, <1>5, <2>2 DEF Vote, CountVote
      <3>2. Bump(m) <= current_block.total + 1
        <4>1. Bump(m) <= load[m] + 1 /\ Bump(m) \in 0 .. 255
          BY <1>1, <1>2, ByteFits DEF Bump
        <4>2. load[m] <= current_block.total
          BY <1>1, <2>2 DEF VoteOf
        <4>3. load[m] \in Int /\ current_block.total \in Int
          BY <1>1
        <4> HIDE DEF Bump
        <4> QED BY <4>1, <4>2, <4>3
      <3>3. current_block'.fav = Bump(m) /\ current_block'.total = current_block.total
        BY <1>1, <3>1 DEF Blocks
      <3> QED BY <1>1, <1>3, <2>2, <3>1, <3>2, <3>3 DEF VoteOf
    <2>3. CASE pc[m] = "lose_total"
      <3>1. UNCHANGED current_block /\ pc'[m] = "lose_total_store" /\ load'[m] = current_block.total
        BY <1>1, <1>5, <2>3 DEF Vote, CountVote
      <3> QED BY <1>3, <2>3, <3>1 DEF VoteOf
    <2>4. CASE pc[m] = "lose_total_store"
      <3>1. current_block' = [current_block EXCEPT !.total = Bump(m)] /\ pc'[m] = "lose_post"
        BY <1>1, <1>5, <2>4 DEF Vote, CountVote
      <3>2. Bump(m) = current_block.total + 1
        BY <1>1, <1>2, <2>4 DEF Bump, VoteOf, FewVotes
      <3>3. current_block'.fav = current_block.fav /\ current_block'.total = current_block.total + 1
        BY <1>1, <3>1, <3>2 DEF Blocks
      <3> QED BY <1>1, <1>3, <2>4, <3>1, <3>3 DEF VoteOf
    <2> QED BY <1>5, <2>1, <2>2, <2>3, <2>4 DEF Vote, CountVote
  <1> QED BY <1>4, <1>5

LEMMA VoteNext == TypeInv /\ SemInv /\ FewVotes /\ VoteInv /\ [Next]_vars => VoteInv'
  <1> SUFFICES ASSUME TypeInv, SemInv, FewVotes, VoteInv, [Next]_vars, interrupted' = 0
               PROVE  VoteInv'
    BY DEF VoteInv
  <1>0. interrupted = 0 /\ TypeOK
    BY InterruptedGrows DEF TypeInv
  <1>1. CASE UNCHANGED vars
    BY <1>1 DEF vars, shm, VoteInv, VoteOf
  <1>2. CASE Next
    <2>0. PICK m \in Miners : Step(m) \/ Signal(m) \/ Terminate(m) \/ FailedExit(m)
      BY <1>2 DEF Next
    <2>1. VoteMove(m)
      BY <1>0, <2>0, VoteStatement, VoteOutside, OutsideMoves DEF Step, VoteMove
    <2>2. pc[m] \in Protected => \A n \in Miners \ {m} : pc[n] \notin InVote
      BY <1>0, ExclusiveFromSum DEF ExclusionUnlessInterrupted, Inside, InVote, Protected
    <2>3. /\ VoteOf(m)
          /\ (\A n \in Miners : pc[n] \notin InVote)
               => current_block.fav <= current_block.total
      BY <1>0 DEF VoteInv
    <2>4. CASE KeepsVotes(m)
      <3>1. \A n \in Miners : VoteOf(n)'
        BY <1>0, <2>4 DEF KeepsVotes, VoteInv, VoteOf, InVote
      <3>2. (\A n \in Miners : pc'[n] \notin InVote) => \A n \in Miners : pc[n] \notin InVote
        BY <2>4 DEF KeepsVotes
      <3> QED BY <2>3, <2>4, <3>1, <3>2 DEF KeepsVotes, VoteInv
    <2>5. CASE ForgetsVotes(m)
      <3>1. \A n \in Miners : pc'[n] \notin InVote
        <4>1. /\ pc[m] \in Protected /\ pc'[m] \notin InVote
              /\ \A n \in Miners \ {m} : pc'[n] = pc[n]
          BY <1>0, <2>5 DEF ForgetsVotes, Goto, TypeOK, InVote, Protected
        <4> QED BY <2>2, <4>1
      <3> QED BY <2>5, <3>1 DEF ForgetsVotes, VoteInv, VoteOf, InVote
    <2>6. CASE PublishAndVote(m) \/ Vote(m)
      <3>1. pc[m] \in Protected
        BY <2>6 DEF PublishAndVote, Vote, CountVote, Load, StoreBlock, Goto, Protected
      <3>2. pc[m] \notin InVote => current_block.fav <= current_block.total
        BY <2>2, <2>3, <3>1
      <3> QED BY <2>2, <2>3, <2>6, <3>1, <3>2, VoteStep DEF VoteInv
    <2> QED BY <2>1, <2>4, <2>5, <2>6 DEF VoteMove
  <1> QED BY <1>1, <1>2

(* Unless a sem_wait was interrupted or total_votes has wrapped, there are   *)
(* never more favourable votes than votes between sections, also when late   *)
(* losers vote for a block they never joined.                                *)
THEOREM VotesAddUp == Spec /\ []FewVotes => []VotesConsistent
  <1>1. Init => TypeInv /\ SemInv /\ VoteInv
    BY TypeInvInit, SemInvInit, VoteInit
  <1>2. (TypeInv /\ SemInv /\ VoteInv) /\ FewVotes /\ [Next]_vars
          => (TypeInv /\ SemInv /\ VoteInv)'
    BY TypeInvNext, SemInvNext, VoteNext
  <1>3. VoteInv => VotesConsistent
    BY DEF VoteInv, VotesConsistent, Quiet, Inside, InVote, Protected
  <1> QED BY <1>1, <1>2, <1>3, PTL DEF Spec

-----------------------------------------------------------------------------
(* The lone miner. Nobody else sends signals, so its round is a sequence,   *)
(* and each stage of it says what is in the block and in its books.         *)

(* The statements of a round that First mines alone, in their order.        *)
Unjoined == {"reg_wait", "reg_slot", "reg_load", "reg_store", "reg_post", "registered",
             "first_wait", "first_set", "first_kill", "first_post", "alloc", "top",
             "next_kill", "next_post"}
Joining   == {"join_wait", "join_slot"}
Joined    == {"join_load", "join_store"}
Mining    == {"join_post", "mine"}
Found     == {"win_wait", "win_solution"}
Published == {"win_kill", "win_total", "win_total_store"}
Voted     == {"win_fav", "win_fav_store"}
Won       == {"win_post", "poll", "nap", "tally", "award"}
Recorded  == {"next_wait", "next_last"}
Gone      == {"del_wait", "del_check", "del_post", "exited", "last_exit"}

BeforeVote == Unjoined \cup Joining \cup Joined \cup Mining \cup Found \cup Published
Unrecorded == BeforeVote \cup Voted \cup Won \cup {"write"}

SoloBlock ==
  /\ pc[First] \in Unrecorded \cup Recorded \cup Gone \cup {"next_new", "dead"}
  /\ pc[First] \in Unrecorded => current_block.id = Len(ledger[First])
  /\ pc[First] \in Recorded => current_block.id + 1 = Len(ledger[First])
  /\ pc[First] = "next_new" => last_block.id + 1 = Len(ledger[First])
  /\ pc[First] \in Unjoined \cup Joining \cup Joined => current_block.num_voters = 0
  /\ pc[First] \in Mining \cup Found \cup {"win_kill"} => current_block.num_voters = 1
  /\ pc[First] \in Joined \cup Mining \cup Found \cup {"win_kill"}
       => current_block.miners[0] = First
  /\ pc[First] \in {"join_store", "win_total_store", "win_fav_store"} => load[First] = 0
  /\ pc[First] \in BeforeVote => current_block.total = 0
  /\ pc[First] \in Voted \cup Won => current_block.total = 1
  /\ pc[First] \in BeforeVote \cup Voted => current_block.fav = 0
  /\ pc[First] \in Won => current_block.fav = 1
  /\ pc[First] \in Unrecorded \ Unjoined => target[First] = current_block.target
  /\ pc[First] \in Found \cup Published \cup Voted \cup Won \cup {"write"}
       => solution[First] = Solve(target[First])
  /\ pc[First] \in Published \cup Voted \cup Won \cup {"write"}
       => current_block.solution = solution[First]
  /\ pc[First] = "write" => current_block.winner = First

SoloBooks ==
  /\ \A i \in DOMAIN ledger[First] :
       LET b == ledger[First][i]
       IN  b.id = i - 1 /\ b.solution = Solve(b.target) /\ b.winner = First
  /\ pc[First] # "dead" =>
       coins[First] = Len(ledger[First]) + (IF pc[First] = "write" THEN 1 ELSE 0)

SoloSignals == ~sigusr2[First] /\ "USR2" \notin pending[First]

SoloInv == Alone => SoloBlock /\ SoloBooks /\ SoloSignals

(* What is true of a stage does not depend on where in it First is.          *)
LEMMA SameStage ==
  ASSUME SoloBlock, SoloBooks,
         NEW S \in {Unjoined, Joining, Mining, Found, Won, Recorded, Gone},
         pc[First] \in S, pc'[First] \in S, UNCHANGED <<shm, load, target, solution, coins, ledger>>
  PROVE  SoloBlock' /\ SoloBooks'
  <1> USE DEF shm, SoloBlock, BeforeVote, Unrecorded, Unjoined, Joining, Joined, Mining,
          Found, Published, Voted, Won, Recorded, Gone
  <1>1. pc[First] \notin {"write", "dead"} /\ pc'[First] \notin {"write", "dead"}
    OBVIOUS
  <1>2. SoloBooks'
    BY <1>1 DEF SoloBooks
  <1>3. SoloBlock'
    <2>1. CASE S = Unjoined  BY <2>1
    <2>2. CASE S = Joining   BY <2>2
    <2>3. CASE S = Mining    BY <2>3
    <2>4. CASE S = Found     BY <2>4
    <2>5. CASE S = Won       BY <2>5
    <2>6. CASE S = Recorded  BY <2>6
    <2>7. CASE S = Gone      BY <2>7
    <2> QED BY <2>1, <2>2, <2>3, <2>4, <2>5, <2>6, <2>7
  <1> QED BY <1>2, <1>3

LEMMA SoloStatement ==
  ASSUME TypeInv, FirstInv, SoloBlock, SoloBooks, SoloSignals, Statement(First)
  PROVE  SoloBlock' /\ SoloBooks' /\ SoloSignals'
  <1>0. /\ First \in Miners /\ pc \in [Miners -> Labels] /\ load \in [Miners -> 0 .. 255]
        /\ current_block \in Blocks /\ last_block \in Blocks
    BY RoundsAssumption DEF TypeInv, TypeOK
  <1>1. SoloSignals'
    BY DEF Statement, sig, SoloSignals
  <1>2. UNCHANGED <<target, solution, coins, ledger>> /\ pc[First] # "dead"
    BY DEF Statement, local, Register, AfterRegistering, FirstBlock, JoinBlock,
       PublishAndVote, NextBlock, Vote, CountVote, Deregister, Goto, Load, StoreBlock
  <1>3. pc[First] # "write" /\ pc'[First] # "write" /\ pc'[First] # "dead"
    BY <1>0 DEF Statement, Register, AfterRegistering, FirstBlock, JoinBlock,
       PublishAndVote, NextBlock, Vote, CountVote, Deregister, Goto, Load, StoreBlock
  <1>4. SoloBooks'
    BY <1>2, <1>3 DEF SoloBooks
  <1> USE <1>0, <1>2 DEF SoloBlock, Goto, Load, StoreBlock, SetLoad, shm, BeforeVote, Unrecorded,
       Unjoined, Joining, Joined, Mining, Found, Published, Voted, Won, Recorded, Gone
  <1>5. SoloBlock'
    <2>1. CASE Register(First)  BY <2>1 DEF Register
    <2>2. CASE AfterRegistering(First)  BY <2>2 DEF AfterRegistering
    <2>3. CASE FirstBlock(First)
      <3>1. /\ pc[First] = "first_set" /\ pc'[First] = "first_kill"
            /\ current_block' = InitBlock(-1, 0) /\ current_block.id = 0
        BY <2>3 DEF FirstBlock, FirstInv, Early
      <3> QED BY <3>1 DEF InitBlock
    <2>4. CASE JoinBlock(First)
      <3>1. CASE pc[First] = "join_slot"
        <4>1. /\ pc'[First] = "join_load" /\ UNCHANGED last_block
              /\ current_block' = [current_block EXCEPT !.miners = WriteSlot(@, 0, First)]
          BY <2>4, <3>1 DEF JoinBlock
        <4>2. current_block'.miners[0] = First
          BY <4>1, LibAssumption DEF WriteSlot, Slots, Blocks
        <4>3. \A f \in {"id", "target", "solution", "winner", "num_voters", "total", "fav"} :
                current_block'[f] = current_block[f]
          BY <4>1 DEF Blocks
        <4> QED BY <3>1, <4>1, <4>2, <4>3
      <3>2. CASE pc[First] = "join_load"
        BY <2>4, <3>2 DEF JoinBlock
      <3>3. CASE pc[First] = "join_store"
        <4>1. /\ pc'[First] = "join_post" /\ UNCHANGED last_block
              /\ current_block' = [current_block EXCEPT !.num_voters = 1]
          BY <2>4, <3>3 DEF JoinBlock, Bump, UInt8
        <4>3. /\ \A f \in {"id", "target", "solution", "winner", "miners", "total", "fav"} :
                   current_block'[f] = current_block[f]
              /\ current_block'.num_voters = 1
          BY <4>1 DEF Blocks
        <4> QED BY <3>3, <4>1, <4>3
      <3> QED BY <2>4, <3>1, <3>2, <3>3 DEF JoinBlock
    <2>5. CASE PublishAndVote(First)
      <3>1. CASE pc[First] = "win_solution"
        <4>1. /\ pc'[First] = "win_kill" /\ UNCHANGED last_block
              /\ current_block' = [current_block EXCEPT !.solution = solution[First]]
          BY <2>5, <3>1 DEF PublishAndVote
        <4>3. /\ \A f \in {"id", "target", "winner", "miners", "num_voters", "total", "fav"} :
                   current_block'[f] = current_block[f]
              /\ current_block'.solution = solution[First]
          BY <4>1 DEF Blocks
        <4> QED BY <3>1, <4>1, <4>3
      <3>2. CASE pc[First] \in {"win_total", "win_fav"}
        BY <2>5, <3>2 DEF PublishAndVote
      <3>3. CASE pc[First] = "win_total_store"
        <4>1. /\ pc'[First] = "win_fav" /\ UNCHANGED last_block
              /\ current_block' = [current_block EXCEPT !.total = 1]
          BY <2>5, <3>3 DEF PublishAndVote, Bump, UInt8
        <4>3. /\ \A f \in {"id", "target", "solution", "winner", "miners", "num_voters", "fav"} :
                   current_block'[f] = current_block[f]
              /\ current_block'.total = 1
          BY <4>1 DEF Blocks
        <4> QED BY <3>3, <4>1, <4>3
      <3>4. CASE pc[First] = "win_fav_store"
        <4>1. /\ pc'[First] = "win_post" /\ UNCHANGED last_block
              /\ current_block' = [current_block EXCEPT !.fav = 1]
          BY <2>5, <3>4 DEF PublishAndVote, Bump, UInt8
        <4>3. /\ \A f \in {"id", "target", "solution", "winner", "miners", "num_voters", "total"} :
                   current_block'[f] = current_block[f]
              /\ current_block'.fav = 1
          BY <4>1 DEF Blocks
        <4> QED BY <3>4, <4>1, <4>3
      <3> QED BY <2>5, <3>1, <3>2, <3>3, <3>4 DEF PublishAndVote
    <2>6. CASE NextBlock(First)  BY <2>6 DEF NextBlock, Successor, InitBlock
    <2>7. CASE Vote(First)  BY <2>7 DEF Vote, CountVote
    <2>8. CASE Deregister(First)  BY <2>8 DEF Deregister
    <2> QED BY <2>1, <2>2, <2>3, <2>4, <2>5, <2>6, <2>7, <2>8 DEF Statement
  <1> QED BY <1>1, <1>4, <1>5

(* The other steps of First, which is never suspended and finds the mutex    *)
(* free whenever it waits for it.                                            *)
LEMMA SoloOutside ==
  ASSUME TypeInv, SoloBlock, SoloBooks, SoloSignals,
         \/ SemWait(First) \/ SemPost(First) \/ CheckRoom(First) \/ Allocate(First)
         \/ Top(First) \/ Poll(First) \/ Suspend(First) \/ Wake(First)
         \/ Terminate(First) \/ FailedExit(First)
  PROVE  SoloBlock' /\ SoloBooks' /\ SoloSignals'
  <1>0. /\ First \in Miners /\ pc \in [Miners -> Labels] /\ target \in [Miners -> Nat]
        /\ sigusr2 \in [Miners -> BOOLEAN] /\ pending \in [Miners -> SUBSET Signals]
    BY RoundsAssumption DEF TypeInv, TypeOK
  <1> USE <1>0 DEF SoloBlock, SoloBooks, SoloSignals, Goto, shm, local, sig, BeforeVote, Unrecorded,
       Unjoined, Joining, Joined, Mining, Found, Published, Voted, Won, Recorded, Gone
  <1>1. CASE SemWait(First) \/ SemPost(First)
    <2>1. /\ UNCHANGED <<shm, load, local, sig>>
          /\ \E e \in Entries \cup Exits : Goto(First, e[1], e[2])
      BY <1>1 DEF SemWait, SemPost
    <2>2. \E S \in {Unjoined, Joining, Mining, Found, Won, Recorded, Gone} :
            pc[First] \in S /\ pc'[First] \in S
      <3>1. <<pc[First], pc'[First]>> \in Entries \cup Exits
        BY <2>1 DEF Entries, Exits
      <3>2. pc[First] \notin {"lose_wait", "lose_post"}
        OBVIOUS
      <3> QED BY <3>1, <3>2 DEF Entries, Exits
    <2> HIDE DEF SoloBlock, SoloBooks, Unjoined, Joining, Mining, Found, Won, Recorded, Gone
    <2>3. SoloBlock' /\ SoloBooks'
      BY <2>1, <2>2, SameStage
    <2> QED BY <2>1, <2>3
  <1>2. CASE CheckRoom(First)  BY <1>2 DEF CheckRoom
  <1>3. CASE Allocate(First)   BY <1>3 DEF Allocate
  <1>4. CASE Top(First)
    <2>1. UNCHANGED <<shm, load, solution, coins, ledger, pending>> /\ ~sigusr2'[First]
      BY <1>4 DEF Top
    <2>2. CASE pc'[First] = "del_wait"
      <3>1. pc[First] = "top"
        BY <1>4 DEF Top
      <3> QED BY <2>1, <2>2, <3>1
    <2>3. CASE pc'[First] = "join_wait"
      <3>1. pc[First] = "top" /\ target'[First] = current_block.target
        BY <1>4, <2>3 DEF Top
      <3> QED BY <2>1, <2>3, <3>1
    <2> QED BY <1>4, <2>2, <2>3 DEF Top
  <1>5. CASE Poll(First)
    <2>1. UNCHANGED <<shm, load, target, solution, coins, ledger, sig>>
      BY <1>5 DEF Poll
    <2>2. pc[First] \in Won /\ pc'[First] \in Won
      BY <1>5 DEF Poll
    <2> HIDE DEF SoloBlock, SoloBooks, Won
    <2>3. SoloBlock' /\ SoloBooks'
      BY <2>1, <2>2, SameStage
    <2> QED BY <2>1, <2>3
  <1>6. CASE Suspend(First)    BY <1>6 DEF Suspend
  <1>7. CASE Wake(First)       BY <1>7 DEF Wake
  <1>8. CASE Terminate(First)  BY <1>8 DEF Terminate
  <1>9. CASE FailedExit(First)  BY <1>9 DEF FailedExit
  <1> QED BY <1>1, <1>2, <1>3, <1>4, <1>5, <1>6, <1>7, <1>8, <1>9

LEMMA SoloMine ==
  ASSUME TypeInv, SoloBlock, SoloBooks, SoloSignals, Mine(First)
  PROVE  SoloBlock' /\ SoloBooks' /\ SoloSignals'
  <1>0. /\ First \in Miners /\ pc \in [Miners -> Labels] /\ solution \in [Miners -> Nat]
    BY RoundsAssumption DEF TypeInv, TypeOK
  <1>1. /\ pc[First] = "mine" /\ pc'[First] = "win_wait"
        /\ solution'[First] = Solve(target[First])
        /\ UNCHANGED <<shm, load, sig, target, coins, ledger>>
    BY <1>0 DEF Mine, SoloSignals, Goto
  <1> QED BY <1>1 DEF SoloBlock, SoloBooks, SoloSignals, shm, sig, BeforeVote, Unrecorded,
       Unjoined, Joining, Joined, Mining, Found, Published, Voted, Won, Recorded, Gone

LEMMA SoloAward ==
  ASSUME TypeInv, SoloBlock, SoloBooks, SoloSignals, Award(First)
  PROVE  SoloBlock' /\ SoloBooks' /\ SoloSignals'
  <1>0. /\ First \in Miners /\ pc \in [Miners -> Labels] /\ coins \in [Miners -> Nat]
        /\ current_block \in Blocks
    BY RoundsAssumption DEF TypeInv, TypeOK
  <1>1. UNCHANGED <<last_block, load, sig, target, solution, ledger>>
    BY DEF Award
  <1>2. CASE pc[First] = "tally"
    <2>1. pc'[First] = "award" /\ UNCHANGED <<current_block, coins>>
      <3>1. Unanimous(current_block)
        BY <1>2 DEF SoloBlock, Won, Unanimous
      <3> QED BY <1>0, <1>2, <3>1 DEF Award, Goto
    <2> QED BY <1>1, <1>2, <2>1 DEF SoloBlock, SoloBooks, SoloSignals, sig, BeforeVote, Unrecorded,
       Unjoined, Joining, Joined, Mining, Found, Published, Voted, Won, Recorded, Gone
  <1>3. CASE pc[First] = "award"
    <2>1. /\ pc'[First] = "write" /\ coins'[First] = coins[First] + 1
          /\ current_block' = [current_block EXCEPT !.winner = First]
      BY <1>0, <1>3 DEF Award, Goto
    <2>2. /\ \A f \in {"id", "target", "solution", "miners", "num_voters", "total", "fav"} :
               current_block'[f] = current_block[f]
          /\ current_block'.winner = First
      BY <1>0, <2>1 DEF Blocks
    <2>3. SoloBlock'
      BY <1>1, <1>3, <2>1, <2>2 DEF SoloBlock, BeforeVote, Unrecorded,
       Unjoined, Joining, Joined, Mining, Found, Published, Voted, Won, Recorded, Gone
    <2>4. SoloBooks' /\ SoloSignals'
      BY <1>0, <1>1, <1>3, <2>1 DEF SoloBooks, SoloSignals, sig
    <2> QED BY <2>3, <2>4
  <1> QED BY <1>2, <1>3 DEF Award, Goto

LEMMA SoloRecord ==
  ASSUME TypeInv, SoloBlock, SoloBooks, SoloSignals, Record(First)
  PROVE  SoloBlock' /\ SoloBooks' /\ SoloSignals'
  <1>0. /\ First \in Miners /\ pc \in [Miners -> Labels] /\ coins \in [Miners -> Nat]
        /\ ledger \in [Miners -> Seq(Records)] /\ current_block \in Blocks
    BY RoundsAssumption DEF TypeInv, TypeOK
  <1>1. /\ UNCHANGED <<shm, load, sig, target, solution, coins>>
        /\ pc[First] = "write" /\ pc'[First] = "next_wait"
        /\ ledger'[First] = Append(ledger[First], Entry(current_block))
    BY <1>0 DEF Record, Goto
  <1>2. /\ Entry(current_block).id = Len(ledger[First])
        /\ Entry(current_block).solution = Solve(Entry(current_block).target)
        /\ Entry(current_block).winner = First
    BY <1>1 DEF SoloBlock, Entry, Unrecorded, Unjoined
  <1>3. /\ ledger[First] \in Seq(Records) /\ Entry(current_block) \in Records
        /\ Len(ledger[First]) \in Nat
    <2>1. ledger[First] \in Seq(Records)
      BY <1>0
    <2>2. Entry(current_block) \in Records
      BY <1>0 DEF Entry, Records, Blocks
    <2> QED BY <2>1, <2>2
  <1>4. /\ DOMAIN ledger'[First] = 1 .. Len(ledger[First]) + 1
        /\ Len(ledger'[First]) = Len(ledger[First]) + 1
        /\ \A i \in 1 .. Len(ledger[First]) : ledger'[First][i] = ledger[First][i]
        /\ ledger'[First][Len(ledger[First]) + 1] = Entry(current_block)
        /\ DOMAIN ledger[First] = 1 .. Len(ledger[First])
    BY <1>1, <1>3
  <1>5. SoloBlock'
    BY <1>1, <1>2, <1>4 DEF SoloBlock, Entry, shm, BeforeVote, Unrecorded,
       Unjoined, Joining, Joined, Mining, Found, Published, Voted, Won, Recorded, Gone
  <1>6. SoloBooks'
    <2>1. coins'[First] = Len(ledger'[First])
      BY <1>1, <1>4 DEF SoloBooks
    <2>2. ASSUME NEW i \in DOMAIN ledger'[First]
          PROVE  /\ ledger'[First][i].id = i - 1
                 /\ ledger'[First][i].solution = Solve(ledger'[First][i].target)
                 /\ ledger'[First][i].winner = First
      <3>1. CASE i \in 1 .. Len(ledger[First])
        BY <1>4, <3>1 DEF SoloBooks
      <3>2. CASE i = Len(ledger[First]) + 1
        BY <1>2, <1>3, <1>4, <3>2
      <3> QED BY <1>3, <1>4, <3>1, <3>2
    <2> QED BY <1>1, <2>1, <2>2 DEF SoloBooks
  <1>7. SoloSignals'
    BY <1>1 DEF sig, SoloSignals
  <1> QED BY <1>5, <1>6, <1>7

(* The loop over the voters finds First only, and skips it.                  *)
LEMMA SoloKills ==
  ASSUME TypeInv, SoloBlock, SoloBooks, SoloSignals, Signalling(First)
  PROVE  SoloBlock' /\ SoloBooks' /\ SoloSignals'
  <1>0. /\ First \in Miners /\ pc \in [Miners -> Labels] /\ load \in [Miners -> 0 .. 255]
        /\ pending \in [Miners -> SUBSET Signals]
    BY RoundsAssumption DEF TypeInv, TypeOK
  <1>1. UNCHANGED <<shm, local, sigusr2>>
    BY DEF Signalling, KillLoop
  <1>2. pc[First] \in {"first_kill", "win_kill", "next_kill"} /\ pc'[First] \in
          {"first_kill", "win_kill", "next_kill", "first_post", "win_total", "next_post"}
        /\ (pc[First] = "win_kill" <=> pc'[First] \in {"win_kill", "win_total"})
    BY <1>0 DEF Signalling, KillLoop, Goto
  <1>3. SoloBlock'
    BY <1>1, <1>2 DEF SoloBlock, shm, local, BeforeVote, Unrecorded,
       Unjoined, Joining, Joined, Mining, Found, Published, Voted, Won, Recorded, Gone
  <1>4. SoloBooks'
    BY <1>1, <1>2 DEF SoloBooks, local
  <1>5. "USR2" \notin pending'[First]
    <2>1. CASE KillLoop(First, "win_kill", "win_total",
                 current_block.miners, current_block.num_voters, "USR2")
      <3>1. CASE load[First] < current_block.num_voters /\ pc[First] = "win_kill"
        <4>1. load[First] = 0 /\ current_block.miners[0] = First
          <5>1. current_block.num_voters = 1 /\ current_block.miners[0] = First
            BY <3>1 DEF SoloBlock
          <5>2. load[First] \in Nat
            BY <1>0
          <5> QED BY <3>1, <5>1, <5>2
        <4>2. Recipients(First, current_block.miners, 0) = {{}}
          BY <4>1, LibAssumption, RoundsAssumption DEF Recipients, Slots
        <4>3. UNCHANGED pending \/ Kill({}, "USR2")
          BY <2>1, <4>1, <4>2 DEF KillLoop
        <4> QED BY <1>0, <4>3 DEF Kill, SoloSignals
      <3>2. CASE ~(load[First] < current_block.num_voters /\ pc[First] = "win_kill")
        BY <2>1, <3>2 DEF KillLoop, SoloSignals
      <3> QED BY <3>1, <3>2
    <2>2. CASE \E from, to, slots, num : KillLoop(First, from, to, slots, num, "USR1")
      <3>1. UNCHANGED pending \/ \E to : Kill(to, "USR1")
        BY <2>2 DEF KillLoop
      <3> QED BY <1>0, <3>1 DEF Kill, SoloSignals
    <2> QED BY <2>1, <2>2 DEF Signalling
  <1> QED BY <1>1, <1>3, <1>4, <1>5 DEF SoloSignals

(* Signals: a wait for the mutex cannot be interrupted, nobody has it.       *)
LEMMA SoloHandler ==
  ASSUME TypeInv, SemInv, Alone, SoloBlock, SoloBooks, SoloSignals, Signal(First)
  PROVE  SoloBlock' /\ SoloBooks' /\ SoloSignals'
  <1>0. /\ First \in Miners /\ pc \in [Miners -> Labels]
        /\ sigusr2 \in [Miners -> BOOLEAN] /\ pending \in [Miners -> SUBSET Signals]
    BY RoundsAssumption DEF TypeInv, TypeOK
  <1>1. PICK s \in Signals : /\ Handle(First, s)
                             /\ \/ Deliver(First, s) \/ InterruptSemWait(First, s)
                                \/ InterruptNap(First, s)
    BY DEF Signal, Deliver, InterruptSemWait, InterruptNap
  <1>2. UNCHANGED <<shm, load, local>> /\ SoloSignals'
    BY <1>0, <1>1 DEF Handle, SoloSignals
  <1>3. ~InterruptSemWait(First, s)
    <2> SUFFICES ASSUME InterruptSemWait(First, s) PROVE FALSE
      OBVIOUS
    <2>1. pc[First] \notin Critical
      <3>1. PICK e \in Entries : pc[First] = e[1]
        BY DEF InterruptSemWait, Goto
      <3> QED BY <3>1, Borders
    <2>2. Inside = {}
      BY <2>1 DEF Inside, Alone, Critical, Protected
    <2> QED BY <2>2, FS_EmptySet DEF InterruptSemWait, SemInv, SemTypes, SemAccounting
  <1>4. \/ UNCHANGED pc
        \/ pc[First] = "nap" /\ pc'[First] = "dead"
    BY <1>0, <1>1, <1>3 DEF Deliver, InterruptNap, Goto
  <1>5. SoloBlock' /\ SoloBooks'
    <2>1. UNCHANGED <<current_block, last_block, load, target, solution, coins, ledger>>
      BY <1>2 DEF shm, local
    <2>2. CASE UNCHANGED pc
      <3>1. SoloBlock'
        BY <2>1, <2>2 DEF SoloBlock
      <3> QED BY <2>1, <2>2, <3>1 DEF SoloBooks
    <2>3. CASE pc[First] = "nap" /\ pc'[First] = "dead"
      <3>1. SoloBlock'
        BY <2>1, <2>3 DEF SoloBlock, BeforeVote, Unrecorded,
           Unjoined, Joining, Joined, Mining, Found, Published, Voted, Won, Recorded, Gone
      <3> QED BY <2>1, <2>3, <3>1 DEF SoloBooks
    <2> QED BY <1>4, <2>2, <2>3
  <1> QED BY <1>2, <1>5

(* Nobody goes back to the start, and there a miner can only come in.        *)
LEMMA StartLeft ==
  ASSUME TypeOK, NEW m \in Miners, Step(m) \/ Signal(m) \/ Terminate(m) \/ FailedExit(m)
  PROVE  /\ \A n \in Miners : pc'[n] = "start" => pc[n] = "start"
         /\ pc[m] = "start" => pc'[m] # "start"
  <1>1. EarlyMove(m)
    BY EarlySemaphore, EarlyStatement, EarlyOutside, EarlySignals DEF Step
  <1>2. pc[m] = "start" => pc'[m] # "start"
    <2> SUFFICES ASSUME pc[m] = "start" PROVE pc'[m] # "start"
      OBVIOUS
    <2>1. CheckRoom(m)
      <3>1. ~SemWait(m) /\ ~SemPost(m)
        BY DEF SemWait, SemPost, Goto, Entries, Exits
      <3>2. ~Statement(m)
        BY DEF Statement, Register, AfterRegistering, FirstBlock, JoinBlock, PublishAndVote,
           NextBlock, Vote, CountVote, Deregister, Goto, Load, StoreBlock
      <3>3. ~(Signalling(m) \/ Allocate(m) \/ Top(m) \/ Mine(m) \/ Poll(m) \/ Award(m)
              \/ Record(m) \/ Suspend(m) \/ Wake(m))
        BY DEF Signalling, KillLoop, Allocate, Top, Mine, Poll, Award, Record, Suspend, Wake, Goto
      <3>4. ~(Signal(m) \/ Terminate(m) \/ FailedExit(m))
        BY DEF Signal, Deliver, InterruptSemWait, InterruptNap, Handle, Terminate, FailedExit, Alive
      <3> QED BY <3>1, <3>2, <3>3, <3>4 DEF Step
    <2> QED BY <2>1 DEF CheckRoom, Goto, TypeOK
  <1> QED BY <1>1, <1>2 DEF EarlyMove

LEMMA SoloInit == Init => SoloInv
  <1> SUFFICES ASSUME Init PROVE SoloBlock /\ SoloBooks /\ SoloSignals
    BY DEF SoloInv
  <1>1. /\ pc[First] = "reg_wait" /\ ledger[First] = <<>> /\ coins[First] = 0
        /\ sigusr2[First] = FALSE /\ pending[First] = {}
    BY RoundsAssumption DEF Init, InitLocals
  <1>2. /\ current_block.id = 0 /\ current_block.num_voters = 0
        /\ current_block.total = 0 /\ current_block.fav = 0
    BY DEF Init, InitBlocks, InitBlock
  <1>3. SoloBlock
    BY <1>1, <1>2 DEF SoloBlock, BeforeVote, Unrecorded,
       Unjoined, Joining, Joined, Mining, Found, Published, Voted, Won, Recorded, Gone
  <1>4. SoloBooks
    BY <1>1 DEF SoloBooks
  <1> QED BY <1>1, <1>3, <1>4 DEF SoloSignals

LEMMA SoloNext == TypeInv /\ SemInv /\ FirstInv /\ SoloInv /\ [Next]_vars => SoloInv'
  <1> SUFFICES ASSUME TypeInv, SemInv, FirstInv, SoloInv, [Next]_vars, Alone'
               PROVE  SoloBlock' /\ SoloBooks' /\ SoloSignals'
    BY DEF SoloInv
  <1>1. CASE UNCHANGED vars
    <2>1. UNCHANGED <<pc, current_block, last_block, load, target, solution, coins, ledger,
                      sigusr2, pending>>
      BY <1>1 DEF vars, shm, local, sig
    <2>2. SoloBlock /\ SoloBooks /\ SoloSignals
      BY <2>1 DEF SoloInv, Alone
    <2>3. SoloBlock'
      BY <2>1, <2>2 DEF SoloBlock
    <2>4. SoloBooks'
      BY <2>1, <2>2 DEF SoloBooks
    <2>5. SoloSignals'
      BY <2>1, <2>2 DEF SoloSignals
    <2> QED BY <2>3, <2>4, <2>5
  <1>2. CASE Next
    <2>1. PICK m \in Miners : Step(m) \/ Signal(m) \/ Terminate(m) \/ FailedExit(m)
      BY <1>2 DEF Next
    <2>2. m = First /\ Alone
      BY <2>1, StartLeft DEF TypeInv, Alone
    <2>3. SoloBlock /\ SoloBooks /\ SoloSignals
      BY <2>2 DEF SoloInv
    <2> QED BY <2>1, <2>2, <2>3, SoloStatement, SoloOutside, SoloMine, SoloAward, SoloRecord,
            SoloKills, SoloHandler DEF Step
  <1> QED BY <1>1, <1>2

(* A miner nobody joined records every block once, in order, solved and won, *)
(* and has a coin for each, through all its own signals, alarms and polls.   *)
THEOREM LoneMinersBooks == Spec => []SoloLedger
  <1>1. SoloInv => SoloLedger
    BY DEF SoloInv, SoloBooks, SoloLedger
  <1>2. Init => TypeInv /\ SemInv /\ FirstInv /\ SoloInv
    BY TypeInvInit, SemInvInit, FirstInvInit, SoloInit
  <1>3. (TypeInv /\ SemInv /\ FirstInv /\ SoloInv) /\ [Next]_vars
          => (TypeInv /\ SemInv /\ FirstInv /\ SoloInv)'
    BY TypeInvNext, SemInvNext, FirstInvNext, SoloNext
  <1> QED BY <1>1, <1>2, <1>3, PTL DEF Spec

-----------------------------------------------------------------------------
(* The table, as an array: its slots, its counter and the half-finished     *)
(* registration of the miner in the section.                                *)

(* tab lists the miners of S, each once, in its first num slots.            *)
Table(tab, num, S) ==
  /\ num = Cardinality(S)
  /\ \A i \in 0 .. num - 1 : tab[i] \in S
  /\ \A m \in S : \E i \in 0 .. num - 1 : tab[i] = m
  /\ \A i, j \in 0 .. num - 1 : tab[i] = tab[j] => i = j

(* find_miner_index finds the slot of a miner that has one.                 *)
LEMMA IndexFound ==
  ASSUME NEW tab, NEW num \in 0 .. MAX_MINERS, NEW k \in 0 .. num - 1,
         \A i \in 0 .. num - 1 : tab[i] = tab[k] => i = k
  PROVE  FindMinerIndex(tab, num, tab[k]) = k
  <1> DEFINE hits == {i \in Slots : i < num /\ tab[i] = tab[k]}
  <1>1. hits = {k}
    BY LibAssumption DEF Slots
  <1>2. (CHOOSE i \in hits : \A j \in hits : i <= j) = k
    BY <1>1
  <1>3. FindMinerIndex(tab, num, tab[k]) =
          IF hits = {} THEN UInt8(-1) ELSE CHOOSE i \in hits : \A j \in hits : i <= j
    BY DEF FindMinerIndex
  <1> HIDE DEF hits
  <1> QED BY <1>1, <1>2, <1>3

(* delete_miner takes one listed miner out and keeps the others.            *)
LEMMA DeleteKeepsTable ==
  ASSUME NEW tab, NEW num \in 0 .. MAX_MINERS, NEW S, IsFiniteSet(S), NEW m \in S,
         Table(tab, num, S)
  PROVE  Table(DeleteMiner(tab, num, m).miners, DeleteMiner(tab, num, m).num, S \ {m})
  <1>1. PICK k \in 0 .. num - 1 : tab[k] = m
    BY DEF Table
  <1>2. num - 1 = Cardinality(S \ {m}) /\ num - 1 \in 0 .. MAX_MINERS - 1
    <2>1. Cardinality(S \ {m}) = Cardinality(S) - 1
      BY FS_RemoveElement
    <2> QED BY <1>1, <2>1, LibAssumption DEF Table
  <1>3. FindMinerIndex(tab, num, m) = k
    BY <1>1, IndexFound DEF Table
  <1>4. k # -1 /\ UInt8(num - 1) = num - 1
    BY <1>2, LibAssumption DEF UInt8
  <1>5. /\ DeleteMiner(tab, num, m).num = num - 1
        /\ DeleteMiner(tab, num, m).miners = ShiftDown(tab, num, k)
    BY <1>3, <1>4 DEF DeleteMiner
  <1> DEFINE new == ShiftDown(tab, num, k)
             old(i) == IF i < k THEN i ELSE i + 1
  <1>6. ASSUME NEW i \in 0 .. num - 2
        PROVE  new[i] = tab[old(i)] /\ old(i) \in 0 .. num - 1 /\ old(i) # k
    <2>1. i \in Slots /\ i + 1 \in Slots /\ ~(i >= num - 1)
      BY <1>2, LibAssumption DEF Slots
    <2> QED BY <2>1 DEF ShiftDown
  <1>7. \A i, j \in 0 .. num - 2 : old(i) = old(j) => i = j
    OBVIOUS
  <1>8. \A j \in 0 .. num - 1 : j # k => \E i \in 0 .. num - 2 : old(i) = j
    <2> SUFFICES ASSUME NEW j \in 0 .. num - 1, j # k
                 PROVE  \E i \in 0 .. num - 2 : old(i) = j
      OBVIOUS
    <2>1. CASE j < k
      BY <2>1
    <2>2. CASE j > k
      <3>1. j - 1 \in 0 .. num - 2 /\ old(j - 1) = j
        BY <2>2
      <3> QED BY <3>1
    <2> QED BY <2>1, <2>2
  <1> HIDE DEF new, old
  <1>9. \A i \in 0 .. num - 2 : new[i] \in S \ {m}
    BY <1>1, <1>6 DEF Table
  <1>10. \A n \in S \ {m} : \E i \in 0 .. num - 2 : new[i] = n
    BY <1>1, <1>6, <1>8 DEF Table
  <1>11. \A i, j \in 0 .. num - 2 : new[i] = new[j] => i = j
    BY <1>6, <1>7 DEF Table
  <1>12. num - 1 - 1 = num - 2
    OBVIOUS
  <1> QED BY <1>2, <1>5, <1>9, <1>10, <1>11, <1>12 DEF Table, new

(* A registration appends one.                                              *)
LEMMA AppendKeepsTable ==
  ASSUME NEW tab, NEW num \in Nat, NEW S, IsFiniteSet(S), NEW m, m \notin S,
         Table(tab, num, S), tab[num] = m
  PROVE  Table(tab, num + 1, S \cup {m})
  <1>1. Cardinality(S \cup {m}) = num + 1
    BY FS_AddElement DEF Table
  <1>2. \A i \in 0 .. num + 1 - 1 : i \in 0 .. num - 1 \/ i = num
    OBVIOUS
  <1>3. \A i \in 0 .. num - 1 : i \in 0 .. num + 1 - 1
    OBVIOUS
  <1>4. num \in 0 .. num + 1 - 1
    OBVIOUS
  <1> QED BY <1>1, <1>2, <1>3, <1>4 DEF Table

(* Writing the slot behind the table changes nothing in it.                 *)
LEMMA WriteBehindTable ==
  ASSUME NEW tab \in [Slots -> Slotted], NEW num \in 0 .. MAX_MINERS - 1, NEW S, NEW m,
         Table(tab, num, S)
  PROVE  /\ Table(WriteSlot(tab, num, m), num, S)
         /\ WriteSlot(tab, num, m)[num] = m
  <1>1. \A i \in 0 .. num - 1 : WriteSlot(tab, num, m)[i] = tab[i]
    BY LibAssumption DEF WriteSlot, Slots
  <1>2. WriteSlot(tab, num, m)[num] = m
    BY LibAssumption DEF WriteSlot, Slots
  <1> QED BY <1>1, <1>2 DEF Table

Listed == { m \in Miners : pc[m] \notin Unlisted }

TableInv ==
  interrupted = 0 =>
    /\ Table(miners, num_miners, Listed)
    /\ \A m \in Miners : pc[m] \in {"reg_load", "reg_store"} => miners[num_miners] = m
    /\ \A m \in Miners : pc[m] = "reg_store" => load[m] = num_miners

KeepsTable(m) ==
  /\ UNCHANGED <<miners, num_miners>>
  /\ \A n \in Miners : pc'[n] \in Unlisted <=> pc[n] \in Unlisted
  /\ \A n \in Miners : pc'[n] \in {"reg_load", "reg_store"}
                         => pc'[n] = pc[n] /\ load'[n] = load[n]

LEMMA TableStatement ==
  ASSUME TypeOK, NEW m \in Miners, Statement(m), ~Register(m), ~Deregister(m)
  PROVE  KeepsTable(m)
  <1> USE DEF TypeOK, Goto, Load, StoreBlock, SetLoad, shm, KeepsTable, Unlisted
  <1>3. CASE AfterRegistering(m)
    <2>1. \E to \in {"first_wait", "to_suspend_first"} : Goto(m, "registered", to)
      BY <1>3 DEF AfterRegistering
    <2> QED BY <1>3, <2>1 DEF AfterRegistering
  <1>4. CASE FirstBlock(m)  BY <1>4 DEF FirstBlock
  <1>5. CASE JoinBlock(m)  BY <1>5 DEF JoinBlock
  <1>6. CASE PublishAndVote(m)  BY <1>6 DEF PublishAndVote
  <1>7. CASE NextBlock(m)  BY <1>7 DEF NextBlock
  <1>8. CASE Vote(m)  BY <1>8 DEF Vote, CountVote
  <1> QED BY <1>3, <1>4, <1>5, <1>6, <1>7, <1>8 DEF Statement

LEMMA TableOutside ==
  ASSUME NEW m \in Miners, OutsideMove(m)
  PROVE  KeepsTable(m)
  BY DEF OutsideMove, KeepsTable, Halfway, InVote, KillLabels, Unlisted

LEMMA TableInit == Init => TableInv
  <1> SUFFICES ASSUME Init PROVE TableInv
    OBVIOUS
  <1>1. Listed = {}
    BY DEF Init, Listed, Unlisted
  <1>2. Cardinality({}) = 0
    BY FS_EmptySet
  <1>3. num_miners = 0 /\ \A m \in Miners : pc[m] \notin {"reg_load", "reg_store"}
    BY DEF Init
  <1>4. \A i \in 0 .. num_miners - 1 : FALSE
    BY <1>3
  <1>5. Table(miners, num_miners, Listed)
    BY <1>1, <1>2, <1>3, <1>4 DEF Table
  <1> QED BY <1>3, <1>5 DEF TableInv

LEMMA ListedFits ==
  ASSUME Cardinality(Miners) <= MAX_MINERS, NEW m \in Miners \ Listed
  PROVE  Cardinality(Listed) < MAX_MINERS
  <1>1. IsFiniteSet(Miners \ {m}) /\ Cardinality(Miners \ {m}) = Cardinality(Miners) - 1
    BY RoundsAssumption, FS_RemoveElement
  <1>2. Cardinality(Listed) <= Cardinality(Miners \ {m})
    <2>1. Listed \subseteq Miners \ {m}
      BY DEF Listed
    <2> QED BY <1>1, <2>1, FS_Subset
  <1>3. IsFiniteSet(Listed)
    BY RoundsAssumption, FS_Subset DEF Listed
  <1> QED BY <1>1, <1>2, <1>3, RoundsAssumption, FS_CardinalityType, LibAssumption

LEMMA TableNext ==
  Cardinality(Miners) <= MAX_MINERS /\ TypeInv /\ SemInv /\ TableInv /\ [Next]_vars => TableInv'
  <1> SUFFICES ASSUME Cardinality(Miners) <= MAX_MINERS, TypeInv, SemInv, TableInv,
                      [Next]_vars, interrupted' = 0
               PROVE  TableInv'
    BY DEF TableInv
  <1>0. /\ interrupted = 0 /\ TypeOK /\ IsFiniteSet(Listed)
        /\ Table(miners, num_miners, Listed)
        /\ pc \in [Miners -> Labels] /\ load \in [Miners -> 0 .. 255]
        /\ miners \in [Slots -> Slotted] /\ num_miners \in 0 .. 255
    BY InterruptedGrows, RoundsAssumption, FS_Subset DEF TypeInv, TypeOK, TableInv, Listed
  <1>1. CASE UNCHANGED vars
    BY <1>1 DEF vars, shm, TableInv, Listed
  <1>2. CASE Next
    <2>0. PICK m \in Miners : Step(m) \/ Signal(m) \/ Terminate(m) \/ FailedExit(m)
      BY <1>2 DEF Next
    <2>1. KeepsTable(m) \/ Register(m) \/ Deregister(m)
      BY <1>0, <2>0, TableStatement, TableOutside, OutsideMoves DEF Step
    <2>2. pc[m] \in Protected
            => \A n \in Miners \ {m} : pc[n] \notin {"reg_load", "reg_store"}
      BY <1>0, ExclusiveFromSum DEF ExclusionUnlessInterrupted, Inside, Protected
    <2>3. CASE KeepsTable(m)
      <3>1. Listed' = Listed
        BY <2>3 DEF KeepsTable, Listed
      <3>2. Table(miners', num_miners', Listed')
        BY <1>0, <2>3, <3>1 DEF KeepsTable
      <3> QED BY <1>0, <2>3, <3>2 DEF KeepsTable, TableInv
    <2>4. CASE Register(m)
      <3>0. /\ pc[m] \in {"reg_slot", "reg_load", "reg_store"}
            /\ m \notin Listed /\ pc[m] \in Protected
            /\ \A n \in Miners \ {m} : pc'[n] = pc[n]
        BY <1>0, <2>4 DEF Register, Load, Goto, Listed, Unlisted, Protected
      <3>1. num_miners \in 0 .. MAX_MINERS - 1
        BY <1>0, <3>0, ListedFits, LibAssumption DEF Table
      <3>2. CASE pc[m] = "reg_slot"
        <4>1. /\ pc'[m] = "reg_load" /\ miners' = WriteSlot(miners, num_miners, m)
              /\ UNCHANGED num_miners
          BY <1>0, <2>4, <3>2 DEF Register, Load, Goto
        <4>2. Listed' = Listed
          BY <3>0, <3>2, <4>1 DEF Listed, Unlisted
        <4>3. Table(miners', num_miners', Listed') /\ miners'[num_miners'] = m
          BY <1>0, <3>1, <4>1, <4>2, WriteBehindTable
        <4> QED BY <2>2, <3>0, <4>1, <4>3 DEF TableInv
      <3>3. CASE pc[m] = "reg_load"
        <4>1. /\ pc'[m] = "reg_store" /\ load'[m] = num_miners
              /\ UNCHANGED <<miners, num_miners>>
          BY <1>0, <2>4, <3>3 DEF Register, Load, Goto, SetLoad, shm
        <4>2. Listed' = Listed
          BY <3>0, <3>3, <4>1 DEF Listed, Unlisted
        <4>3. Table(miners', num_miners', Listed')
          BY <1>0, <4>1, <4>2
        <4>4. miners[num_miners] = m
          BY <1>0, <3>3 DEF TableInv
        <4> QED BY <2>2, <3>0, <4>1, <4>3, <4>4 DEF TableInv
      <3>4. CASE pc[m] = "reg_store"
        <4>1. /\ pc'[m] = "reg_post" /\ num_miners' = Bump(m) /\ UNCHANGED miners
          BY <1>0, <2>4, <3>4 DEF Register, Load, Goto
        <4>2. load[m] = num_miners /\ miners[num_miners] = m
          BY <1>0, <3>4 DEF TableInv
        <4>3. num_miners' = num_miners + 1
          BY <3>1, <4>1, <4>2, LibAssumption DEF Bump, UInt8
        <4>4. Listed' = Listed \cup {m}
          BY <3>0, <4>1 DEF Listed, Unlisted
        <4>5. num_miners \in Nat
          BY <3>1
        <4>6. Table(miners', num_miners', Listed')
          BY <1>0, <3>0, <4>1, <4>2, <4>3, <4>4, <4>5, AppendKeepsTable
        <4> QED BY <2>2, <3>0, <4>1, <4>6 DEF TableInv
      <3> QED BY <3>0, <3>2, <3>3, <3>4
    <2>5. CASE Deregister(m)
      <3>1. /\ pc[m] = "del_check" /\ pc'[m] \in {"last_exit", "del_post"}
            /\ miners' = DeleteMiner(miners, num_miners, m).miners
            /\ num_miners' = DeleteMiner(miners, num_miners, m).num
            /\ \A n \in Miners \ {m} : pc'[n] = pc[n]
        BY <1>0, <2>5 DEF Deregister, Goto
      <3>2. m \in Listed /\ Listed' = Listed \ {m} /\ pc[m] \in Protected
        BY <3>1 DEF Listed, Unlisted, Protected
      <3>3. num_miners \in 0 .. MAX_MINERS
        <4>1. Cardinality(Listed) <= Cardinality(Miners)
          BY RoundsAssumption, FS_Subset DEF Listed
        <4>2. Cardinality(Miners) \in Nat
          BY RoundsAssumption, FS_CardinalityType
        <4> QED BY <1>0, <4>1, <4>2, LibAssumption DEF Table
      <3>4. Table(miners', num_miners', Listed')
        BY <1>0, <3>1, <3>2, <3>3, DeleteKeepsTable
      <3> QED BY <2>2, <3>1, <3>2, <3>4 DEF TableInv
    <2> QED BY <2>1, <2>3, <2>4, <2>5
  <1> QED BY <1>1, <1>2

(* With no more miners than slots, and no sem_wait interrupted, the table    *)
(* lists the registered miners, each once, whatever order they come and go   *)
(* in: write and increment of the registration and the shift of              *)
(* delete_miner are exact. Nothing in the code keeps the miners from being   *)
(* more than the slots (the room check is made without the mutex).           *)
THEOREM TableListsTheMiners ==
  Cardinality(Miners) <= MAX_MINERS /\ Spec => []RegistryExact
  <1> SUFFICES ASSUME Cardinality(Miners) <= MAX_MINERS PROVE Spec => []RegistryExact
    OBVIOUS
  <1>1. Init => TypeInv /\ SemInv /\ TableInv
    BY TypeInvInit, SemInvInit, TableInit
  <1>2. (TypeInv /\ SemInv /\ TableInv) /\ [Next]_vars => (TypeInv /\ SemInv /\ TableInv)'
    BY TypeInvNext, SemInvNext, TableNext
  <1>3. TableInv => RegistryExact
    <2> SUFFICES ASSUME TableInv, Quiet
                 PROVE  /\ num_miners = Cardinality(Registered)
                        /\ Registered = { miners[i] : i \in 0 .. num_miners - 1 }
      BY DEF RegistryExact
    <2>1. Listed = Registered
      BY DEF Quiet, Inside, Protected, Listed, Unlisted, Registered
    <2> QED BY <2>1 DEF Quiet, TableInv, Table
  <1> QED BY <1>1, <1>2, <1>3, PTL DEF Spec
=============================================================================
