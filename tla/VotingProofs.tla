---------------------------- MODULE VotingProofs ----------------------------
(***************************************************************************)
(* Machine-checked proofs about Voting, for any number of voters, any file  *)
(* left over from an earlier run and any values of the bounds.              *)
(*                                                                          *)
(* Both semaphores are counted: whoever is past a wait and not yet past its *)
(* post stands for one unit, and an interrupted wait for one unit that      *)
(* nobody gave. sem_candida is only tried, never waited for, so no signal   *)
(* adds to it and there is one candidate. That is why a count cannot repeat *)
(* itself: the next candidate writes before it counts, so the file is       *)
(* longer by then than the number of processes it is compared with.         *)
(***************************************************************************)
EXTENDS Voting, FiniteSetTheorems, TLAPS

Labels == FileLabels \cup CandidateLabels \cup Gone \cup
  { "work_check", "work_wait", "loop", "reset", "try", "lost_check", "lost",
    "vote_wait", "woken_check", "to_pause_vote", "paused_vote", "to_pause_loop",
    "paused_loop", "cand_kill2" }

AllSignals == {"INT", "USR1", "ALRM"}

PcType == pc \in [Voters -> Labels]

-----------------------------------------------------------------------------
(* How many children are at a set of labels, after one of them has moved.   *)

LEMMA VotersFinite == IsFiniteSet(Voters)
  BY VotingAssumption, FS_Interval DEF Voters

LEMMA AtFinite ==
  ASSUME NEW L
  PROVE  IsFiniteSet(At(L)) /\ Cardinality(At(L)) \in Nat
  <1>1. IsFiniteSet(At(L))
    BY VotersFinite, FS_Subset DEF At
  <1> QED BY <1>1, FS_CardinalityType

LEMMA AtStays ==
  ASSUME NEW L, NEW p \in Voters, NEW to, PcType, pc' = [pc EXCEPT ![p] = to],
         pc[p] \in L <=> to \in L
  PROVE  At(L)' = At(L)
  BY DEF At, PcType

LEMMA AtGrows ==
  ASSUME NEW L, NEW p \in Voters, NEW to, PcType, pc' = [pc EXCEPT ![p] = to],
         pc[p] \notin L, to \in L
  PROVE  Cardinality(At(L)') = Cardinality(At(L)) + 1
  <1>1. At(L)' = At(L) \cup {p} /\ p \notin At(L)
    BY DEF At, PcType
  <1> QED BY <1>1, AtFinite, FS_AddElement

LEMMA AtShrinks ==
  ASSUME NEW L, NEW p \in Voters, NEW to, PcType, pc' = [pc EXCEPT ![p] = to],
         pc[p] \in L, to \notin L
  PROVE  Cardinality(At(L)') = Cardinality(At(L)) - 1
  <1>1. At(L)' = At(L) \ {p} /\ p \in At(L)
    BY DEF At, PcType
  <1> QED BY <1>1, AtFinite, FS_RemoveElement

-----------------------------------------------------------------------------
(* The moves of a child.                                                    *)

(* Every step either leaves pc as it is or moves one child between labels.  *)
LEMMA PcMoves ==
  ASSUME PcType, [Next]_vars
  PROVE  PcType'
  <1> USE DEF Labels, FileLabels, CandidateLabels, Gone
  <1>1. ASSUME NEW p \in Voters, Child(p)
        PROVE  PcType'
    <2>1. CASE CheckSigint(p)
      <3>1. \A c \in Checks : c[2] \in Labels /\ c[3] \in Labels
        BY DEF Checks
      <3> QED BY <2>1, <3>1 DEF CheckSigint, Goto, PcType
    <2>2. CASE SemWait(p) \/ SemPost(p) \/ Sleep(p)
      <3>1. \A w \in Waits \cup Posts \cup Sleeps : w[2] \in Labels
        BY DEF Waits, Posts, Sleeps
      <3>2. PICK w \in Waits \cup Posts \cup Sleeps : Goto(p, w[1], w[2])
        BY <2>2 DEF SemWait, SemPost, Sleep
      <3> QED BY <3>1, <3>2 DEF Goto, PcType
    <2>3. CASE Reset(p) \/ TryWait(p) \/ WriteVote(p) \/ WakeAll(p)
      BY <2>3 DEF Reset, TryWait, WriteVote, WakeAll, Goto, PcType
    <2>4. CASE Tally(p) \/ Release(p) \/ Arm(p) \/ WakeFromSuspend(p)
      BY <2>4 DEF Tally, Release, Arm, WakeFromSuspend, Goto, PcType
    <2> QED BY <1>1, <2>1, <2>2, <2>3, <2>4 DEF Child
  <1>2. ASSUME NEW p \in Voters, Signalled(p)
        PROVE  PcType'
    <2>1. \A w \in Waits : w[2] \in Labels
      BY DEF Waits
    <2>2. \/ UNCHANGED pc
          \/ Goto(p, "paused_vote", "loop") \/ Goto(p, "paused_loop", "woken_check")
          \/ \E w \in Waits : Goto(p, w[1], w[2])
      BY <1>2 DEF Signalled, Deliver, WakeFromPause, InterruptSemWait
    <2> QED BY <2>1, <2>2 DEF Goto, PcType
  <1>3. CASE Open \/ EndChild \/ (\E to \in {{}, Voters} : Interrupt(to))
    BY <1>3 DEF Open, EndChild, Interrupt, PcType
  <1>4. CASE UNCHANGED vars
    BY <1>4 DEF vars, PcType
  <1> QED BY <1>1, <1>2, <1>3, <1>4 DEF Next

-----------------------------------------------------------------------------
(* Types.                                                                   *)

(* TypeOK with what makes it inductive: the parent has a child to end until *)
(* it exits. That sem_candida is 0 or 1 is OneCandidate's to say.           *)
Data ==
  /\ sem_en \in Nat /\ sem_candida \in Nat
  /\ parent \in {"write_pids", "pause", "kill", "wait", "exited"}
  /\ next \in 1 .. n_procs + 1 /\ (parent # "exited" => next <= n_procs)
  /\ sig_recieved \in [Voters -> {"none", "USR1", "INT"}]
  /\ pending \in [Voters -> SUBSET AllSignals]
  /\ file \in Seq(0 .. n_procs) /\ Len(file) >= Leftover
  /\ tallies \in Seq(Seq(0 .. n_procs))
  /\ rounds \in 0 .. MaxRounds /\ interrupted \in Nat

LEMMA DataInit == Init => PcType /\ Data
  <1> SUFFICES ASSUME Init PROVE PcType /\ Data
    OBVIOUS
  <1>1. PcType
    BY DEF Init, PcType, Labels
  <1>2. file \in Seq(0 .. n_procs) /\ Len(file) >= Leftover
    BY VotingAssumption DEF Init
  <1>3. tallies \in Seq(Seq(0 .. n_procs))
    BY DEF Init
  <1> QED BY <1>1, <1>2, <1>3, VotingAssumption DEF Init, Data, AllSignals

(* A handled signal leaves the flags and the pending signals in their types. *)
LEMMA HandleTypes ==
  ASSUME Data, NEW p \in Voters, NEW s \in AllSignals, Handle(p, s)
  PROVE  /\ sig_recieved' \in [Voters -> {"none", "USR1", "INT"}]
         /\ pending' \in [Voters -> SUBSET AllSignals]
         /\ UNCHANGED <<others, sems, votes, rounds>>
  BY DEF Data, Handle, Flag, AllSignals

LEMMA DataNext ==
  ASSUME PcType, Data, [Next]_vars
  PROVE  Data'
  <1> USE VotingAssumption DEF others, sems, signals, votes
  <1>1. ASSUME NEW p \in Voters, Child(p)
        PROVE  Data'
    <2>1. CASE CheckSigint(p) \/ Sleep(p)
      BY <2>1 DEF CheckSigint, Sleep, Data
    <2>2. CASE SemWait(p) \/ SemPost(p)
      BY <2>2 DEF SemWait, SemPost, Data
    <2>3. CASE Reset(p)
      BY <2>3 DEF Reset, Data
    <2>4. CASE TryWait(p)
      BY <2>4 DEF TryWait, Candidacy, Data
    <2>5. CASE WriteVote(p)
      <3>1. file' \in Seq(0 .. n_procs) /\ Len(file') >= Leftover
        BY <2>5 DEF WriteVote, Voters, Data
      <3> QED BY <2>5, <3>1 DEF WriteVote, Data
    <2>6. CASE WakeAll(p)
      <3>1. pending' \in [Voters -> SUBSET AllSignals]
        BY <2>6 DEF WakeAll, AllSignals, Data
      <3> QED BY <2>6, <3>1 DEF WakeAll, Data
    <2>7. CASE Tally(p)
      <3> DEFINE Files == Seq(0 .. n_procs)
      <3>1. file \in Files /\ tallies \in Seq(Files)
        BY DEF Data
      <3>2. tallies' = tallies \/ tallies' = Append(tallies, file)
        BY <2>7 DEF Tally
      <3> HIDE DEF Files
      <3>3. tallies' \in Seq(Files)
        BY <3>1, <3>2
      <3> QED BY <2>7, <3>3 DEF Tally, Data, Files
    <2>8. CASE Release(p)
      BY <2>8 DEF Release, Data
    <2>9. CASE Arm(p)
      <3>1. pending' \in [Voters -> SUBSET AllSignals]
        BY <2>9 DEF Arm, AllSignals, Data
      <3> QED BY <2>9, <3>1 DEF Arm, Data
    <2>10. CASE WakeFromSuspend(p)
      BY <2>10 DEF WakeFromSuspend, Flag, Data
    <2> QED BY <1>1, <2>1, <2>2, <2>3, <2>4, <2>5, <2>6, <2>7, <2>8, <2>9, <2>10 DEF Child
  <1>2. ASSUME NEW p \in Voters, Signalled(p)
        PROVE  Data'
    <2>1. PICK s \in AllSignals : Deliver(p, s) \/ WakeFromPause(p, s) \/ InterruptSemWait(p, s)
      BY <1>2 DEF Signalled, AllSignals
    <2>2. Handle(p, s) /\ interrupted' \in Nat
      BY <2>1 DEF Deliver, WakeFromPause, InterruptSemWait, Data
    <2> QED BY <2>2, HandleTypes DEF Data
  <1>3. CASE Open
    BY <1>3 DEF Open, Data
  <1>4. ASSUME NEW to \in {{}, Voters}, Interrupt(to)
        PROVE  Data'
    <2>1. pending' \in [Voters -> SUBSET AllSignals]
      BY <1>4 DEF Interrupt, AllSignals, Data
    <2> QED BY <1>4, <2>1 DEF Interrupt, Data
  <1>5. CASE EndChild
    <2>1. pending' \in [Voters -> SUBSET AllSignals]
      BY <1>5 DEF EndChild, AllSignals, Data
    <2> QED BY <1>5, <2>1 DEF EndChild, Data
  <1>6. CASE UNCHANGED vars
    BY <1>6 DEF vars, Data
  <1> QED BY <1>1, <1>2, <1>3, <1>4, <1>5, <1>6 DEF Next

-----------------------------------------------------------------------------
(* The two semaphores.                                                      *)

SemInv == PcType /\ Data /\ SemAccounting

CandidateInv == PcType /\ Data /\ OneCandidate

LEMMA AccountingInit == Init => SemAccounting /\ OneCandidate
  <1> SUFFICES ASSUME Init PROVE SemAccounting /\ OneCandidate
    OBVIOUS
  <1>1. At(FileLabels) = {} /\ At(CandidateLabels) = {}
    BY DEF Init, At, FileLabels, CandidateLabels
  <1> QED
    BY <1>1, FS_EmptySet DEF Init, SemAccounting, OneCandidate, HoldingFile, Candidates

(* sem_en: a wait moves its child among the holders, a post out of them, and *)
(* no other statement crosses; an interrupted wait crosses without a token.  *)
LEMMA SemAccountingNext ==
  ASSUME SemInv, [Next]_vars
  PROVE  SemAccounting'
  <1> DEFINE L == FileLabels
  <1> USE DEF SemInv
  <1>0. Cardinality(At(L)) \in Nat /\ sem_en \in Nat /\ interrupted \in Nat
    BY AtFinite DEF Data
  <1>1. ASSUME NEW p \in Voters, Child(p)
        PROVE  SemAccounting'
    <2>1. CASE SemWait(p)
      <3>1. \A w \in Waits : w[1] \notin L /\ w[2] \in L
        BY DEF Waits, FileLabels
      <3>2. Cardinality(At(L)') = Cardinality(At(L)) + 1
        <4>1. PICK w \in Waits : Goto(p, w[1], w[2])
          BY <2>1 DEF SemWait
        <4> HIDE DEF L
        <4> QED BY <3>1, <4>1, AtGrows DEF Goto
      <3> QED BY <1>0, <2>1, <3>2 DEF SemWait, others, SemAccounting, HoldingFile
    <2>2. CASE SemPost(p)
      <3>1. \A w \in Posts : w[1] \in L /\ w[2] \notin L
        BY DEF Posts, FileLabels
      <3>2. Cardinality(At(L)') = Cardinality(At(L)) - 1
        <4>1. PICK w \in Posts : Goto(p, w[1], w[2])
          BY <2>2 DEF SemPost
        <4> HIDE DEF L
        <4> QED BY <3>1, <4>1, AtShrinks DEF Goto
      <3> QED BY <1>0, <2>2, <3>2 DEF SemPost, others, SemAccounting, HoldingFile
    <2>3. CASE CheckSigint(p) \/ Sleep(p)
      <3>1. /\ \A c \in Checks : (c[1] \in L <=> c[2] \in L) /\ (c[1] \in L <=> c[3] \in L)
            /\ \A s \in Sleeps : s[1] \in L <=> s[2] \in L
        BY DEF Checks, Sleeps, FileLabels
      <3>2. PICK from, to : Goto(p, from, to) /\ (from \in L <=> to \in L)
        BY <2>3, <3>1 DEF CheckSigint, Sleep
      <3>3. At(L)' = At(L)
        BY <3>2, AtStays DEF Goto
      <3> QED BY <2>3, <3>3 DEF CheckSigint, Sleep, others, sems, SemAccounting, HoldingFile
    <2>4. CASE Reset(p) \/ TryWait(p) \/ WriteVote(p) \/ WakeAll(p) \/ Tally(p)
               \/ Release(p) \/ Arm(p) \/ WakeFromSuspend(p)
      <3>1. PICK from, to : Goto(p, from, to) /\ (from \in L <=> to \in L)
        BY <2>4 DEF Reset, TryWait, WriteVote, WakeAll, Tally, Release, Arm,
                    WakeFromSuspend, FileLabels
      <3>2. At(L)' = At(L)
        BY <3>1, AtStays DEF Goto
      <3> QED
        BY <2>4, <3>2 DEF Reset, TryWait, WriteVote, WakeAll, Tally, Release, Arm,
                          WakeFromSuspend, others, sems, SemAccounting, HoldingFile
    <2> QED BY <1>1, <2>1, <2>2, <2>3, <2>4 DEF Child
  <1>2. ASSUME NEW p \in Voters, Signalled(p)
        PROVE  SemAccounting'
    <2>1. PICK s \in AllSignals : Deliver(p, s) \/ WakeFromPause(p, s) \/ InterruptSemWait(p, s)
      BY <1>2 DEF Signalled, AllSignals
    <2>2. UNCHANGED <<parent, sem_en>>
      BY <2>1 DEF Deliver, WakeFromPause, InterruptSemWait, Handle, others, sems
    <2>3. CASE Deliver(p, s)
      <3>1. At(L)' = At(L)
        BY <2>3 DEF Deliver, At
      <3> QED BY <2>2, <2>3, <3>1 DEF Deliver, SemAccounting, HoldingFile
    <2>4. CASE WakeFromPause(p, s)
      <3>1. PICK from, to : Goto(p, from, to) /\ (from \in L <=> to \in L)
        BY <2>4 DEF WakeFromPause, FileLabels
      <3>2. At(L)' = At(L)
        BY <3>1, AtStays DEF Goto
      <3> QED BY <2>2, <2>4, <3>2 DEF WakeFromPause, SemAccounting, HoldingFile
    <2>5. CASE InterruptSemWait(p, s)
      <3>1. \A w \in Waits : w[1] \notin L /\ w[2] \in L
        BY DEF Waits, FileLabels
      <3>2. Cardinality(At(L)') = Cardinality(At(L)) + 1
        <4>1. PICK w \in Waits : Goto(p, w[1], w[2])
          BY <2>5 DEF InterruptSemWait
        <4> HIDE DEF L
        <4> QED BY <3>1, <4>1, AtGrows DEF Goto
      <3> QED BY <1>0, <2>2, <2>5, <3>2 DEF InterruptSemWait, SemAccounting, HoldingFile
    <2> QED BY <2>1, <2>3, <2>4, <2>5
  <1>3. CASE Open
    <2>1. At(L)' = At(L)
      BY <1>3 DEF Open, At
    <2> QED BY <1>0, <1>3, <2>1 DEF Open, SemAccounting, HoldingFile
  <1>4. CASE EndChild \/ (\E to \in {{}, Voters} : Interrupt(to)) \/ UNCHANGED vars
    <2>1. At(L)' = At(L)
      BY <1>4 DEF EndChild, Interrupt, vars, At
    <2> QED
      BY <1>4, <2>1 DEF EndChild, Interrupt, vars, sems, others, SemAccounting, HoldingFile
  <1> QED BY <1>1, <1>2, <1>3, <1>4 DEF Next

(* sem_candida: the one call that takes it is a sem_trywait that found it    *)
(* free, the one that gives it back is the candidate's own.                 *)
LEMMA OneCandidateNext ==
  ASSUME CandidateInv, [Next]_vars
  PROVE  OneCandidate'
  <1> DEFINE L == CandidateLabels
  <1> USE DEF CandidateInv
  <1>0. Cardinality(At(L)) \in Nat /\ sem_candida \in Nat
    BY AtFinite DEF Data
  <1>1. ASSUME NEW p \in Voters, Child(p)
        PROVE  OneCandidate'
    <2>1. ASSUME NEW from, NEW to, Goto(p, from, to), from \in L <=> to \in L,
                 UNCHANGED sem_candida
          PROVE  OneCandidate'
      <3>1. At(L)' = At(L)
        BY <2>1, AtStays DEF Goto
      <3> QED BY <2>1, <3>1 DEF OneCandidate, Candidates
    <2>2. CASE TryWait(p) /\ Goto(p, "try", "cand_check")
      <3>1. sem_candida' = sem_candida - 1
        BY <2>2 DEF TryWait, Goto, PcType
      <3>2. "try" \notin L /\ "cand_check" \in L
        BY DEF CandidateLabels
      <3>3. Cardinality(At(L)') = Cardinality(At(L)) + 1
        BY <2>2, <3>2, AtGrows DEF Goto
      <3> QED BY <1>0, <3>1, <3>3 DEF OneCandidate, Candidates
    <2>3. CASE TryWait(p) /\ ~Goto(p, "try", "cand_check")
      <3>1. UNCHANGED sem_candida /\ \E from, to : Goto(p, from, to) /\ from \notin L /\ to \notin L
        BY <2>3 DEF TryWait, CandidateLabels
      <3> QED BY <2>1, <3>1
    <2>4. CASE Release(p)
      <3>1. "release" \in L /\ "cand_kill2" \notin L
        BY DEF CandidateLabels
      <3>2. Cardinality(At(L)') = Cardinality(At(L)) - 1
        BY <2>4, <3>1, AtShrinks DEF Release, Goto
      <3> QED BY <1>0, <2>4, <3>2 DEF Release, OneCandidate, Candidates
    <2>5. CASE CheckSigint(p) \/ SemWait(p) \/ SemPost(p) \/ Sleep(p)
      <3>1. /\ \A c \in Checks : (c[1] \in L <=> c[2] \in L) /\ (c[1] \in L <=> c[3] \in L)
            /\ \A w \in Waits \cup Posts \cup Sleeps : w[1] \in L <=> w[2] \in L
        BY DEF Checks, Waits, Posts, Sleeps, CandidateLabels
      <3>2. \E from, to : Goto(p, from, to) /\ (from \in L <=> to \in L)
        BY <2>5, <3>1 DEF CheckSigint, SemWait, SemPost, Sleep
      <3>3. UNCHANGED sem_candida
        BY <2>5 DEF CheckSigint, SemWait, SemPost, Sleep, sems
      <3> QED BY <2>1, <3>2, <3>3
    <2>6. CASE Reset(p) \/ WriteVote(p) \/ WakeAll(p) \/ Tally(p) \/ Arm(p)
               \/ WakeFromSuspend(p)
      <3>1. \E from, to : Goto(p, from, to) /\ (from \in L <=> to \in L)
        BY <2>6 DEF Reset, WriteVote, WakeAll, Tally, Arm, WakeFromSuspend, CandidateLabels
      <3>2. UNCHANGED sem_candida
        BY <2>6 DEF Reset, WriteVote, WakeAll, Tally, Arm, WakeFromSuspend, sems
      <3> QED BY <2>1, <3>1, <3>2
    <2> QED BY <1>1, <2>2, <2>3, <2>4, <2>5, <2>6 DEF Child
  <1>2. ASSUME NEW p \in Voters, Signalled(p)
        PROVE  OneCandidate'
    <2>1. UNCHANGED sem_candida
      BY <1>2 DEF Signalled, Deliver, WakeFromPause, InterruptSemWait, Handle, sems
    <2>2. CASE UNCHANGED pc
      <3>1. At(L)' = At(L)
        BY <2>2 DEF At
      <3> QED BY <2>1, <3>1 DEF OneCandidate, Candidates
    <2>3. CASE ~UNCHANGED pc
      <3>1. \A w \in Waits : w[1] \in L <=> w[2] \in L
        BY DEF Waits, CandidateLabels
      <3>2. PICK from, to : Goto(p, from, to) /\ (from \in L <=> to \in L)
        <4>1. \/ Goto(p, "paused_vote", "loop") \/ Goto(p, "paused_loop", "woken_check")
              \/ \E w \in Waits : Goto(p, w[1], w[2])
          BY <1>2, <2>3 DEF Signalled, Deliver, WakeFromPause, InterruptSemWait
        <4> QED BY <3>1, <4>1 DEF CandidateLabels
      <3>3. At(L)' = At(L)
        BY <3>2, AtStays DEF Goto
      <3> QED BY <2>1, <3>3 DEF OneCandidate, Candidates
    <2> QED BY <2>2, <2>3
  <1>3. CASE Open \/ EndChild \/ (\E to \in {{}, Voters} : Interrupt(to)) \/ UNCHANGED vars
    <2>1. At(L)' = At(L)
      BY <1>3 DEF Open, EndChild, Interrupt, vars, At
    <2> QED
      BY <1>3, <2>1 DEF Open, EndChild, Interrupt, vars, sems, OneCandidate, Candidates
  <1> QED BY <1>1, <1>2, <1>3 DEF Next

-----------------------------------------------------------------------------
(* The counts.                                                              *)

(* Between its vote and the end of its count the candidate is at one of     *)
(* these.                                                                   *)
AfterWrite ==
  { "cand_post", "cand_kill", "cand_check3", "arm", "to_suspend", "suspended",
    "tally_check", "tally_wait", "tally" }

(* Once a count has been made, the file holds at least the votes it had, and *)
(* whoever is on the way to another one has written after it.               *)
CountInv ==
  /\ CandidateInv
  /\ CountedOnce
  /\ tallies # <<>> => /\ Len(file) >= n_procs
                       /\ Len(file) = n_procs => At(AfterWrite) = {}

(* A child that moves among other labels than AfterWrite, or inside it.     *)
LEMMA AfterWriteStays ==
  ASSUME PcType, NEW p \in Voters, NEW from, NEW to, Goto(p, from, to),
         to \in AfterWrite => from \in AfterWrite
  PROVE  At(AfterWrite)' \subseteq At(AfterWrite)
  BY DEF Goto, At, PcType

LEMMA CountInit == Init => CountedOnce /\ tallies = <<>>
  BY DEF Init, CountedOnce

LEMMA CountNext ==
  ASSUME CountInv, CandidateInv', [Next]_vars
  PROVE  CountInv'
  <1> USE VotingAssumption DEF CountInv
  <1>0. Len(tallies) \in Nat /\ Len(file) \in Nat
    BY DEF CandidateInv, Data
  <1>1. ASSUME UNCHANGED votes, At(AfterWrite)' \subseteq At(AfterWrite)
        PROVE  CountInv'
    BY <1>1 DEF votes, CountedOnce
  <1>2. ASSUME NEW p \in Voters, Tally(p)
        PROVE  CountInv'
    <2>1. At(AfterWrite)' \subseteq At(AfterWrite) \ {p}
      BY <1>2 DEF Tally, Goto, At, AfterWrite, CandidateInv, PcType
    <2>2. CASE UNCHANGED tallies
      BY <1>1, <1>2, <2>1, <2>2 DEF Tally, votes
    <2>3. CASE ~UNCHANGED tallies
      <3>1. Len(file) = n_procs /\ tallies' = Append(tallies, file) /\ file' = file
        BY <1>2, <2>3 DEF Tally, Complete
      <3>2. p \in At(AfterWrite)
        BY <1>2 DEF Tally, Goto, At, AfterWrite
      <3>3. tallies = <<>>
        BY <3>1, <3>2
      <3>4. Len(tallies') = 1
        BY <3>1, <3>3
      <3>5. Cardinality(Candidates) = 1
        <4>1. p \in Candidates
          BY <1>2 DEF Tally, Goto, At, Candidates, CandidateLabels
        <4>2. IsFiniteSet(Candidates) /\ Cardinality(Candidates) \in Nat
          BY AtFinite DEF Candidates
        <4>3. Cardinality(Candidates) # 0
          BY <4>1, <4>2, FS_EmptySet
        <4> QED BY <4>2, <4>3 DEF CandidateInv, OneCandidate, Data
      <3>6. PICK q : Candidates = {q}
        BY <3>5, AtFinite, FS_Singleton DEF Candidates
      <3>7. At(AfterWrite) \subseteq {p}
        BY <3>2, <3>6 DEF At, AfterWrite, Candidates, CandidateLabels
      <3> QED BY <2>1, <3>1, <3>4, <3>7 DEF CountedOnce
    <2> QED BY <2>2, <2>3
  <1>3. ASSUME NEW p \in Voters, WriteVote(p)
        PROVE  CountInv'
    <2>1. Len(file') = Len(file) + 1 /\ tallies' = tallies
      BY <1>3 DEF WriteVote, CandidateInv, Data
    <2> QED BY <1>0, <2>1 DEF CountedOnce
  <1>4. ASSUME NEW p \in Voters, Child(p), ~Tally(p), ~WriteVote(p)
        PROVE  CountInv'
    <2>1. UNCHANGED votes
      BY <1>4 DEF Child, CheckSigint, SemWait, SemPost, Reset, TryWait, WakeAll, Release, Arm,
                  Sleep, WakeFromSuspend
    <2>2. /\ \A c \in Checks : /\ c[2] \in AfterWrite => c[1] \in AfterWrite
                               /\ c[3] \in AfterWrite => c[1] \in AfterWrite
          /\ \A w \in Waits \cup Posts \cup Sleeps :
               w[2] \in AfterWrite => w[1] \in AfterWrite
      BY DEF Checks, Waits, Posts, Sleeps, AfterWrite
    <2>3. CASE CheckSigint(p) \/ SemWait(p) \/ SemPost(p) \/ Sleep(p)
      <3>1. PICK from, to : Goto(p, from, to) /\ (to \in AfterWrite => from \in AfterWrite)
        BY <2>2, <2>3 DEF CheckSigint, SemWait, SemPost, Sleep
      <3> QED BY <1>1, <2>1, <3>1, AfterWriteStays DEF CandidateInv
    <2>4. CASE Reset(p) \/ TryWait(p) \/ WakeAll(p) \/ Release(p) \/ Arm(p)
               \/ WakeFromSuspend(p)
      <3>1. PICK from, to : Goto(p, from, to) /\ (to \in AfterWrite => from \in AfterWrite)
        BY <2>4 DEF Reset, TryWait, WakeAll, Release, Arm, WakeFromSuspend, AfterWrite
      <3> QED BY <1>1, <2>1, <3>1, AfterWriteStays DEF CandidateInv
    <2> QED BY <1>4, <2>3, <2>4 DEF Child
  <1>5. ASSUME NEW p \in Voters, Signalled(p)
        PROVE  CountInv'
    <2>1. UNCHANGED votes
      BY <1>5 DEF Signalled, Deliver, WakeFromPause, InterruptSemWait, Handle
    <2>2. CASE UNCHANGED pc
      BY <1>1, <2>1, <2>2 DEF At
    <2>3. CASE ~UNCHANGED pc
      <3>1. \A w \in Waits : w[2] \in AfterWrite => w[1] \in AfterWrite
        BY DEF Waits, AfterWrite
      <3>2. PICK from, to : Goto(p, from, to) /\ (to \in AfterWrite => from \in AfterWrite)
        <4>1. \/ Goto(p, "paused_vote", "loop") \/ Goto(p, "paused_loop", "woken_check")
              \/ \E w \in Waits : Goto(p, w[1], w[2])
          BY <1>5, <2>3 DEF Signalled, Deliver, WakeFromPause, InterruptSemWait
        <4> QED BY <3>1, <4>1 DEF AfterWrite
      <3> QED BY <1>1, <2>1, <3>2, AfterWriteStays DEF CandidateInv
    <2> QED BY <2>2, <2>3
  <1>6. CASE Open \/ EndChild \/ (\E to \in {{}, Voters} : Interrupt(to)) \/ UNCHANGED vars
    BY <1>1, <1>6 DEF Open, EndChild, Interrupt, vars, At
  <1> QED BY <1>2, <1>3, <1>4, <1>5, <1>6 DEF Next

-----------------------------------------------------------------------------
(* Every reachable state satisfies the three invariants.                    *)

LEMMA SemInvAlways == Spec => []SemInv
  <1>1. Init => SemInv
    BY DataInit, AccountingInit DEF SemInv
  <1>2. SemInv /\ [Next]_vars => SemInv'
    BY PcMoves, DataNext, SemAccountingNext DEF SemInv
  <1> QED BY <1>1, <1>2, PTL DEF Spec

LEMMA CountInvAlways == Spec => []CountInv
  <1>1. Init => CountInv
    BY DataInit, AccountingInit, CountInit DEF CountInv, CandidateInv
  <1>2. CountInv /\ [Next]_vars => CountInv'
    <2>1. CandidateInv /\ [Next]_vars => CandidateInv'
      BY PcMoves, DataNext, OneCandidateNext DEF CandidateInv
    <2> QED BY <2>1, CountNext DEF CountInv
  <1> QED BY <1>1, <1>2, PTL DEF Spec

-----------------------------------------------------------------------------
(* The theorems.                                                            *)

(* P2/voting.c counts its file semaphore right: at any moment its value, the *)
(* children that hold it, dead ones included, and the waits that a signal    *)
(* cut short add up to the one token the parent posts.                       *)
THEOREM SemaphoreAddsUp == Spec => []SemAccounting
  <1>1. SemInv => SemAccounting
    BY DEF SemInv
  <1> QED BY <1>1, SemInvAlways, PTL

(* As long as no signal has cut a sem_wait short the voting file is one      *)
(* child's at a time: the sem_waits are the only way in.                    *)
THEOREM FileExclusive == Spec => [](interrupted = 0 => Cardinality(HoldingFile) <= 1)
  <1>1. SemInv => (interrupted = 0 => Cardinality(HoldingFile) <= 1)
    BY AtFinite DEF SemInv, Data, SemAccounting, HoldingFile
  <1> QED BY <1>1, SemInvAlways, PTL

(* sem_trywait elects: the candidacy is free or exactly one child has it,    *)
(* whatever signals arrive at which statement.                               *)
THEOREM NeverTwoCandidates == Spec => []OneCandidate
  <1>1. CountInv => OneCandidate
    BY DEF CountInv, CandidateInv
  <1> QED BY <1>1, CountInvAlways, PTL

(* The variables of P2/voting.c keep their types: the binary semaphore is    *)
(* one, the parent never looks beyond its last child, the file only grows.   *)
THEOREM TypesHold == Spec => []TypeOK
  <1>1. CountInv => TypeOK
    <2> SUFFICES ASSUME CountInv PROVE TypeOK
      OBVIOUS
    <2>1. Cardinality(Candidates) \in Nat
      BY AtFinite DEF Candidates
    <2>2. sem_candida \in {0, 1}
      BY <2>1 DEF CountInv, CandidateInv, OneCandidate, Data
    <2> QED BY <2>2 DEF CountInv, CandidateInv, Data, TypeOK, AllSignals
  <1> QED BY <1>1, CountInvAlways, PTL

(* No file of votes is counted twice, although the file is never emptied:    *)
(* the next candidate's own vote makes it too long.                          *)
THEOREM NoSecondCount == Spec => []CountedOnce
  <1>1. CountInv => CountedOnce
    BY DEF CountInv
  <1> QED BY <1>1, CountInvAlways, PTL

=============================================================================
