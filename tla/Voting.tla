------------------------------- MODULE Voting -------------------------------
(***************************************************************************)
(* P2/voting.c: n_procs children elect a candidate with sem_trywait on      *)
(* sem_candida, append their votes to a file behind sem_en, and wake each   *)
(* other with SIGUSR1; the candidate wakes itself with ualarm. SIGINT ends  *)
(* a child at the next check_sigint, the parent ends them one by one.       *)
(*                                                                          *)
(* One step is one system call or one look at sig_recieved. kill() makes a  *)
(* signal pending; Deliver runs the handler (sa_flags = 0), which makes a   *)
(* blocked sem_wait return without its token, as nobody looks at its        *)
(* result. A signal handled just before pause or sigsuspend wakes nobody.   *)
(***************************************************************************)
EXTENDS Integers, Sequences, FiniteSets

CONSTANTS
  n_procs,    \* children
  Leftover,   \* votes in voting_file when the program starts
  MaxRounds,  \* bound: times a child becomes the candidate
  MaxInts     \* bound: SIGINTs and SIGALRMs that reach the parent

ASSUME VotingAssumption ==
  /\ n_procs \in Nat \ {0} /\ Leftover \in Nat /\ MaxRounds \in Nat /\ MaxInts \in Nat

Voters == 1 .. n_procs

VARIABLES
  pc,            \* statement each child executes next
  parent, next,  \* statement of the parent, the child it is ending
  sem_en, sem_candida,
  sig_recieved,  \* "none", "USR1" or "INT", per child
  pending,       \* signals generated and not delivered, per child
  file,          \* the voting file: whose votes, 0 for those of an earlier run
  tallies,       \* the files that candidates have counted
  rounds, ints,  \* counters of the bounds
  interrupted    \* sem_waits that returned without a token

sems == <<sem_en, sem_candida>>
signals == <<sig_recieved, pending>>
votes == <<file, tallies>>
others == <<parent, next, ints>>
vars == <<pc, others, sems, signals, votes, rounds, interrupted>>

Goto(p, from, to) == pc[p] = from /\ pc' = [pc EXCEPT ![p] = to]

Init ==
  /\ pc = [p \in Voters |-> "work_check"] /\ parent = "write_pids" /\ next = 1
  /\ sem_en = 0 /\ sem_candida = 1
  /\ sig_recieved = [p \in Voters |-> "none"] /\ pending = [p \in Voters |-> {}]
  /\ file = [i \in 1 .. Leftover |-> 0] /\ tallies = <<>>
  /\ rounds = 0 /\ ints = 0 /\ interrupted = 0

-----------------------------------------------------------------------------
(* check_sigint: statement, what follows it, and how the child leaves: with *)
(* the file, with the candidacy, or with both still taken.                  *)
Checks == { <<"work_check", "work_wait", "exited">>,
            <<"work_check2", "work_post", "exited_file">>,
            <<"loop", "reset", "exited">>,
            <<"lost_check", "lost", "exited">>,
            <<"woken_check", "vote_wait", "exited">>,
            <<"vote_check", "vote_write", "exited_file">>,
            <<"cand_check", "cand_wait", "exited_cand">>,
            <<"cand_check2", "cand_write", "exited_both">>,
            <<"cand_check3", "arm", "exited_cand">>,
            <<"tally_check", "tally_wait", "exited_cand">> }

Gone == {"exited", "exited_file", "exited_cand", "exited_both"}

CheckSigint(p) ==
  /\ \E c \in Checks :
       Goto(p, c[1], IF sig_recieved[p] = "INT" THEN c[3] ELSE c[2])
  /\ UNCHANGED <<others, sems, signals, votes, rounds, interrupted>>

(* The calls of sem_wait(sem_en) and sem_post(sem_en), and what follows.    *)
Waits == { <<"work_wait", "work_check2">>, <<"vote_wait", "vote_check">>,
           <<"cand_wait", "cand_check2">>, <<"tally_wait", "tally">> }

Posts == { <<"work_post", "loop">>, <<"vote_post", "to_pause_vote">>,
           <<"cand_post", "cand_kill">>, <<"tally_post", "arm2">> }

SemWait(p) ==
  /\ sem_en > 0 /\ sem_en' = sem_en - 1
  /\ \E w \in Waits : Goto(p, w[1], w[2])
  /\ UNCHANGED <<others, sem_candida, signals, votes, rounds, interrupted>>

SemPost_LostByVoters(p) ==  \* faulty variant: vote() forgets to post
  /\ sem_en' = IF pc[p] = "vote_post" THEN sem_en ELSE sem_en + 1
  /\ \E w \in Posts : Goto(p, w[1], w[2])
  /\ UNCHANGED <<others, sem_candida, signals, votes, rounds, interrupted>>

SemPost(p) ==
  /\ sem_en' = sem_en + 1
  /\ \E w \in Posts : Goto(p, w[1], w[2])
  /\ UNCHANGED <<others, sem_candida, signals, votes, rounds, interrupted>>

(* What was received before the round is forgotten, a SIGINT behind the     *)
(* check as well.                                                           *)
Reset(p) ==
  /\ Goto(p, "reset", "try")
  /\ sig_recieved' = [sig_recieved EXCEPT ![p] = "none"]
  /\ UNCHANGED <<others, sems, pending, votes, rounds, interrupted>>

Candidacy_Unlimited == TRUE  \* faulty variant: the result of sem_trywait is ignored

Candidacy == sem_candida > 0

(* sem_trywait(sem_candida): candidate, or voter; a voter that has been     *)
(* woken already votes, another one waits.                                  *)
TryWait(p) ==
  /\ \/ /\ Candidacy /\ rounds < MaxRounds /\ rounds' = rounds + 1
        /\ sem_candida' = sem_candida - 1 /\ Goto(p, "try", "cand_check")
     \/ /\ ~Candidacy /\ Goto(p, "try", "lost_check") /\ UNCHANGED <<sem_candida, rounds>>
     \/ /\ UNCHANGED <<sem_candida, rounds>>
        /\ Goto(p, "lost", IF sig_recieved[p] = "USR1" THEN "vote_wait" ELSE "to_pause_loop")
  /\ UNCHANGED <<others, sem_en, signals, votes, interrupted>>

-----------------------------------------------------------------------------
(* Votes.                                                                   *)

(* write of one Vote to the file, opened with O_APPEND.                     *)
WriteVote(p) ==
  /\ Goto(p, "vote_write", "vote_post") \/ Goto(p, "cand_write", "cand_post")
  /\ file' = Append(file, p)
  /\ UNCHANGED <<others, sems, signals, tallies, rounds, interrupted>>

(* kill(pid[i], SIGUSR1) for all children, the sender among them.           *)
WakeAll(p) ==
  /\ Goto(p, "cand_kill", "cand_check3") \/ Goto(p, "cand_kill2", "loop")
  /\ pending' = [q \in Voters |-> IF pc[q] \in Gone THEN pending[q]
                                  ELSE pending[q] \cup {"USR1"}]
  /\ UNCHANGED <<others, sems, sig_recieved, votes, rounds, interrupted>>

Complete_AtLeast == Len(file) >= n_procs  \* faulty variant

Complete == Len(file) = n_procs

(* stat and, if the file has the size of n_procs votes, read and print.     *)
Tally(p) ==
  /\ Goto(p, "tally", "tally_post")
  /\ tallies' = IF Complete THEN Append(tallies, file) ELSE tallies
  /\ UNCHANGED <<others, sems, signals, file, rounds, interrupted>>

Release_StaysInOffice(p) ==  \* faulty variant: the loop goes on as the candidate
  /\ Goto(p, "release", "arm") /\ sem_candida' = sem_candida + 1
  /\ UNCHANGED <<others, sem_en, signals, votes, rounds, interrupted>>

Release(p) ==
  /\ Goto(p, "release", "cand_kill2") /\ sem_candida' = sem_candida + 1
  /\ UNCHANGED <<others, sem_en, signals, votes, rounds, interrupted>>

-----------------------------------------------------------------------------
(* Sleeping and signals.                                                    *)

(* ualarm: from now on the alarm may go off at any time.                    *)
Arm(p) ==
  /\ Goto(p, "arm", "to_suspend") \/ Goto(p, "arm2", "to_suspend2")
  /\ pending' = [pending EXCEPT ![p] = @ \cup {"ALRM"}]
  /\ UNCHANGED <<others, sems, sig_recieved, votes, rounds, interrupted>>

Sleeps == { <<"to_pause_vote", "paused_vote">>, <<"to_pause_loop", "paused_loop">>,
            <<"to_suspend", "suspended">>, <<"to_suspend2", "suspended2">> }

Sleep(p) ==
  /\ \E s \in Sleeps : Goto(p, s[1], s[2])
  /\ UNCHANGED <<others, sems, signals, votes, rounds, interrupted>>

(* handler: SIGUSR1 never replaces a SIGINT, SIGALRM leaves no trace.       *)
Flag(flag, s) ==
  CASE s = "INT" -> "INT"
    [] s = "USR1" /\ flag = "none" -> "USR1"
    [] OTHER -> flag

Handle(p, s) ==
  /\ s \in pending[p] /\ pending' = [pending EXCEPT ![p] = @ \ {s}]
  /\ sig_recieved' = [sig_recieved EXCEPT ![p] = Flag(@, s)]
  /\ UNCHANGED <<others, sems, votes, rounds>>

Blocked == {"paused_vote", "paused_loop", "suspended", "suspended2"}

Deliver(p, s) ==
  pc[p] \notin Blocked \cup Gone /\ Handle(p, s) /\ UNCHANGED <<pc, interrupted>>

(* pause returns after any handler.                                         *)
WakeFromPause(p, s) ==
  /\ Goto(p, "paused_vote", "loop") \/ Goto(p, "paused_loop", "woken_check")
  /\ Handle(p, s) /\ UNCHANGED interrupted

(* sigsuspend lets SIGINT and SIGALRM through and handles a pending SIGUSR1 *)
(* on its return.                                                           *)
WakeFromSuspend(p) ==
  /\ pending[p] \cap {"INT", "ALRM"} # {}
  /\ Goto(p, "suspended", "tally_check") \/ Goto(p, "suspended2", "release")
  /\ pending' = [pending EXCEPT ![p] = {}]
  /\ sig_recieved' = [sig_recieved EXCEPT ![p] =
       IF "INT" \in pending[p] THEN "INT"
       ELSE IF "USR1" \in pending[p] THEN Flag(@, "USR1") ELSE @]
  /\ UNCHANGED <<others, sems, votes, rounds, interrupted>>

InterruptSemWait(p, s) ==
  /\ sem_en = 0 /\ \E w \in Waits : Goto(p, w[1], w[2])
  /\ Handle(p, s) /\ interrupted' = interrupted + 1

-----------------------------------------------------------------------------
(* The parent: the file of pids, sem_post(sem_en), pause; SIGINT or SIGALRM *)
(* makes its handler send SIGINT to one child after the other and wait for  *)
(* each. Ctrl-C reaches the children at the same time.                      *)

Open ==
  /\ parent = "write_pids" /\ parent' = "pause" /\ sem_en' = sem_en + 1
  /\ UNCHANGED <<pc, next, ints, sem_candida, signals, votes, rounds, interrupted>>

Interrupt(to) ==
  /\ ints < MaxInts /\ ints' = ints + 1 /\ parent = "pause" /\ parent' = "kill"
  /\ pending' = [p \in Voters |-> IF p \in to /\ pc[p] \notin Gone
                                  THEN pending[p] \cup {"INT"} ELSE pending[p]]
  /\ UNCHANGED <<pc, next, sems, sig_recieved, votes, rounds, interrupted>>

EndChild ==
  /\ \/ /\ parent = "kill" /\ parent' = "wait" /\ UNCHANGED next
        /\ pending' = [pending EXCEPT ![next] = IF pc[next] \in Gone THEN @
                                                ELSE @ \cup {"INT"}]
     \/ /\ parent = "wait" /\ pc[next] \in Gone /\ next' = next + 1
        /\ parent' = IF next = n_procs THEN "exited" ELSE "kill"
        /\ UNCHANGED pending
  /\ UNCHANGED <<pc, ints, sems, sig_recieved, votes, rounds, interrupted>>

-----------------------------------------------------------------------------
Child(p) ==
  \/ CheckSigint(p) \/ SemWait(p) \/ SemPost(p) \/ Reset(p) \/ TryWait(p)
  \/ WriteVote(p) \/ WakeAll(p) \/ Tally(p) \/ Release(p) \/ Arm(p) \/ Sleep(p)
  \/ WakeFromSuspend(p)

Signalled(p) ==
  \E s \in {"INT", "USR1", "ALRM"} :
    Deliver(p, s) \/ WakeFromPause(p, s) \/ InterruptSemWait(p, s)

Next ==
  \/ \E p \in Voters : Child(p) \/ Signalled(p)
  \/ Open \/ EndChild \/ \E to \in {{}, Voters} : Interrupt(to)

Spec == Init /\ [][Next]_vars

-----------------------------------------------------------------------------
(* Properties.                                                              *)

(* Types; the flag, the semaphores and the file keep theirs.                *)
TypeOK ==
  /\ sem_en \in Nat /\ sem_candida \in {0, 1} /\ next \in 1 .. n_procs + 1
  /\ sig_recieved \in [Voters -> {"none", "USR1", "INT"}]
  /\ pending \in [Voters -> SUBSET {"INT", "USR1", "ALRM"}]
  /\ file \in Seq(0 .. n_procs) /\ Len(file) >= Leftover
  /\ rounds \in 0 .. MaxRounds /\ interrupted \in Nat

At(labels) == { p \in Voters : pc[p] \in labels }

FileLabels ==
  { "work_check2", "work_post", "vote_check", "vote_write", "vote_post",
    "cand_check2", "cand_write", "cand_post", "tally", "tally_post",
    "exited_file", "exited_both" }

HoldingFile == At(FileLabels)

CandidateLabels ==
  { "cand_check", "cand_wait", "cand_check2", "cand_write", "cand_post", "cand_kill",
    "cand_check3", "arm", "to_suspend", "suspended", "tally_check", "tally_wait", "tally",
    "tally_post", "arm2", "to_suspend2", "suspended2", "release",
    "exited_cand", "exited_both" }

(* The candidate, from sem_trywait to sem_post or to its exit in office.    *)
Candidates == At(CandidateLabels)

(* The file's semaphore, the children that have taken it (also into their   *)
(* grave) and the waits that were interrupted add up.                       *)
SemAccounting ==
  sem_en + Cardinality(HoldingFile) =
    interrupted + (IF parent = "write_pids" THEN 0 ELSE 1)

(* There is never a second candidate, whatever the signals do: it is the    *)
(* one semaphore that no signal can get anybody past.                       *)
OneCandidate == sem_candida + Cardinality(Candidates) = 1

(* No vote is counted by two candidates.                                    *)
CountedOnce == Len(tallies) <= 1

-----------------------------------------------------------------------------
(* What the description of the program says and the program does not do.    *)

(* What a candidate counts is one vote of every process.                    *)
TallyIsElection == \A i \in DOMAIN tallies : { tallies[i][k] : k \in Voters } = Voters
=============================================================================
