---------------------------- MODULE MinerRounds ----------------------------
(***************************************************************************)
(* The mining rounds of Proyecto/launch/miner_launch.c: miner processes     *)
(* that share one System segment, serialise on the semaphore System.mutex   *)
(* and drive each other through SIGUSR1 (next round) and SIGUSR2 (vote).    *)
(*                                                                          *)
(* One step is one C statement on the shared segment; a counter increment   *)
(* is a load and a store, because a process that sem_wait let through by    *)
(* EINTR runs its section next to another one. pc names the statement a     *)
(* miner is about to execute; the prefix of a label names the section.      *)
(*                                                                          *)
(* A kill() makes the signal pending; Deliver runs the handler. Handlers    *)
(* are installed with sa_flags = 0, so a blocked sem_wait returns -1 when   *)
(* a signal is delivered, and nobody looks at what it returned.             *)
(*                                                                          *)
(* Proof of work: Solve(t) is the argument whose hash is t. From target 0   *)
(* the chain of preimages repeats after 24 999 417 rounds and leaves the    *)
(* searched ranges after 23 544 401 at the earliest, so t + 1 names the     *)
(* solution of t faithfully for every run of at most 60 seconds.            *)
(***************************************************************************)
EXTENDS MinerLib, Sequences, FiniteSets

CONSTANTS
  Miners,     \* the miner processes (their pids)
  First,      \* the one that found no segment and created it
  MAX_POLLS,  \* naps of the winner before it stops waiting (5 in the code)
  MaxBlocks,  \* bound: blocks that are mined
  MaxAlarms,  \* bound: SIGALRM and SIGINT each miner gets
  MaxInterrupts, \* bound: sem_waits that a signal interrupts
  MaxFailures    \* bound: processes that leave through an error exit

ASSUME RoundsAssumption ==
  /\ IsFiniteSet(Miners) /\ First \in Miners /\ None \notin Miners
  /\ MAX_POLLS \in Nat \ {0} /\ MaxBlocks \in Nat
  /\ MaxAlarms \in [Miners -> Nat] /\ MaxInterrupts \in Nat /\ MaxFailures \in Nat

VARIABLES
  miners, num_miners,         \* System: the table of active miners
  current_block, last_block,  \* System: the block being mined, the last one
  mutex,                      \* System: value of the semaphore
  pc,                         \* statement each miner executes next
  load,                       \* counter loaded for an increment, or loop index
  sigusr2, shutdown,          \* flags the signal handler sets
  pending,                    \* signals generated and not yet delivered
  target, solution,           \* local target, global _solution
  coins, voting,              \* this_miner.coins, _voting
  ledger,                     \* blocks each miner wrote to its register
  interrupted,                \* how many sem_waits returned without the mutex
  alarms                      \* SIGALRM and SIGINT each miner has got

shm   == <<miners, num_miners, current_block, last_block>>
local == <<target, solution, coins, voting, ledger>>
sig   == <<sigusr2, shutdown, pending, alarms>>
vars  == <<shm, mutex, pc, load, local, sig, interrupted>>

-----------------------------------------------------------------------------
(* Labels. Each section is X_wait (its sem_wait), its statements, X_post.   *)

Entries == { <<"reg_wait", "reg_slot">>, <<"first_wait", "first_set">>,
             <<"join_wait", "join_slot">>, <<"win_wait", "win_solution">>,
             <<"next_wait", "next_last">>, <<"lose_wait", "lose_compare">>,
             <<"del_wait", "del_check">> }

Exits == { <<"reg_post", "registered">>, <<"first_post", "alloc">>,
           <<"join_post", "mine">>, <<"win_post", "poll">>,
           <<"next_post", "top">>, <<"lose_post", "to_suspend">>,
           <<"del_post", "exited">> }

Waiting == { e[1] : e \in Entries }

Protected == { "reg_slot", "reg_load", "reg_store", "reg_post",
               "first_set", "first_kill", "first_post",
               "join_slot", "join_load", "join_store", "join_post",
               "win_solution", "win_kill", "win_total", "win_total_store",
               "win_fav", "win_fav_store", "win_post",
               "next_last", "next_new", "next_kill", "next_post",
               "lose_compare", "lose_fav_store", "lose_total",
               "lose_total_store", "lose_post", "del_check", "del_post" }

Suspended == {"suspended_first", "suspended"}

\* last_exit: returned from main as the last miner, holding the mutex.
\* dead: left through an error exit, without leaving the table.
Ended == {"exited", "last_exit", "dead"}

Labels == Waiting \cup Protected \cup Suspended \cup Ended \cup
  { "start", "registered", "to_suspend_first", "alloc", "top", "mine", "poll",
    "nap", "tally", "award", "write", "to_suspend" }

Signals == {"USR1", "USR2", "TERM"}  \* TERM: SIGALRM or SIGINT

Goto(m, from, to) == pc[m] = from /\ pc' = [pc EXCEPT ![m] = to]

Alive(m) == pc[m] \notin Ended \cup {"start"}

Solve(t) == t + 1
-----------------------------------------------------------------------------
(* First has created and zeroed the segment; nobody is registered.          *)
InitBlocks ==
  /\ current_block = InitBlock(-1, 0) /\ last_block = InitBlock(-1, 0)
  /\ mutex = 1 /\ interrupted = 0

InitLocals ==
  /\ load = [m \in Miners |-> 0]
  /\ sigusr2 = [m \in Miners |-> FALSE] /\ shutdown = [m \in Miners |-> FALSE]
  /\ pending = [m \in Miners |-> {}] /\ alarms = [m \in Miners |-> 0]
  /\ target = [m \in Miners |-> 0] /\ solution = [m \in Miners |-> 0]
  /\ coins = [m \in Miners |-> 0] /\ voting = [m \in Miners |-> 0]
  /\ ledger = [m \in Miners |-> <<>>]

Init ==
  /\ miners = [i \in Slots |-> None] /\ num_miners = 0
  /\ pc = [m \in Miners |-> IF m = First THEN "reg_wait" ELSE "start"]
  /\ InitBlocks /\ InitLocals

-----------------------------------------------------------------------------
(* The pieces the statements are made of.                                   *)

(* One counter++ of a uint8_t is Load and then a store of Bump.             *)
Bump(m) == UInt8(load[m] + 1)

SetLoad(m, value) == load' = [load EXCEPT ![m] = value]

Load(m, from, to, value) ==
  Goto(m, from, to) /\ SetLoad(m, value) /\ UNCHANGED shm

(* A statement that assigns to the current block and resets load.           *)
StoreBlock(m, from, to, block) ==
  /\ Goto(m, from, to) /\ SetLoad(m, 0)
  /\ current_block' = block
  /\ UNCHANGED <<miners, num_miners, last_block>>

WriteSlot(slots, i, m) == [j \in Slots |-> IF j = i THEN m ELSE slots[j]]

(* kill(): the signal becomes pending for the live processes among "to".    *)
Kill(to, s) ==
  pending' = [n \in Miners |-> IF n \in to /\ Alive(n)
                               THEN pending[n] \cup {s} ELSE pending[n]]

(* Who a kill to the pid of slot i reaches; a miner skips its own slot. An  *)
(* unused slot of the table holds pid 0, the caller's process group: the    *)
(* caller, or all the miners started by one script. The slots of a block    *)
(* are never initialised, so an unused one may also hold the pid of nobody. *)
Recipients(m, slots, i) ==
  IF i \notin Slots \/ slots[i] = None THEN {{}, {m}, Miners}
  ELSE {{slots[i]} \ {m}}

(* for(i = 0; i < num; i++) if(slots[i].pid != pid) kill(slots[i].pid, s):  *)
(* one step per slot, load is i; to is the statement behind the loop.       *)
KillLoop(m, from, to, slots, num, s) ==
  /\ \/ /\ load[m] < num /\ pc[m] = from
        /\ \E to_kill \in Recipients(m, slots, load[m]) : Kill(to_kill, s)
        /\ SetLoad(m, load[m] + 1) /\ UNCHANGED pc
     \/ /\ load[m] >= num /\ Goto(m, from, to)
        /\ SetLoad(m, 0) /\ UNCHANGED pending
  /\ UNCHANGED <<shm, mutex, local, sigusr2, shutdown, alarms, interrupted>>

-----------------------------------------------------------------------------
(* The semaphore.                                                           *)

SemWait_Unguarded(m) ==  \* faulty variant: does not wait for the mutex
  /\ mutex' = mutex - 1
  /\ \E e \in Entries : Goto(m, e[1], e[2])
  /\ UNCHANGED <<shm, load, local, sig, interrupted>>

SemWait(m) ==
  /\ mutex > 0 /\ mutex' = mutex - 1
  /\ \E e \in Entries : Goto(m, e[1], e[2])
  /\ UNCHANGED <<shm, load, local, sig, interrupted>>

SemPost_LostByLeavers(m) ==  \* faulty variant: nobody posts who leaves
  /\ mutex' = IF pc[m] = "del_post" THEN mutex ELSE mutex + 1
  /\ \E e \in Exits : Goto(m, e[1], e[2])
  /\ UNCHANGED <<shm, load, local, sig, interrupted>>

SemPost(m) ==
  /\ mutex' = mutex + 1
  /\ \E e \in Exits : Goto(m, e[1], e[2])
  /\ UNCHANGED <<shm, load, local, sig, interrupted>>

-----------------------------------------------------------------------------
(* The statements, section by section.                                      *)

(* system->miners[system->num_miners] = this_miner; system->num_miners++    *)
Register(m) ==
  \/ /\ Goto(m, "reg_slot", "reg_load")
     /\ miners' = WriteSlot(miners, num_miners, m)
     /\ UNCHANGED <<num_miners, current_block, last_block, load>>
  \/ Load(m, "reg_load", "reg_store", num_miners)
  \/ /\ Goto(m, "reg_store", "reg_post") /\ SetLoad(m, 0)
     /\ num_miners' = Bump(m)
     /\ UNCHANGED <<miners, current_block, last_block>>

AfterRegistering_NoWait(m) ==  \* faulty variant: joiners start mining at once
  /\ Goto(m, "registered", IF m = First THEN "first_wait" ELSE "alloc")
  /\ UNCHANGED <<shm, load>>

(* Only the creator of the segment starts the first round.                  *)
AfterRegistering(m) ==
  /\ Goto(m, "registered", IF m = First THEN "first_wait" ELSE "to_suspend_first")
  /\ UNCHANGED <<shm, load>>

FirstBlock(m) == StoreBlock(m, "first_set", "first_kill", InitBlock(-1, 0))

(* Entering the block that is current now: it becomes one of its voters.    *)
JoinBlock(m) ==
  \/ StoreBlock(m, "join_slot", "join_load",
       [current_block EXCEPT !.miners = WriteSlot(@, current_block.num_voters, m)])
  \/ Load(m, "join_load", "join_store", current_block.num_voters)
  \/ StoreBlock(m, "join_store", "join_post",
       [current_block EXCEPT !.num_voters = Bump(m)])

(* The winner publishes its solution (then win_kill) and votes for itself.  *)
PublishAndVote(m) ==
  \/ StoreBlock(m, "win_solution", "win_kill",
       [current_block EXCEPT !.solution = solution[m]])
  \/ Load(m, "win_total", "win_total_store", current_block.total)
  \/ StoreBlock(m, "win_total_store", "win_fav", [current_block EXCEPT !.total = Bump(m)])
  \/ Load(m, "win_fav", "win_fav_store", current_block.fav)
  \/ StoreBlock(m, "win_fav_store", "win_post", [current_block EXCEPT !.fav = Bump(m)])

Successor_SkipsId(block) == InitBlock(block.id + 1, block.solution)  \* faulty

Successor_KeepsTarget(block) == InitBlock(block.id, block.target)  \* faulty

Successor_KeepsVotes(block) ==  \* faulty variant: total_votes is not reset
  [InitBlock(block.id, block.solution) EXCEPT !.total = block.total]

Successor(block) == InitBlock(block.id, block.solution)

(* last_block = current_block; a new block whose target is that solution.   *)
NextBlock(m) ==
  \/ /\ Goto(m, "next_last", "next_new")
     /\ last_block' = current_block
     /\ UNCHANGED <<miners, num_miners, current_block, load>>
  \/ StoreBlock(m, "next_new", "next_kill", Successor(last_block))

CountVote_Forgotten(m) ==  \* faulty variant: total_votes++ is missing
  Goto(m, "lose_total", "lose_post") /\ UNCHANGED <<shm, load>>

CountVote(m) ==
  \/ Load(m, "lose_total", "lose_total_store", current_block.total)
  \/ StoreBlock(m, "lose_total_store", "lose_post", [current_block EXCEPT !.total = Bump(m)])

(* A loser approves only the solution it has itself in _solution.           *)
Vote(m) ==
  \/ /\ current_block.solution = solution[m]
     /\ Load(m, "lose_compare", "lose_fav_store", current_block.fav)
  \/ /\ current_block.solution # solution[m]
     /\ Goto(m, "lose_compare", "lose_total") /\ UNCHANGED <<shm, load>>
  \/ StoreBlock(m, "lose_fav_store", "lose_total", [current_block EXCEPT !.fav = Bump(m)])
  \/ CountVote(m)

(* Leaving the table. The last miner returns without sem_post.              *)
Deregister(m) ==
  LET deleted == DeleteMiner(miners, num_miners, m)
  IN  /\ Goto(m, "del_check", IF num_miners = 1 THEN "last_exit" ELSE "del_post")
      /\ miners' = deleted.miners /\ num_miners' = deleted.num
      /\ UNCHANGED <<current_block, last_block, load>>

Statement(m) ==
  /\ \/ Register(m) \/ AfterRegistering(m) \/ FirstBlock(m) \/ JoinBlock(m)
     \/ PublishAndVote(m) \/ NextBlock(m) \/ Vote(m) \/ Deregister(m)
  /\ UNCHANGED <<mutex, local, sig, interrupted>>

(* The three loops that signal the table or the voters of the block.        *)
Signalling(m) ==
  \/ KillLoop(m, "first_kill", "first_post", miners, num_miners, "USR1")
  \/ KillLoop(m, "win_kill", "win_total",
       current_block.miners, current_block.num_voters, "USR2")
  \/ KillLoop(m, "next_kill", "next_post", miners, num_miners, "USR1")

-----------------------------------------------------------------------------
(* Statements outside the sections: all of them read without the mutex.     *)

(* The segment is mapped: a process that finds the table full gives up.     *)
CheckRoom(m) ==
  /\ Goto(m, "start", IF num_miners = MAX_MINERS THEN "exited" ELSE "reg_wait")
  /\ UNCHANGED <<shm, mutex, load, local, sig, interrupted>>

Allocate(m) ==
  /\ Goto(m, "alloc", "top")
  /\ UNCHANGED <<shm, mutex, load, local, sig, interrupted>>

(* while(!shutdown): leave, or forget old votes and read this round's target. *)
Top(m) ==
  /\ \/ shutdown[m] /\ Goto(m, "top", "del_wait") /\ UNCHANGED <<sigusr2, target>>
     \/ /\ ~shutdown[m] /\ current_block.id < MaxBlocks
        /\ Goto(m, "top", "join_wait")
        /\ sigusr2' = [sigusr2 EXCEPT ![m] = FALSE]
        /\ target' = [target EXCEPT ![m] = current_block.target]
  /\ UNCHANGED <<shm, mutex, load, shutdown, pending, alarms, solution, coins,
                 voting, ledger, interrupted>>

(* The threads find the solution and are joined; who has not been told of   *)
(* another solution in the meantime takes itself for the winner.            *)
Mine(m) ==
  /\ Goto(m, "mine", IF sigusr2[m] THEN "lose_wait" ELSE "win_wait")
  /\ solution' = [solution EXCEPT ![m] = Solve(target[m])]
  /\ UNCHANGED <<shm, mutex, load, sig, target, coins, voting, ledger, interrupted>>

NextPoll_Stuck(m) == voting[m]  \* faulty variant: _voting++ is missing

NextPoll(m) == voting[m] + 1

KeepsPolling(m) ==
  current_block.total # current_block.num_voters /\ voting[m] # MAX_POLLS

(* The winner naps until everybody has voted, MAX_POLLS times at most.      *)
Poll(m) ==
  /\ \/ KeepsPolling(m) /\ Goto(m, "poll", "nap") /\ UNCHANGED voting
     \/ /\ ~KeepsPolling(m) /\ Goto(m, "poll", "tally")
        /\ voting' = [voting EXCEPT ![m] = 0]
     \/ Goto(m, "nap", "poll") /\ voting' = [voting EXCEPT ![m] = NextPoll(m)]
  /\ UNCHANGED <<shm, mutex, load, sig, target, solution, coins, ledger, interrupted>>

Unanimous(block) == block.total = block.fav

(* if(total_votes == favorable_votes) { winner = pid; coins++; }            *)
Award(m) ==
  /\ \/ /\ Goto(m, "tally", IF Unanimous(current_block) THEN "award" ELSE "write")
        /\ UNCHANGED <<current_block, coins>>
     \/ /\ Goto(m, "award", "write")
        /\ current_block' = [current_block EXCEPT !.winner = m]
        /\ coins' = [coins EXCEPT ![m] = @ + 1]
  /\ UNCHANGED <<miners, num_miners, last_block, mutex, load, sig, target, solution,
                 voting, ledger, interrupted>>

(* write() of the current block, whatever it is now, to the register child. *)
Entry(block) ==
  [ id |-> block.id, target |-> block.target, solution |-> block.solution,
    winner |-> block.winner ]

Record(m) ==
  /\ Goto(m, "write", "next_wait")
  /\ ledger' = [ledger EXCEPT ![m] = Append(@, Entry(current_block))]
  /\ UNCHANGED <<shm, mutex, load, sig, target, solution, coins, voting, interrupted>>

(* malloc, pthread_create or write fails, or SIGPIPE because the register   *)
(* child is gone: the process leaves and stays in the table.                *)
FailedExit(m) ==
  /\ Cardinality({n \in Miners : pc[n] = "dead"}) < MaxFailures
  /\ pc[m] \in {"alloc", "mine", "write"} /\ pc' = [pc EXCEPT ![m] = "dead"]
  /\ UNCHANGED <<shm, mutex, load, local, sig, interrupted>>

-----------------------------------------------------------------------------
(* Signals.                                                                 *)

(* sigsuspend(&a): only SIGUSR1, SIGINT and SIGALRM get through.            *)
WakeSignals == {"USR1", "TERM"}

Suspend(m) ==
  /\ \/ Goto(m, "to_suspend_first", "suspended_first")
     \/ Goto(m, "to_suspend", "suspended")
  /\ UNCHANGED <<shm, mutex, load, local, sig, interrupted>>

(* The handler runs, the old mask comes back, and every other signal that   *)
(* was pending is handled before sigsuspend returns.                        *)
Wake(m) ==
  /\ pending[m] \cap WakeSignals # {}
  /\ \/ Goto(m, "suspended_first", "alloc")
     \/ Goto(m, "suspended", "top")
  /\ sigusr2' = [sigusr2 EXCEPT ![m] = @ \/ "USR2" \in pending[m]]
  /\ shutdown' = [shutdown EXCEPT ![m] = @ \/ "TERM" \in pending[m]]
  /\ pending' = [pending EXCEPT ![m] = {}]
  /\ UNCHANGED <<shm, mutex, load, local, alarms, interrupted>>

SetsShutdown_Never(s) == FALSE  \* faulty variant of the handler

SetsShutdown(s) == s = "TERM"

(* signal_handler. Nothing else happens unless the miner is blocked.        *)
Handle(m, s) ==
  /\ s \in pending[m] /\ Alive(m) /\ pc[m] \notin Suspended
  /\ sigusr2' = [sigusr2 EXCEPT ![m] = @ \/ s = "USR2"]
  /\ shutdown' = [shutdown EXCEPT ![m] = @ \/ SetsShutdown(s)]
  /\ pending' = [pending EXCEPT ![m] = @ \ {s}]
  /\ UNCHANGED <<shm, mutex, load, local, alarms>>

(* The process was running, or had not blocked yet.                         *)
Deliver(m, s) == Handle(m, s) /\ UNCHANGED <<pc, interrupted>>

(* sem_wait was blocked: it returns -1 (EINTR), the miner enters all the    *)
(* same.                                                                    *)
InterruptSemWait(m, s) ==
  /\ mutex = 0 /\ interrupted < MaxInterrupts
  /\ \E e \in Entries : Goto(m, e[1], e[2])
  /\ Handle(m, s) /\ interrupted' = interrupted + 1

(* nanosleep returns -1 (EINTR): the winner unlinks the segment and exits.  *)
InterruptNap(m, s) ==
  Goto(m, "nap", "dead") /\ Handle(m, s) /\ UNCHANGED interrupted

(* The alarm of n_sec seconds, or a SIGINT.                                 *)
Terminate(m) ==
  /\ Alive(m) /\ alarms[m] < MaxAlarms[m]
  /\ alarms' = [alarms EXCEPT ![m] = @ + 1]
  /\ pending' = [pending EXCEPT ![m] = @ \cup {"TERM"}]
  /\ UNCHANGED <<shm, mutex, pc, load, local, sigusr2, shutdown, interrupted>>

-----------------------------------------------------------------------------
(* Everything the program of m does by itself; naming the environment apart *)
(* keeps the fairness where the scheduler provides it.                      *)
Step(m) ==
  \/ SemWait(m) \/ SemPost(m) \/ Statement(m) \/ Signalling(m) \/ CheckRoom(m)
  \/ Allocate(m) \/ Top(m) \/ Mine(m) \/ Poll(m) \/ Award(m) \/ Record(m)
  \/ Suspend(m) \/ Wake(m)

Signal(m) ==
  \E s \in Signals : Deliver(m, s) \/ InterruptSemWait(m, s) \/ InterruptNap(m, s)

Next == \E m \in Miners : Step(m) \/ Signal(m) \/ Terminate(m) \/ FailedExit(m)

Spec == Init /\ [][Next]_vars

(* The kernel schedules every process and delivers every signal; alarm() is *)
(* always armed. Nothing obliges a process to fail or anybody to launch one. *)
Fairness ==
  \A m \in Miners :
    WF_vars(pc[m] # "start" /\ Step(m)) /\ WF_vars(Signal(m)) /\ WF_vars(Terminate(m))

FairSpec == Spec /\ Fairness

-----------------------------------------------------------------------------
(* Properties.                                                              *)

Slotted == Miners \cup {None}  \* what a slot of miners holds

Blocks == [ id : Nat, target : Nat, solution : Nat, winner : Slotted,
            miners : [Slots -> Slotted],
            num_voters : 0 .. 255, total : 0 .. 255, fav : 0 .. 255 ]

Records == [ id : Nat, target : Nat, solution : Nat, winner : Slotted ]

(* The shared structures and the locals of every miner keep their types; in *)
(* particular the uint8_t counters, the loop indices and the naps are in    *)
(* range.                                                                   *)
TypeOK ==
  /\ miners \in [Slots -> Slotted] /\ num_miners \in 0 .. 255
  /\ current_block \in Blocks /\ last_block \in Blocks
  /\ mutex \in Nat /\ interrupted \in Nat
  /\ pc \in [Miners -> Labels]
  /\ load \in [Miners -> 0 .. 255]
  /\ sigusr2 \in [Miners -> BOOLEAN] /\ shutdown \in [Miners -> BOOLEAN]
  /\ pending \in [Miners -> SUBSET Signals]
  /\ target \in [Miners -> Nat] /\ solution \in [Miners -> Nat]
  /\ coins \in [Miners -> Nat] /\ voting \in [Miners -> 0 .. MAX_POLLS]
  /\ ledger \in [Miners -> Seq(Records)]
  /\ alarms \in [Miners -> Nat]

Inside == { m \in Miners : pc[m] \in Protected \cup {"last_exit"} }

(* The semaphore's value, the miners in a section and the sem_waits that    *)
(* returned without the mutex always add up: no path posts twice or forgets *)
(* to post, whatever mixture of signals, error exits and rounds led to it.  *)
SemAccounting == mutex + Cardinality(Inside) = 1 + interrupted

(* As long as no sem_wait was interrupted, the sections are exclusive.      *)
ExclusionUnlessInterrupted ==
  interrupted = 0 => \A m, n \in Inside : m = n

(* Nobody is inside a section and nobody ever entered one without the mutex. *)
Quiet == interrupted = 0 /\ Inside = {}

(* Miners that logged themselves and have not deleted themselves.           *)
Registered ==
  { m \in Miners : pc[m] \notin {"start", "reg_wait", "exited"} }

(* Between sections the table lists exactly the registered miners, each     *)
(* once, in its first num_miners slots: the shift of delete_miner and the   *)
(* append of the registration never lose or duplicate a miner.              *)
RegistryExact ==
  Quiet => /\ num_miners = Cardinality(Registered)
           /\ Registered = { miners[i] : i \in 0 .. num_miners - 1 }

(* Between sections the current block is the first one or the successor of  *)
(* the last block: next id, and its target is the last block's solution.    *)
ChainLinked ==
  Quiet => \/ current_block.id = 0
           \/ /\ current_block.id = last_block.id + 1
              /\ current_block.target = last_block.solution

(* Between sections no block has more favourable votes than votes.          *)
VotesConsistent == Quiet => current_block.fav <= current_block.total

(* Nobody joins or mines a block before the creator has set the first one,  *)
(* however early the others registered.                                     *)
FirstBlockFirst ==
  pc[First] \in {"reg_wait", "reg_slot", "reg_load", "reg_store", "reg_post",
                 "registered", "first_wait", "first_set"}
     => \A m \in Miners : pc[m] \notin {"join_slot", "mine"}

(* Without an interrupted sem_wait, block ids never go back or jump.        *)
IdsAdvance ==
  [][ interrupted' = 0 =>
        current_block'.id \in {current_block.id, current_block.id + 1} ]_vars

(* The winner does not wait for votes forever: MAX_POLLS naps are enough,   *)
(* even when voters died or left.                                           *)
WinnerLeavesPoll ==
  \A m \in Miners : pc[m] = "poll" ~> pc[m] \in {"tally", "dead"}

-----------------------------------------------------------------------------
(* A miner that runs alone is never told of another winner and never        *)
(* suspended, so everything the coordination promises holds for it.         *)

Alone == \A m \in Miners \ {First} : pc[m] = "start"

(* Alone, it records every block exactly once, in order, each one solved    *)
(* and won, and it owns one coin per recorded block, give or take the one   *)
(* between the award and the write.                                         *)
SoloLedger ==
  Alone =>
    /\ \A i \in DOMAIN ledger[First] :
         LET b == ledger[First][i]
         IN  b.id = i - 1 /\ b.solution = Solve(b.target) /\ b.winner = First
    /\ pc[First] # "dead" =>
         coins[First] = Len(ledger[First]) + (IF pc[First] = "write" THEN 1 ELSE 0)

(* Alone, its alarm ends it, and unless it fails it is the last miner.      *)
SoloEnds == []Alone => <>(pc[First] \in {"last_exit", "dead"})

-----------------------------------------------------------------------------
(* What the comments say and the program does not do (see the README).      *)

(* "Protected": at most one miner is between sem_wait and sem_post.         *)
SectionsExclusive == \A m, n \in Inside : m = n

(* "unique block id": no id is recorded for two blocks.                     *)
UniqueBlockId ==
  \A m, n \in Miners : \A i \in DOMAIN ledger[m], j \in DOMAIN ledger[n] :
    ledger[m][i].id = ledger[n][j].id => m = n /\ i = j

(* "total votes for this block": between sections no more votes are counted *)
(* than there are voters who joined this block.                             *)
VotesOfThisBlock == Quiet => current_block.total <= current_block.num_voters

(* "set alarm for the end of the process": a pending alarm ends the miner.  *)
AlarmEndsProcess ==
  \A m \in Miners : "TERM" \in pending[m] ~> pc[m] \in Ended

(* "system doesn't accept more miners": nobody registers behind the table.  *)
TableWithinBounds == \A m \in Miners : pc[m] = "reg_slot" => num_miners < MAX_MINERS
=============================================================================
