---------------------------- MODULE BlockChannel ----------------------------
(***************************************************************************)
(* What the path from the miners to the screen promises: a bounded first-in *)
(* first-out channel that loses, invents and repeats nothing. Miners put a  *)
(* block in (mq_send), the monitor takes it out (the printing of a block);  *)
(* everything between them is inside the channel.                           *)
(***************************************************************************)
EXTENDS Naturals, Sequences

CONSTANTS
  Block,     \* what can be sent
  Capacity   \* how many blocks may be under way

VARIABLES
  sent,      \* every block put in so far, in order
  printed    \* every block taken out so far, in order

UnderWay == Len(sent) - Len(printed)

Init == sent = <<>> /\ printed = <<>>

Send ==
  /\ UnderWay < Capacity
  /\ \E b \in Block : sent' = Append(sent, b)
  /\ UNCHANGED printed

Show ==
  /\ UnderWay > 0
  /\ printed' = Append(printed, sent[Len(printed) + 1])
  /\ UNCHANGED sent

Next == Send \/ Show

Spec == Init /\ [][Next]_<<sent, printed>>

\* What is in the channel does come out.
Live == WF_<<sent, printed>>(Show)

FairSpec == Spec /\ Live
=============================================================================
