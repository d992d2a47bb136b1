--------------------------- MODULE MonitorRingMC ---------------------------
(***************************************************************************)
(* Model values for the runs of MonitorRing.                                *)
(***************************************************************************)
EXTENDS MonitorRing

CONSTANTS w1, w2

OneWinner == {w1}
TwoWinners == {w1, w2}

\* Every third block is turned down by one of three voters, the others win
\* unanimously with one, two or three votes.
Votes == [b \in 0 .. MaxBlocks |-> IF b = 0 THEN 0 ELSE 1 + (b % 3)]
Favourable == [b \in 0 .. MaxBlocks |-> IF b % 3 = 2 THEN 2 ELSE Votes[b]]
=============================================================================
