--------------------------- MODULE MinerRoundsMC ---------------------------
(***************************************************************************)
(* Model values for the runs of MinerRounds.                                *)
(***************************************************************************)
EXTENDS MinerRounds, TLC

CONSTANTS m1, m2, m3

TwoMiners == {m1, m2}
ThreeMiners == {m1, m2, m3}

\* How many alarms and SIGINTs each miner gets.
NoAlarm == [m \in Miners |-> 0]
FirstsAlarm == [m \in Miners |-> IF m = First THEN 1 ELSE 0]
OneAlarm == [m \in Miners |-> 1]

\* The joiners are interchangeable; the creator of the segment is not.
Joiners == Permutations(ThreeMiners \ {First})
=============================================================================
