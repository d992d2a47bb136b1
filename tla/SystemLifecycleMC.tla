------------------------- MODULE SystemLifecycleMC -------------------------
(***************************************************************************)
(* Model values for the runs of SystemLifecycle.                            *)
(***************************************************************************)
EXTENDS SystemLifecycle, TLC

CONSTANTS p1, p2, p3, c1

TwoProcs == {p1, p2}
ThreeProcs == {p1, p2, p3}
OneMonitor == {c1}

\* Miners run the same program with the same arguments.
Interchangeable == Permutations(Procs)
=============================================================================
