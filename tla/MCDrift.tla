------------------------------ MODULE MCDrift ------------------------------
(***************************************************************************)
(* Small instances of Drift.                                               *)
(***************************************************************************)
EXTENDS Drift, TLC

CONSTANTS r1, r2, r3, r4, p1, p2

MCProjectOf == [r \in Requests |-> IF r = r2 THEN p2 ELSE p1]

\* Drift that lands in drift_log, drift that lands in steps, and recovery.
MCScores == {2, 7, 9}

=============================================================================
