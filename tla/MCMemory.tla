------------------------------ MODULE MCMemory ------------------------------
(***************************************************************************)
(* Small instances of Memory.                                              *)
(***************************************************************************)
EXTENDS Memory, TLC

CONSTANTS t1, t2, t3, t4, p1, p2, d1, d2, d3, h1

MCProjectOf == [t \in Tasks |-> IF t \in {t3, t4} THEN p2 ELSE p1]

\* Two rows of different projects with one short id.
MCShortID == [t \in Tasks |-> IF t = t2 THEN d2 ELSE IF t = t3 THEN d3 ELSE d1]

MCRequestProject == [h \in Requests |-> p1]

=============================================================================
