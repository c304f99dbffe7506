---------------------------- MODULE MCCompaction ----------------------------
(***************************************************************************)
(* Small instances of Compaction.                                          *)
(***************************************************************************)
EXTENDS Compaction, TLC

CONSTANTS c1, c2, p1, p2, r1, r2

\* Both conversations name one project, or each names its own.
MCAssignments ==
  {[c \in {c1, c2} |-> p1], [c \in {c1, c2} |-> IF c = c1 THEN p1 ELSE p2]}

\* One client alone.
MCOneClient == {[c \in {c1} |-> p1]}

\* The second message of every conversation is a tool result.
MCToolTurns == {c1, c2} \X {2}

MCNoToolTurns == {}

\* Below warn, between warn and clear, at clear.
MCReports == {1, 2, 3}

=============================================================================
