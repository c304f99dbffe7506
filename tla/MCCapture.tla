----------------------------- MODULE MCCapture -----------------------------
(***************************************************************************)
(* Small instances of Capture.                                             *)
(***************************************************************************)
EXTENDS Capture, TLC

CONSTANTS r1, r2, r3

\* The third request is too small to be captured.
MCLarge == {r1, r2}

=============================================================================
