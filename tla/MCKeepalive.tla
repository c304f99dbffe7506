----------------------------- MODULE MCKeepalive -----------------------------
(***************************************************************************)
(* A small instance of Keepalive.  A unit of time is half a minute.        *)
(***************************************************************************)
EXTENDS Keepalive

CONSTANT p1

=============================================================================
