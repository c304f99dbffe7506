----------------------------- MODULE MCExchange -----------------------------
(***************************************************************************)
(* A small instance of Exchange.                                           *)
(***************************************************************************)
EXTENDS Exchange

=============================================================================
