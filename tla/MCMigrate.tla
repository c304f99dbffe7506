----------------------------- MODULE MCMigrate -----------------------------
(***************************************************************************)
(* Small instances of Migrate.                                             *)
(***************************************************************************)
EXTENDS Migrate, TLC

CONSTANTS q1, q2, q3

=============================================================================
