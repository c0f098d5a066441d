------------------------------ MODULE MCLedger ------------------------------
(***************************************************************************)
(* Values for model checking Ledger: a view of one row and a ring of three   *)
(* that five results overflow, in batches of up to two.                      *)
(***************************************************************************)
EXTENDS Ledger, TLC

=============================================================================
