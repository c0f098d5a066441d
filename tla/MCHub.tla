------------------------------- MODULE MCHub -------------------------------
(***************************************************************************)
(* Values for model checking Hub. The connections are interchangeable for   *)
(* the safety properties; the liveness run uses no symmetry.                *)
(***************************************************************************)
EXTENDS Hub, TLC

Symmetry == Permutations(Clients)

=============================================================================
