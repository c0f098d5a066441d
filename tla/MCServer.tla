------------------------------ MODULE MCServer ------------------------------
(***************************************************************************)
(* Values for model checking Server: the handlers are interchangeable but   *)
(* for main's own call.                                                     *)
(***************************************************************************)
EXTENDS Server, TLC

Symmetry == Permutations(Requests \ {Main})

=============================================================================
