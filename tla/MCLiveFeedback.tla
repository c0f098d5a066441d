--------------------------- MODULE MCLiveFeedback ---------------------------
(***************************************************************************)
(* Values for model checking LiveFeedback and the EventStream below it: a    *)
(* ring of three; anomalies first, so that they are announced while it still *)
(* grows, then matches that push the only orphan out.                        *)
(***************************************************************************)
EXTENDS LiveFeedback, TLC

MCKindOf == <<"MISMATCH", "ORPHAN", "MISMATCH", "MATCH", "MATCH">>

=============================================================================
