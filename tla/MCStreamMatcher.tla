-------------------------- MODULE MCStreamMatcher --------------------------
(***************************************************************************)
(* Values for model checking StreamMatcher: two correlation ids, frames     *)
(* that agree and disagree on them, and a second correlation path under     *)
(* which one of the frames has no id.                                       *)
(***************************************************************************)
EXTENDS StreamMatcher, TLC

CONSTANTS i1, i2, f1, f2, f2Spaced, pathA, pathB

(* Under pathA every frame has the id i1; under pathB f1 has none. *)
MCIdAt == [p \in Paths |-> [f \in Frames |->
    IF p = pathA THEN i1 ELSE IF f = f1 THEN NoId ELSE i2]]

MCTrimmed == [f \in Frames |-> IF f = f2Spaced THEN f2 ELSE f]

=============================================================================
