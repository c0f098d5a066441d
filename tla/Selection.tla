------------------------------ MODULE Selection ------------------------------
(***************************************************************************)
(* The members of a sequence that are in a set, in their order: SelectSeq    *)
(* with a set for its test, and as a recursive function, of which the prover *)
(* can be told what it computes.                                            *)
(***************************************************************************)
EXTENDS Integers, Sequences

Chosen(s, S) ==
    LET upTo[i \in 0..Len(s)] ==
            IF i = 0 THEN <<>>
            ELSE IF s[i] \in S THEN Append(upTo[i - 1], s[i]) ELSE upTo[i - 1]
    IN  upTo[Len(s)]

=============================================================================
