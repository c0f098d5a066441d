------------------------------ MODULE MCLayout ------------------------------
(***************************************************************************)
(* Values for model checking Layout: a ledger two to four pixels wide, and   *)
(* a storage that was never written, was written by this page, or holds      *)
(* half a blob, no number, or a number out of range.                         *)
(***************************************************************************)
EXTENDS Layout, TLC

MCStoredPrefs == {Absent, Garbage, [compact |-> TRUE], [showEventType |-> FALSE, compact |-> FALSE]}
MCStoredWidths == {Absent, Garbage, MIN_LEDGER_WIDTH - 1, MAX_LEDGER_WIDTH + 1}

=============================================================================
