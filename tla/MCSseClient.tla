----------------------------- MODULE MCSseClient -----------------------------
(***************************************************************************)
(* Values for model checking SseClient: a data line is empty or not, which   *)
(* tells their order apart; the backoff constants are the code's (one and   *)
(* thirty seconds), and six failures pass the cap.                          *)
(***************************************************************************)
EXTENDS SseClient, TLC

=============================================================================
