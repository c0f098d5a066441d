------------------------------- MODULE Backoff -------------------------------
(***************************************************************************)
(* The reference definition of an exponential backoff, which the reconnect  *)
(* delays of the backend's SSE client and of the page's WebSocket are both  *)
(* checked against: the initial delay doubled n times, up to a maximum.     *)
(***************************************************************************)
EXTENDS Integers

AtMost(bound, n) == IF n > bound THEN bound ELSE n

(* The n-th power of two, as a function: the prover can be told what it is.  *)
Doublings[n \in Nat] == IF n = 0 THEN 1 ELSE 2 * Doublings[n - 1]

DelayAfter(initial, max, n) == AtMost(max, initial * Doublings[n])

=============================================================================
