------------------------------ MODULE SseClient ------------------------------
(***************************************************************************)
(* One upstream ingestion worker, internal/stream/client.go: Run connects,  *)
(* reads frames until the connection ends, waits out a backoff and connects *)
(* again, until its context is cancelled or the matcher turns out closed.   *)
(*                                                                          *)
(* streamOnce is the "connect" and "reading" states. The upstream and the   *)
(* network owe the client nothing: a connect or a read may hang for ever,   *)
(* and only the context of the request, which net/http watches (external),  *)
(* ends it then. There is no TLS handshake timeout in newTransport.         *)
(***************************************************************************)
EXTENDS StreamParser, Backoff

CONSTANTS
    BackoffInitial, BackoffMax,     \* seconds
    MaxFruitless                    \* bound: the attempts the history counts

ASSUME ClientAssumption ==
    /\ BackoffInitial \in Nat \ {0} /\ BackoffMax \in Nat
    /\ BackoffInitial <= BackoffMax
    /\ MaxFruitless \in Nat /\ BackoffInitial * Doublings[MaxFruitless] >= BackoffMax

VARIABLES
    ctxDone,        \* the worker's context is cancelled
    backoff,
    fruitless       \* history: attempts since the last that ingested a frame

vars == <<parserVars, ctxDone, backoff, fruitless>>

NoFrames ==
    /\ lines = <<>> /\ eventType = Empty /\ dataLines = <<>>
    /\ dispatched = <<>> /\ receivedAny = FALSE

Init ==
    /\ pc = "check" /\ outcome = "failed" /\ NoFrames
    /\ backoff = BackoffInitial
    /\ ctxDone = FALSE /\ matcherClosed = FALSE /\ fruitless = 0

FreshFrames ==
    /\ lines' = <<>> /\ eventType' = Empty /\ dataLines' = <<>>
    /\ dispatched' = <<>> /\ receivedAny' = FALSE

Productive == \E k \in DOMAIN dispatched : dispatched[k].verdict = "ingested"

grow(d) == AtMost(BackoffMax, d * 2)

-----------------------------------------------------------------------------
(* Run *)

CheckContext ==
    /\ pc = "check"
    /\ pc' = IF ctxDone THEN "returned" ELSE "connect"
    /\ UNCHANGED <<matcherClosed, frameVars, outcome, ctxDone, backoff, fruitless>>

(* Any error would end the worker. *)
JudgeReturnsOnAny ==
    /\ pc = "judge"
    /\ pc' = "returned"
    /\ UNCHANGED <<matcherClosed, frameVars, outcome, ctxDone, backoff, fruitless>>

(* errors.Is(err, context.DeadlineExceeded) also holds of the errors net and *)
(* net/http return for their own dial and response-header timeouts.          *)
JudgeReturns ==
    /\ pc = "judge" /\ outcome \in {"canceled", "deadline", "closed"}
    /\ pc' = "returned"
    /\ UNCHANGED <<matcherClosed, frameVars, outcome, ctxDone, backoff, fruitless>>

JudgeRetries ==
    /\ pc = "judge" /\ outcome = "failed"
    /\ pc' = "wait"
    /\ backoff' = IF receivedAny THEN BackoffInitial ELSE backoff
    /\ UNCHANGED <<matcherClosed, frameVars, outcome, ctxDone, fruitless>>

WaitCancelled ==
    /\ pc = "wait" /\ ctxDone
    /\ pc' = "returned"
    /\ UNCHANGED <<matcherClosed, frameVars, outcome, ctxDone, backoff, fruitless>>

(* With the context done too, select may still take the timer. *)
WaitOver ==
    /\ pc = "wait"
    /\ pc' = "check"
    /\ backoff' = IF receivedAny THEN backoff ELSE grow(backoff)
    /\ fruitless' = IF Productive THEN 0 ELSE AtMost(MaxFruitless, fruitless + 1)
    /\ UNCHANGED <<matcherClosed, frameVars, outcome, ctxDone>>

-----------------------------------------------------------------------------
(* streamOnce *)

Connect ==
    /\ pc = "connect" /\ pc' = "reading"
    /\ FreshFrames
    /\ UNCHANGED <<matcherClosed, outcome, ctxDone, backoff, fruitless>>

(* Refused, reset, a status of 400 or more; or a timeout; or the context. *)
ConnectEnds(o) ==
    /\ pc = "connect" /\ EndWith(o)
    /\ FreshFrames
    /\ UNCHANGED <<matcherClosed, ctxDone, backoff, fruitless>>

Read == ReadLine /\ UNCHANGED <<ctxDone, backoff, fruitless>>

ReadEnds(o) == (TornEnd(o) \/ CleanEnd(o)) /\ UNCHANGED <<ctxDone, backoff, fruitless>>

(* The request would not carry it. *)
AbortNothing == FALSE

(* The request carries the worker's context. *)
AbortRequest == ctxDone /\ (ConnectEnds("canceled") \/ ReadEnds("canceled"))

-----------------------------------------------------------------------------
(* Around the worker *)

Cancel ==
    /\ ~ctxDone /\ ctxDone' = TRUE
    /\ UNCHANGED <<parserVars, backoff, fruitless>>

CloseMatcher ==
    /\ ~matcherClosed /\ matcherClosed' = TRUE
    /\ UNCHANGED <<pc, frameVars, outcome, ctxDone, backoff, fruitless>>

Run == CheckContext \/ JudgeReturns \/ JudgeRetries \/ WaitCancelled \/ WaitOver

Upstream ==
    \/ Connect \/ ConnectEnds("failed") \/ ConnectEnds("deadline")
    \/ Read \/ ReadEnds("failed")

Next == Run \/ Upstream \/ AbortRequest \/ Cancel \/ CloseMatcher

Spec == Init /\ [][Next]_vars

(* The goroutine keeps running and net/http honours the context. *)
FairSpec == Spec /\ WF_vars(Run) /\ WF_vars(AbortRequest)

-----------------------------------------------------------------------------
(* Properties *)

(* The delay after n attempts that ingested nothing. *)
BackoffAfter(n) == DelayAfter(BackoffInitial, BackoffMax, n)

(* The wait before an attempt is the initial one doubled for every attempt   *)
(* since the last that ingested a frame, up to the maximum: a connection     *)
(* that opens, or sends only frames the matcher refuses, earns no faster     *)
(* retry, and one frame ingested before a cut earns the fastest.             *)
BackoffFollowsFailures ==
    /\ pc \in {"check", "connect", "reading", "judge"} => backoff = BackoffAfter(fruitless)
    /\ pc = "wait" => backoff = IF Productive THEN BackoffInitial ELSE BackoffAfter(fruitless)

(* A cancelled worker returns, whatever the upstream does or leaves undone. *)
CancelledReturns == ctxDone ~> (pc = "returned")

(* Unless it is cancelled, a worker whose connection ended for a reason of   *)
(* the upstream's connects again.                                            *)
RetriesUntilStopped ==
    (pc = "judge" /\ outcome = "failed") ~> (pc = "connect" \/ ctxDone)

(* Run's comment: "Blocks until ctx is cancelled or the matcher is closed;   *)
(* on any other error it logs WARN and retries".                             *)
StopsOnlyWhenTold == pc = "returned" => ctxDone \/ matcherClosed

=============================================================================
