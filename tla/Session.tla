------------------------------ MODULE Session ------------------------------
(***************************************************************************)
(* The session controller, backend/internal/api/session.go, with the stream *)
(* workers it spawns and the matcher they feed.                             *)
(*                                                                          *)
(* Handlers of POST /api/session/start and stop run concurrently; the         *)
(* controller's mutex is held by one of them over the whole of Start or     *)
(* Stop, the wait for the workers of the last session and the DNS lookups   *)
(* included. A session is a number in the order they were started. A worker *)
(* is abstracted to what the controller can tell of it: it ingests while it  *)
(* runs, goes on with what it has read for a while after being cancelled,    *)
(* and may exit at any time. The matcher is seen through one correlation     *)
(* key: the session whose event waits on either side.                        *)
(***************************************************************************)
EXTENDS Naturals, FiniteSets, Sequences

CONSTANTS
    Requests,       \* handler goroutines
    NoRequest,      \* the mutex is free
    MaxSessions,    \* bound: sessions started in a behaviour
    MaxEvents       \* bound: events ingested in a behaviour

ASSUME SessionAssumption ==
    /\ IsFiniteSet(Requests) /\ NoRequest \notin Requests
    /\ MaxSessions \in Nat /\ MaxEvents \in Nat

Streams == {"A", "B"}

opposite(s) == IF s = "A" THEN "B" ELSE "A"

Sessions == 1..MaxSessions
None == 0       \* no session

VARIABLES
    mu,         \* the handler that holds the controller's mutex
    kind,       \* what each handler was asked for: "start" or "stop"
    pc,         \* where it is: "idle", "queued", "waiting", "reset",
                \* "build", "spawn", "done", "failed"
    active,     \* the active session
    latest,     \* history: the number of the session started last
    cancelled,  \* sessions whose context has been cancelled
    timedOut,   \* history: sessions given up on after sessionShutdownTimeout
    worker,     \* each session's two workers: "none", "running", "exited"
    buffer,     \* the session whose event waits in the matcher, per side
    results,    \* pairs in the results channel: [A |-> session, B |-> session]
    paired,     \* history: every pair ever resolved
    ingested    \* history: number of events ingested

control == <<mu, kind, pc, active, latest, cancelled, timedOut>>
matcher == <<buffer, results, paired, ingested>>
vars == <<control, worker, matcher>>

-----------------------------------------------------------------------------

Init ==
    /\ mu = NoRequest
    /\ kind = [r \in Requests |-> "start"] /\ pc = [r \in Requests |-> "idle"]
    /\ active = None /\ latest = 0
    /\ cancelled = {} /\ timedOut = {}
    /\ worker = [g \in Sessions |-> [s \in Streams |-> "none"]]
    /\ buffer = [s \in Streams |-> None]
    /\ results = <<>> /\ paired = {} /\ ingested = 0

Goto(r, l) == pc' = [pc EXCEPT ![r] = l]

DrainedByOne(g) == \E s \in Streams : worker[g][s] # "running"

(* The session's WaitGroup is at zero. *)
Drained(g) == \A s \in Streams : worker[g][s] # "running"

CancelNothing(g) == UNCHANGED cancelled

(* prev.cancel() *)
Cancel(g) == cancelled' = cancelled \cup {g}

(* A request arrives, and a start request passes validation. *)
Arrive(r) ==
    /\ pc[r] = "idle"
    /\ \E k \in {"start", "stop"} : kind' = [kind EXCEPT ![r] = k]
    /\ Goto(r, "queued")
    /\ UNCHANGED <<mu, active, latest, cancelled, timedOut, worker, matcher>>

(* Start or Stop takes the mutex and cancels the active session, if any. *)
Acquire(r) ==
    /\ pc[r] = "queued" /\ mu = NoRequest
    /\ IF active # None
       THEN /\ mu' = r /\ Goto(r, "waiting") /\ Cancel(active)
       ELSE /\ UNCHANGED cancelled
            /\ IF kind[r] = "start"
               THEN mu' = r /\ Goto(r, "reset")
               ELSE UNCHANGED mu /\ Goto(r, "done")
    /\ UNCHANGED <<kind, active, latest, timedOut, worker, matcher>>

(* cancelAndWaitLocked returns, and the method goes on: Start to the reset, *)
(* Stop to its end.                                                         *)
Proceed(r) ==
    /\ active' = None
    /\ IF kind[r] = "start"
       THEN UNCHANGED mu /\ Goto(r, "reset")
       ELSE mu' = NoRequest /\ Goto(r, "done")

WaitDrained(r) ==
    /\ pc[r] = "waiting" /\ Drained(active)
    /\ Proceed(r)
    /\ UNCHANGED <<kind, latest, cancelled, timedOut, worker, matcher>>

WaitTimesOutNever(r) == FALSE

(* The safety timeout: the workers are left behind. *)
WaitTimesOut(r) ==
    /\ pc[r] = "waiting" /\ ~Drained(active)
    /\ Proceed(r)
    /\ timedOut' = timedOut \cup {active}
    /\ UNCHANGED <<kind, latest, cancelled, worker, matcher>>

ResetNothing(r) ==
    /\ pc[r] = "reset" /\ Goto(r, "build")
    /\ UNCHANGED <<mu, kind, active, latest, cancelled, timedOut, worker, matcher>>

(* matcher.Reset clears the buffer, and nothing of the results channel. *)
Reset(r) ==
    /\ pc[r] = "reset"
    /\ buffer' = [s \in Streams |-> None]
    /\ Goto(r, "build")
    /\ UNCHANGED <<mu, kind, active, latest, cancelled, timedOut, worker,
                   results, paired, ingested>>

(* buildClient, twice: validation, name resolution and the SSRF check can   *)
(* fail, and then nothing is started though the last session is gone.       *)
Build(r) ==
    /\ pc[r] = "build"
    /\ \/ latest < MaxSessions /\ Goto(r, "spawn") /\ UNCHANGED mu
       \/ Goto(r, "failed") /\ mu' = NoRequest
    /\ UNCHANGED <<kind, active, latest, cancelled, timedOut, worker, matcher>>

(* Both workers start, and the session becomes the active one. *)
Spawn(r) ==
    /\ pc[r] = "spawn"
    /\ latest' = latest + 1 /\ active' = latest + 1
    /\ worker' = [worker EXCEPT ![latest + 1] = [s \in Streams |-> "running"]]
    /\ mu' = NoRequest /\ Goto(r, "done")
    /\ UNCHANGED <<kind, cancelled, timedOut, matcher>>

Handler(r) ==
    \/ Acquire(r) \/ WaitDrained(r) \/ WaitTimesOut(r) \/ Reset(r) \/ Build(r)
    \/ Spawn(r)

-----------------------------------------------------------------------------
(* Workers. Cancelling a context does not stop a worker at once: the frames *)
(* its parser has already read are ingested before the read fails.          *)

Ingest(g, s) ==
    /\ worker[g][s] = "running" /\ ingested < MaxEvents
    /\ ingested' = ingested + 1
    /\ IF buffer[opposite(s)] # None
       THEN LET pair == [t \in Streams |-> IF t = s THEN g ELSE buffer[opposite(s)]]
            IN  /\ buffer' = [buffer EXCEPT ![opposite(s)] = None]
                /\ results' = Append(results, pair)
                /\ paired' = paired \cup {pair}
       ELSE buffer' = [buffer EXCEPT ![s] = g] /\ UNCHANGED <<results, paired>>
    /\ UNCHANGED <<control, worker>>

Exit(g, s) ==
    /\ worker[g][s] = "running"
    /\ worker' = [worker EXCEPT ![g][s] = "exited"]
    /\ UNCHANGED <<control, matcher>>

(* The hub takes the next result. *)
Receive ==
    /\ results # <<>> /\ results' = Tail(results)
    /\ UNCHANGED <<control, worker, buffer, paired, ingested>>

Environment ==
    \/ \E r \in Requests : Arrive(r)
    \/ \E g \in Sessions, s \in Streams : Ingest(g, s) \/ Exit(g, s)
    \/ Receive

Next == Environment \/ \E r \in Requests : Handler(r)

Spec == Init /\ [][Next]_vars

-----------------------------------------------------------------------------
(* Properties *)

(* An event is compared only with an event of its own session, unless the    *)
(* older session's workers outlived the safety timeout.                      *)
PairsWithinSession ==
    \A p \in paired : p["A"] # p["B"] =>
        \E g \in timedOut : g \in {p["A"], p["B"]} /\ g < latest

(* A worker nobody asked to stop belongs to the active session: neither a    *)
(* replacement nor a stop, nor a start that fails half-way, leaves one.      *)
NoStrayWorker ==
    \A g \in Sessions, s \in Streams :
        worker[g][s] = "running" /\ g \notin cancelled => active = g

(* A session that is no longer active has no worker left, unless it was      *)
(* given up on.                                                              *)
ReplacedWorkersGone ==
    \A g \in 1..latest : g # active /\ g \notin timedOut =>
        \A s \in Streams : worker[g][s] # "running"

(* Reset leaves the results channel alone, so results of an ended session may *)
(* still be on their way when the next one starts; but, no wait cut short,    *)
(* none follows a result of a later session.                                  *)
ResultsInSessionOrder ==
    timedOut = {} =>
        \A i, j \in 1..Len(results) : i < j =>
            \A s, t \in Streams : results[i][s] <= results[j][t]

=============================================================================
