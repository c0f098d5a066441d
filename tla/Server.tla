------------------------------- MODULE Server -------------------------------
(***************************************************************************)
(* The server process as a whole: cmd/server/main.go's shutdown against the *)
(* HTTP handlers, sessions and workers of module Session, the matcher's     *)
(* Close and the hub's loop.                                                *)
(*                                                                          *)
(* After a signal main runs four steps: http.Server.Shutdown, which refuses *)
(* new requests and waits up to ten seconds for those under way; then       *)
(* SessionController.Stop, called by main itself as one more request for    *)
(* the mutex; then StreamMatcher.Close; then the hub's cancel and Wait.      *)
(***************************************************************************)
EXTENDS Session

CONSTANT Main       \* main's own call of SessionController.Stop

ASSUME MainAssumption == Main \in Requests

VARIABLES
    mainPC,         \* "serving", "shutdown", "stop", "stopping", "close",
                    \* "stopHub", "wait", "exited"; "failed" if the
                    \* listener did
    httpTimedOut,   \* history: Shutdown gave up on requests under way
    matcherClosed,  \* the matcher is closed, and its results channel with it
    hubCtxDone,     \* stopHub was called
    hubRunning      \* Hub.Run has not returned

mainVars == <<mainPC, httpTimedOut, matcherClosed, hubCtxDone, hubRunning>>
serverVars == <<vars, mainVars>>

ServerInit ==
    /\ Init
    /\ mainPC = "serving" /\ httpTimedOut = FALSE
    /\ matcherClosed = FALSE /\ hubCtxDone = FALSE /\ hubRunning = TRUE

(* The process exits when main returns, whatever still runs. *)
Alive == mainPC \notin {"exited", "failed"}

UnderWay == {r \in Requests \ {Main} : pc[r] \notin {"idle", "done", "failed"}}

-----------------------------------------------------------------------------
(* What module Session describes, inside a process that may be shutting down *)

(* Requests are accepted until Shutdown is called. *)
AcceptRequest ==
    /\ mainPC = "serving"
    /\ \E r \in Requests \ {Main} : Arrive(r)
    /\ UNCHANGED mainVars

Handle(r) == Alive /\ Handler(r) /\ UNCHANGED mainVars

(* A closed matcher refuses the event, and the worker's Run returns, which  *)
(* is the Exit of its worker.                                                *)
Work ==
    /\ Alive
    /\ \E g \in Sessions, s \in Streams :
         (~matcherClosed /\ Ingest(g, s)) \/ Exit(g, s)
    /\ UNCHANGED mainVars

(* Hub.Run receives until its context is done, even with results waiting,   *)
(* or until the channel is closed and empty.                                *)
HubReceive == Alive /\ hubRunning /\ Receive /\ UNCHANGED mainVars

HubLeaves ==
    /\ Alive /\ hubRunning
    /\ hubCtxDone \/ (matcherClosed /\ results = <<>>)
    /\ hubRunning' = FALSE
    /\ UNCHANGED <<vars, mainPC, httpTimedOut, matcherClosed, hubCtxDone>>

-----------------------------------------------------------------------------
(* main: runUntilSignal and shutdownInOrder *)

MainTo(l) == mainPC' = l

Signal ==
    /\ mainPC = "serving" /\ MainTo("shutdown")
    /\ UNCHANGED <<vars, httpTimedOut, matcherClosed, hubCtxDone, hubRunning>>

(* ListenAndServe fails: main returns its error and shuts nothing down. *)
ListenFails ==
    /\ mainPC = "serving" /\ MainTo("failed")
    /\ UNCHANGED <<vars, httpTimedOut, matcherClosed, hubCtxDone, hubRunning>>

(* Shutdown would not wait for requests under way. *)
HttpDrainedAtOnce ==
    /\ mainPC = "shutdown" /\ MainTo("stop")
    /\ UNCHANGED <<vars, httpTimedOut, matcherClosed, hubCtxDone, hubRunning>>

HttpDrained ==
    /\ mainPC = "shutdown" /\ UnderWay = {}
    /\ MainTo("stop")
    /\ UNCHANGED <<vars, httpTimedOut, matcherClosed, hubCtxDone, hubRunning>>

(* After shutdownTimeout the error is logged and the shutdown goes on. *)
HttpTimesOut ==
    /\ mainPC = "shutdown" /\ UnderWay # {}
    /\ MainTo("stop") /\ httpTimedOut' = TRUE
    /\ UNCHANGED <<vars, matcherClosed, hubCtxDone, hubRunning>>

CallStop ==
    /\ mainPC = "stop" /\ MainTo("stopping")
    /\ kind' = [kind EXCEPT ![Main] = "stop"] /\ Goto(Main, "queued")
    /\ UNCHANGED <<mu, active, latest, cancelled, timedOut, worker, matcher,
                   httpTimedOut, matcherClosed, hubCtxDone, hubRunning>>

StopReturns ==
    /\ mainPC = "stopping" /\ pc[Main] = "done"
    /\ MainTo("close")
    /\ UNCHANGED <<vars, httpTimedOut, matcherClosed, hubCtxDone, hubRunning>>

CloseMatcher ==
    /\ mainPC = "close" /\ MainTo("stopHub")
    /\ matcherClosed' = TRUE
    /\ UNCHANGED <<vars, httpTimedOut, hubCtxDone, hubRunning>>

StopHub ==
    /\ mainPC = "stopHub" /\ MainTo("wait")
    /\ hubCtxDone' = TRUE
    /\ UNCHANGED <<vars, httpTimedOut, matcherClosed, hubRunning>>

ExitProcess ==
    /\ mainPC = "wait" /\ ~hubRunning
    /\ MainTo("exited")
    /\ UNCHANGED <<vars, httpTimedOut, matcherClosed, hubCtxDone, hubRunning>>

ShutdownInOrder ==
    \/ HttpDrained \/ HttpTimesOut \/ CallStop \/ StopReturns
    \/ CloseMatcher \/ StopHub \/ ExitProcess

ServerNext ==
    \/ AcceptRequest \/ (\E r \in Requests : Handle(r)) \/ Work
    \/ HubReceive \/ HubLeaves \/ Signal \/ ListenFails
    \/ ShutdownInOrder

ServerSpec == ServerInit /\ [][ServerNext]_serverVars

(* main and the hub keep running, and so do the handlers, whose waits are    *)
(* bounded. Workers owe nothing.                                             *)
ServerFairSpec ==
    /\ ServerSpec
    /\ WF_serverVars(ShutdownInOrder)
    /\ WF_serverVars(HubReceive \/ HubLeaves)
    /\ \A r \in Requests : WF_serverVars(Handle(r))

-----------------------------------------------------------------------------
(* Properties *)

NoWorkerRuns == \A g \in Sessions, s \in Streams : worker[g][s] # "running"

(* Once a signal has come, the process exits, whatever the handlers, the     *)
(* workers and the hub are in the middle of.                                 *)
ShutdownCompletes == (mainPC = "shutdown") ~> (mainPC = "exited")

(* Every start and stop request comes to an end while the process lives, even *)
(* behind a worker that never reacts.                                         *)
RequestsFinish ==
    \A r \in Requests :
        (pc[r] = "queued") ~> (pc[r] \in {"done", "failed"} \/ ~Alive)

(* If no wait was cut short, the matcher is closed on a quiet system: no     *)
(* session is active and no worker can still reach it.                       *)
QuietClose ==
    mainPC \in {"close", "stopHub", "wait", "exited"}
    /\ ~httpTimedOut /\ timedOut = {}
        => active = None /\ NoWorkerRuns

(* shutdownInOrder's comment: "Hub.Run exits cleanly after draining in-flight *)
(* broadcasts"; when the process exits, every result was received.           *)
BroadcastsDrained == mainPC = "exited" => results = <<>>

=============================================================================
