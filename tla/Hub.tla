-------------------------------- MODULE Hub --------------------------------
(***************************************************************************)
(* The broadcast hub and its WebSocket clients, backend/internal/api/hub.go *)
(* and wsclient.go. One goroutine runs Hub.Run; each connection has an HTTP  *)
(* handler that upgrades it, a serve goroutine that registers it and then   *)
(* is its write pump, and a read pump.                                      *)
(*                                                                          *)
(* The hub's methods run under its mutex and never block in it, so each is  *)
(* one step. The counter wsCount is atomic and is not always changed under  *)
(* the mutex: broadcast takes dropped clients off it after unlocking.        *)
(*                                                                          *)
(* A result is its number in the order the matcher published them.          *)
(***************************************************************************)
EXTENDS Integers, FiniteSets, Sequences

CONSTANTS
    Clients,        \* wsClient objects; each stands for one connection
    SendBuffer,     \* clientSendBuffer
    MaxResults      \* bound: results published in a behaviour

ASSUME HubAssumption ==
    /\ IsFiniteSet(Clients)
    /\ SendBuffer \in Nat \ {0}
    /\ MaxResults \in Nat

VARIABLES
    published,      \* number of results put into the matcher's channel
    taken,          \* number of them Run has received
    matcherClosed,  \* the matcher's channel has been closed
    ctxDone,        \* the hub's context has been cancelled
    hubPC,          \* Run: "select", "uncount", "stopping", "done"
    toUncount,      \* dropped clients broadcast has yet to take off wsCount
    hubClosed,      \* Hub.closed
    clients,        \* Hub.clients, the registry
    wsCount,        \* the atomic counter behind ActiveClients
    pc,             \* each connection: "idle", "upgrading", "spawned",
                    \* "running", "unwinding", "gone"
    send,           \* contents of each client's send channel
    sendClosed,     \* whether it has been closed
    written,        \* results each client's socket was given, in order
    readPump,       \* "none", "running" or "ended"
    cancelled,      \* the context of each write pump is done
    panicked        \* history: a send on, or a close of, a closed channel

source == <<published, matcherClosed, ctxDone>>
run    == <<hubPC, toUncount, hubClosed, taken>>
conn   == <<pc, written, readPump, cancelled>>
vars == <<source, run, clients, wsCount, conn, send, sendClosed, panicked>>

-----------------------------------------------------------------------------

Init ==
    /\ published = 0 /\ taken = 0
    /\ matcherClosed = FALSE /\ ctxDone = FALSE
    /\ hubPC = "select" /\ toUncount = 0 /\ hubClosed = FALSE
    /\ clients = {} /\ wsCount = 0
    /\ pc = [c \in Clients |-> "idle"]
    /\ send = [c \in Clients |-> <<>>]
    /\ sendClosed = [c \in Clients |-> FALSE]
    /\ written = [c \in Clients |-> <<>>]
    /\ readPump = [c \in Clients |-> "none"]
    /\ cancelled = [c \in Clients |-> FALSE]
    /\ panicked = FALSE

(* close(c.send) for every client of S; closing twice is a panic. *)
CloseSends(S) ==
    /\ sendClosed' = [c \in Clients |-> sendClosed[c] \/ c \in S]
    /\ panicked' = (panicked \/ \E c \in S : sendClosed[c])

(* The rest of the process: results arrive, the matcher is closed, and then *)
(* the hub's context is cancelled.                                          *)
Publish ==
    /\ ~matcherClosed /\ published < MaxResults
    /\ published' = published + 1
    /\ UNCHANGED <<matcherClosed, ctxDone, run, clients, wsCount, conn, send,
                   sendClosed, panicked>>

CloseMatcher ==
    /\ ~matcherClosed /\ matcherClosed' = TRUE
    /\ UNCHANGED <<published, ctxDone, run, clients, wsCount, conn, send,
                   sendClosed, panicked>>

StopHub ==
    /\ matcherClosed /\ ~ctxDone /\ ctxDone' = TRUE
    /\ UNCHANGED <<published, matcherClosed, run, clients, wsCount, conn, send,
                   sendClosed, panicked>>

-----------------------------------------------------------------------------
(* Hub.Run *)

Full(c) == Len(send[c]) >= SendBuffer

DropsNobody == {}

(* Registered clients that broadcast drops: those whose channel is full. *)
DroppedByBroadcast == {c \in clients : Full(c)}

(* broadcast under the mutex: everyone with room gets the result, everyone  *)
(* without is taken off the registry and its channel closed.                *)
Broadcast ==
    /\ hubPC = "select" /\ taken < published
    /\ taken' = taken + 1
    /\ send' = [c \in Clients |-> IF c \in clients /\ ~Full(c)
                                  THEN Append(send[c], taken + 1) ELSE send[c]]
    /\ clients' = clients \ DroppedByBroadcast
    /\ sendClosed' = [c \in Clients |-> sendClosed[c] \/ c \in DroppedByBroadcast]
    /\ panicked' = (panicked \/ \E c \in clients : sendClosed[c])
    /\ toUncount' = Cardinality(DroppedByBroadcast)
    /\ hubPC' = IF DroppedByBroadcast = {} THEN "select" ELSE "uncount"
    /\ UNCHANGED <<source, hubClosed, wsCount, conn>>

(* After unlocking, broadcast takes each dropped client off the counter. *)
Uncount ==
    /\ hubPC = "uncount"
    /\ wsCount' = wsCount - 1 /\ toUncount' = toUncount - 1
    /\ hubPC' = IF toUncount = 1 THEN "select" ELSE "uncount"
    /\ UNCHANGED <<source, taken, hubClosed, clients, conn, send, sendClosed,
                   panicked>>

(* Run leaves its loop when its context is done, whether or not results are *)
(* waiting, or when the matcher's channel is closed and empty.              *)
LeaveLoop ==
    /\ hubPC = "select"
    /\ ctxDone \/ (matcherClosed /\ taken = published)
    /\ hubPC' = "stopping"
    /\ UNCHANGED <<source, taken, toUncount, hubClosed, clients, wsCount, conn,
                   send, sendClosed, panicked>>

(* markClosedAndDrain leaves wsCount alone. *)
MarkClosedAndDrain ==
    /\ hubPC = "stopping" /\ hubPC' = "done"
    /\ hubClosed' = TRUE
    /\ CloseSends(clients)
    /\ clients' = {}
    /\ UNCHANGED <<source, taken, toUncount, wsCount, conn, send>>

-----------------------------------------------------------------------------
(* Connections *)

Goto(c, l) == pc' = [pc EXCEPT ![c] = l]

(* ServeWS looks at the closed flag, unlocks, and upgrades only then. *)
ServeWS(c) ==
    /\ pc[c] = "idle"
    /\ Goto(c, IF hubClosed THEN "gone" ELSE "upgrading")
    /\ UNCHANGED <<source, run, clients, wsCount, written, readPump, cancelled,
                   send, sendClosed, panicked>>

(* The upgrade succeeds, and the client is handed to its goroutine, or fails. *)
Upgrade(c) ==
    /\ pc[c] = "upgrading"
    /\ \E l \in {"spawned", "gone"} : Goto(c, l)
    /\ UNCHANGED <<source, run, clients, wsCount, written, readPump, cancelled,
                   send, sendClosed, panicked>>

(* Once ServeWS has returned, net/http cancels the context of its request,   *)
(* which is the parent of the write pump's.                                  *)
RequestContextDone(c) ==
    /\ pc[c] \in {"spawned", "running"} /\ ~cancelled[c]
    /\ cancelled' = [cancelled EXCEPT ![c] = TRUE]
    /\ UNCHANGED <<source, run, clients, wsCount, pc, written, readPump, send,
                   sendClosed, panicked>>

RegisterWithoutClose(c) ==
    /\ pc[c] = "spawned"
    /\ Goto(c, "running")
    /\ readPump' = [readPump EXCEPT ![c] = "running"]
    /\ IF hubClosed
       THEN UNCHANGED <<clients, wsCount>>
       ELSE clients' = clients \cup {c} /\ wsCount' = wsCount + 1
    /\ UNCHANGED <<source, run, written, cancelled, send, sendClosed, panicked>>

(* registerClient: a hub that closed in the meantime closes the channel. *)
Register(c) ==
    /\ pc[c] = "spawned"
    /\ Goto(c, "running")
    /\ readPump' = [readPump EXCEPT ![c] = "running"]
    /\ IF hubClosed
       THEN CloseSends({c}) /\ UNCHANGED <<clients, wsCount>>
       ELSE /\ clients' = clients \cup {c} /\ wsCount' = wsCount + 1
            /\ UNCHANGED <<sendClosed, panicked>>
    /\ UNCHANGED <<source, run, written, cancelled, send>>

(* The write pump's select, when several cases are ready, picks any one. *)
WriteResult(c) ==
    /\ pc[c] = "running" /\ send[c] # <<>>
    /\ send' = [send EXCEPT ![c] = Tail(@)]
    /\ written' = [written EXCEPT ![c] = Append(@, Head(send[c]))]
    /\ UNCHANGED <<source, run, clients, wsCount, pc, readPump, cancelled,
                   sendClosed, panicked>>

(* A write that fails takes its result with it; a ping that fails does not. *)
WriteFails(c) ==
    /\ pc[c] = "running"
    /\ Goto(c, "unwinding")
    /\ send' = [send EXCEPT ![c] = IF @ = <<>> THEN @ ELSE Tail(@)]
    /\ UNCHANGED <<source, run, clients, wsCount, written, readPump, cancelled,
                   sendClosed, panicked>>

WriteDroppedWaits(c) ==
    /\ pc[c] = "running" /\ sendClosed[c] /\ send[c] = <<>> /\ cancelled[c]
    /\ Goto(c, "unwinding")
    /\ UNCHANGED <<source, run, clients, wsCount, written, readPump, cancelled,
                   send, sendClosed, panicked>>

(* A closed channel is seen only when what it still held has been written. *)
WriteDropped(c) ==
    /\ pc[c] = "running" /\ sendClosed[c] /\ send[c] = <<>>
    /\ Goto(c, "unwinding")
    /\ UNCHANGED <<source, run, clients, wsCount, written, readPump, cancelled,
                   send, sendClosed, panicked>>

WriteCancelled(c) ==
    /\ pc[c] = "running" /\ cancelled[c]
    /\ Goto(c, "unwinding")
    /\ UNCHANGED <<source, run, clients, wsCount, written, readPump, cancelled,
                   send, sendClosed, panicked>>

CleanupAlwaysCloses(c) ==
    /\ pc[c] = "unwinding"
    /\ Goto(c, "gone")
    /\ clients' = clients \ {c}
    /\ wsCount' = IF c \in clients THEN wsCount - 1 ELSE wsCount
    /\ CloseSends({c})
    /\ UNCHANGED <<source, run, written, readPump, cancelled, send>>

CleanupAlwaysUncounts(c) ==
    /\ pc[c] = "unwinding"
    /\ Goto(c, "gone")
    /\ clients' = clients \ {c} /\ wsCount' = wsCount - 1
    /\ CloseSends({c} \cap clients)
    /\ UNCHANGED <<source, run, written, readPump, cancelled, send>>

(* cleanup: unregisterClient, which does nothing to a client the hub has     *)
(* already dropped or drained, and closing the socket.                       *)
Cleanup(c) ==
    /\ pc[c] = "unwinding"
    /\ Goto(c, "gone")
    /\ IF c \in clients
       THEN /\ clients' = clients \ {c} /\ wsCount' = wsCount - 1
            /\ CloseSends({c})
       ELSE UNCHANGED <<clients, wsCount, sendClosed, panicked>>
    /\ UNCHANGED <<source, run, written, readPump, cancelled, send>>

(* ReadMessage fails, for a peer that left or missed its deadline or a       *)
(* socket the server closed, and the read pump cancels the write pump.       *)
ReadEnds(c) ==
    /\ readPump[c] = "running"
    /\ readPump' = [readPump EXCEPT ![c] = "ended"]
    /\ cancelled' = [cancelled EXCEPT ![c] = TRUE]
    /\ UNCHANGED <<source, run, clients, wsCount, pc, written, send, sendClosed,
                   panicked>>

WritePump(c) ==
    WriteResult(c) \/ WriteFails(c) \/ WriteDropped(c) \/ WriteCancelled(c)

Process == Publish \/ CloseMatcher \/ StopHub
Run == Broadcast \/ Uncount \/ LeaveLoop \/ MarkClosedAndDrain
Connection(c) ==
    \/ ServeWS(c) \/ Upgrade(c) \/ RequestContextDone(c) \/ Register(c)
    \/ WritePump(c) \/ Cleanup(c) \/ ReadEnds(c)

(* A process that has stopped, with every connection gone, takes no step. *)
Next == Process \/ Run \/ \E c \in Clients : Connection(c)

Spec == Init /\ [][Next]_vars

(* The goroutines keep running. A pump that never finds its context done or *)
(* its peer gone is not made to end by fairness; a socket the server closed *)
(* ends its read pump.                                                      *)
Fairness ==
    /\ WF_vars(Run)
    /\ \A c \in Clients :
        /\ WF_vars(Upgrade(c)) /\ WF_vars(Register(c)) /\ WF_vars(Cleanup(c))
        /\ WF_vars(WriteResult(c) \/ WriteDropped(c) \/ WriteCancelled(c))
        /\ WF_vars(pc[c] = "gone" /\ ReadEnds(c))

FairSpec == Spec /\ Fairness

-----------------------------------------------------------------------------
(* Properties *)

(* No broadcast meets a closed send channel and none is closed twice, though *)
(* a slow-consumer drop, a cleanup, a drain and a late registration may each *)
(* close it.                                                                 *)
NoHubPanic == ~panicked

Stream(c) == IF pc[c] = "running" THEN written[c] \o send[c] ELSE written[c]

(* What a client was given, and has queued while its pump runs, is a run of  *)
(* consecutive results, up to the latest one while it is registered: a       *)
(* consumer that cannot keep up is cut off, never left with a gap.           *)
GapFree ==
    \A c \in Clients : LET s == Stream(c) IN
        /\ \A i \in 1..(Len(s) - 1) : s[i + 1] = s[i] + 1
        /\ c \in clients /\ pc[c] = "running" /\ s # <<>> => s[Len(s)] = taken

(* Until the hub closes, the counter is the registry's size plus the clients *)
(* a broadcast has dropped and not yet taken off: never less.                *)
ActiveClientsCounted ==
    ~hubClosed => wsCount = Cardinality(clients) + toUncount

(* Stopping the hub releases every connection: Run ends, and every pump that *)
(* was started, even one whose registration raced with the stop, unwinds.    *)
StopReleasesAll ==
    ctxDone ~> /\ hubPC = "done"
               /\ \A c \in Clients : /\ pc[c] \in {"idle", "gone"}
                                     /\ readPump[c] # "running"

(* A client that was dropped as too slow does not linger. *)
DroppedUnwinds ==
    \A c \in Clients : (pc[c] = "running" /\ sendClosed[c]) ~> pc[c] = "gone"

(* writePump's comment: it "returns when ctx is cancelled (parent shutdown /  *)
(* read pump death) or when the hub closes the send channel"; a cancelled     *)
(* pump therefore has a dead read pump or a hub that was told to stop.        *)
CancelledForAReason ==
    \A c \in Clients : pc[c] = "running" /\ cancelled[c]
                           => readPump[c] = "ended" \/ ctxDone

=============================================================================
