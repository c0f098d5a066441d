---------------------------- MODULE StreamMatcher ----------------------------
(***************************************************************************)
(* The correlation engine, backend/internal/engine: the keyed buffer of one-*)
(* sided events, the bounded results channel, the counters, the eviction    *)
(* goroutine with its ticker, and the Reset and Close protocols.            *)
(*                                                                          *)
(* Every method but Stats runs under the mutex mu, so a method is one step; *)
(* the exception is an eviction sweep, which holds mu over many publishes   *)
(* while the hub may receive from the channel between two of them. While a   *)
(* sweep is on (evictorPC = "sweep") no other method can take a step.        *)
(*                                                                          *)
(* Timestamps are whole numbers (the code truncates them to milliseconds).  *)
(* stamp numbers the accepted events in order: history, not state.           *)
(***************************************************************************)
EXTENDS Integers, FiniteSets, Sequences

CONSTANTS
    EventTypes,     \* the SSE event names that occur
    Ids,            \* correlation ids
    NoId,           \* no id, or an empty one, at the path
    Frames,         \* raw JSON payloads
    Paths,          \* correlation paths
    IdAt,           \* IdAt[p][f]: what gjson finds at path p in frame f
    Trimmed,        \* Trimmed[f]: frame f without its surrounding space
    NoItem,         \* an empty place of the buffer
    NoTick,         \* an empty ticker channel
    TTL,            \* BUFFER_TTL_MS
    TickInterval,   \* evictionTickInterval
    ResultCapacity, \* resultChannelCapacity
    MaxEvents,      \* bound: events accepted in a behaviour
    Horizon         \* bound: the last instant of a behaviour

Sources == {"A", "B"}

Items == [source : Sources, eventType : EventTypes, id : Ids, raw : Frames,
          receivedAt : Nat, stamp : Nat]

Places == Sources \X EventTypes \X Ids

Kinds == {"MATCH", "MISMATCH", "ORPHAN"}

Results == [kind : Kinds, timestamp : Nat,
            a : Items \cup {NoItem}, b : Items \cup {NoItem}]

ASSUME MatcherAssumption ==
    /\ IsFiniteSet(EventTypes) /\ IsFiniteSet(Ids)
    /\ NoId \notin Ids
    /\ IdAt \in [Paths -> [Frames -> Ids \cup {NoId}]]
    /\ DOMAIN Trimmed = Frames
    /\ NoItem \notin Items
    /\ NoTick \notin Nat
    /\ TTL \in Nat \ {0} /\ TickInterval \in Nat \ {0}
    /\ ResultCapacity \in Nat \ {0}
    /\ MaxEvents \in Nat
    /\ Horizon \in Nat /\ Horizon % TickInterval = 0

VARIABLES
    buckets,        \* Places -> the item buffered there, or NoItem
    correlationPath,
    bufferedItems,  \* the atomic counters
    matchCount,
    mismatchCount,
    orphanCount,
    droppedCount,
    results,        \* contents of the results channel
    resultsOpen,    \* the channel has not been closed
    closed,         \* the flag Ingest and evictStale test
    closePC,        \* Close: "idle" -> "wait" -> "lock" -> "returned"
    evictorPC,      \* evictionLoop: "select", "lock", "sweep", "done"
    evictorTick,    \* the instant the sweep was called with
    tickC,          \* the ticker's channel, one tick deep
    now,            \* the clock
    offered,        \* history: every result handed to tryPublishLocked
    superseded,     \* history: items replaced in their place
    forgotten,      \* history: items cleared by Reset
    accepted,       \* history: number of events buffered or paired
    delivered,      \* history: number of results the hub received
    sentOnClosed    \* history: a send met a closed channel (a Go panic)

counters    == <<bufferedItems, matchCount, mismatchCount, orphanCount>>
channel     == <<results, resultsOpen, droppedCount, offered, sentOnClosed>>
lifecycle   == <<closed, closePC, evictorPC, evictorTick>>
clock       == <<tickC, now>>
history     == <<superseded, forgotten, accepted>>
vars == <<buckets, correlationPath, counters, channel, lifecycle, clock,
          history, delivered>>

-----------------------------------------------------------------------------
(* Pure helpers *)

opposite(s) == IF s = "A" THEN "B" ELSE "A"

Place(item) == <<item.source, item.eventType, item.id>>

Occupied == {p \in Places : buckets[p] # NoItem}

(* resolveMatch with orientAB: the A side first whichever came first, and a *)
(* match only if the trimmed payloads are the same bytes.                    *)
resolveMatch(first, second, t) ==
    LET a == IF first.source = "A" THEN first ELSE second
        b == IF first.source = "A" THEN second ELSE first
    IN  [kind |-> IF Trimmed[a.raw] = Trimmed[b.raw] THEN "MATCH" ELSE "MISMATCH",
         timestamp |-> t, a |-> a, b |-> b]

buildOrphan(item, t) ==
    [kind |-> "ORPHAN", timestamp |-> t,
     a |-> IF item.source = "A" THEN item ELSE NoItem,
     b |-> IF item.source = "A" THEN NoItem ELSE item]

(* Slips a change to this code could make. Each stands before the definition *)
(* it would replace, and none is part of the specification.                  *)
CounterpartSameSide(item) == buckets[Place(item)]

(* What lookupLocked finds for an event: the item in the opposite place. *)
Counterpart(item) ==
    buckets[<<opposite(item.source), item.eventType, item.id>>]

AdmitsWhenClosed(frame) == IdAt[correlationPath][frame] # NoId

(* Ingest's early returns: a closed matcher, and a frame whose path holds no *)
(* id, are refused before anything changes.                                  *)
Admits(frame) == ~closed /\ IdAt[correlationPath][frame] # NoId

StaleAtCutoff(item) == item.receivedAt <= evictorTick - TTL
StaleOneTickLate(item) == item.receivedAt < evictorTick - TTL - TickInterval

(* Strictly before the cutoff, which is the tick's instant less the TTL. *)
Stale(item) == item.receivedAt < evictorTick - TTL

InsertCountAlways(p) == 1

(* A new place counts; an item put in an occupied one does not. *)
InsertCount(p) == IF buckets[p] = NoItem THEN 1 ELSE 0

(* The mutex is held by the eviction sweep over all its steps. *)
MutexFree == evictorPC # "sweep"

-----------------------------------------------------------------------------
(* Steps *)

Init ==
    /\ buckets = [p \in Places |-> NoItem]
    /\ correlationPath \in Paths
    /\ bufferedItems = 0 /\ matchCount = 0 /\ mismatchCount = 0
    /\ orphanCount = 0 /\ droppedCount = 0
    /\ results = <<>> /\ resultsOpen = TRUE
    /\ closed = FALSE /\ closePC = "idle"
    /\ evictorPC = "select" /\ evictorTick = 0
    /\ tickC = NoTick /\ now = 0
    /\ offered = {} /\ superseded = {} /\ forgotten = {}
    /\ accepted = 0 /\ delivered = 0 /\ sentOnClosed = FALSE

tryPublishUncounted(r) ==
    /\ offered' = offered \cup {r}
    /\ sentOnClosed' = (sentOnClosed \/ ~resultsOpen)
    /\ results' = IF Len(results) < ResultCapacity THEN Append(results, r) ELSE results
    /\ UNCHANGED <<resultsOpen, droppedCount>>

tryPublishUnbounded(r) ==
    /\ offered' = offered \cup {r}
    /\ sentOnClosed' = (sentOnClosed \/ ~resultsOpen)
    /\ results' = Append(results, r)
    /\ UNCHANGED <<resultsOpen, droppedCount>>

(* The non-blocking send: a full channel drops the result and counts it. *)
tryPublishLocked(r) ==
    /\ offered' = offered \cup {r}
    /\ sentOnClosed' = (sentOnClosed \/ ~resultsOpen)
    /\ IF Len(results) < ResultCapacity
       THEN results' = Append(results, r) /\ UNCHANGED droppedCount
       ELSE droppedCount' = droppedCount + 1 /\ UNCHANGED results
    /\ UNCHANGED resultsOpen

removeLockedCountOnly(item) ==
    /\ bufferedItems' = bufferedItems - 1
    /\ UNCHANGED buckets

(* Taking an item out of its place, as removeLocked and the sweep do. *)
removeLocked(item) ==
    /\ buckets' = [buckets EXCEPT ![Place(item)] = NoItem]
    /\ bufferedItems' = bufferedItems - 1

recordResultCounters(kind) ==
    /\ matchCount' = matchCount + (IF kind = "MATCH" THEN 1 ELSE 0)
    /\ mismatchCount' = mismatchCount + (IF kind = "MISMATCH" THEN 1 ELSE 0)
    /\ orphanCount' = orphanCount + (IF kind = "ORPHAN" THEN 1 ELSE 0)

(* Ingest finds the counterpart: both leave as one result. *)
IngestMatch(item) ==
    /\ Counterpart(item) # NoItem
    /\ removeLocked(Counterpart(item))
    /\ LET r == resolveMatch(item, Counterpart(item), now)
       IN  recordResultCounters(r.kind) /\ tryPublishLocked(r)
    /\ UNCHANGED superseded

(* Ingest finds none: insertLocked puts the item in its place, silently over *)
(* an earlier one of the same stream with the same key.                      *)
IngestBuffer(item) ==
    /\ Counterpart(item) = NoItem
    /\ bufferedItems' = bufferedItems + InsertCount(Place(item))
    /\ superseded' = superseded \cup ({buckets[Place(item)]} \ {NoItem})
    /\ buckets' = [buckets EXCEPT ![Place(item)] = item]
    /\ UNCHANGED <<matchCount, mismatchCount, orphanCount, channel>>

Ingest(source, eventType, frame) ==
    /\ MutexFree /\ accepted < MaxEvents
    /\ Admits(frame)
    /\ LET item == [source |-> source, eventType |-> eventType,
                    id |-> IdAt[correlationPath][frame], raw |-> frame,
                    receivedAt |-> now, stamp |-> accepted + 1]
       IN  IngestMatch(item) \/ IngestBuffer(item)
    /\ accepted' = accepted + 1
    /\ UNCHANGED <<correlationPath, lifecycle, clock, forgotten, delivered>>

(* A new session: the buffer goes, without orphans. Counters, and results    *)
(* already in the channel, stay.                                             *)
Reset(path) ==
    /\ MutexFree
    /\ buckets' = [p \in Places |-> NoItem]
    /\ correlationPath' = path
    /\ bufferedItems' = 0
    /\ forgotten' = forgotten \cup {buckets[p] : p \in Occupied}
    /\ UNCHANGED <<matchCount, mismatchCount, orphanCount, channel, lifecycle,
                   clock, superseded, accepted, delivered>>

(* evictionLoop's select takes a tick; a stop signal and a tick that are     *)
(* both ready are chosen between at random.                                  *)
EvictorTick ==
    /\ evictorPC = "select" /\ tickC # NoTick
    /\ evictorPC' = "lock" /\ evictorTick' = tickC /\ tickC' = NoTick
    /\ UNCHANGED <<buckets, correlationPath, counters, channel, closed, closePC,
                   now, history, delivered>>

EvictorStopWhenEmpty ==
    /\ evictorPC = "select" /\ closePC # "idle" /\ Occupied = {}
    /\ evictorPC' = "done"
    /\ UNCHANGED <<buckets, correlationPath, counters, channel, closed, closePC,
                   evictorTick, clock, history, delivered>>

EvictorStop ==
    /\ evictorPC = "select" /\ closePC # "idle"
    /\ evictorPC' = "done"
    /\ UNCHANGED <<buckets, correlationPath, counters, channel, closed, closePC,
                   evictorTick, clock, history, delivered>>

(* evictStale takes the mutex, and gives up on a closed matcher. *)
EvictLock ==
    /\ evictorPC = "lock"
    /\ evictorPC' = IF closed THEN "select" ELSE "sweep"
    /\ UNCHANGED <<buckets, correlationPath, counters, channel, closed, closePC,
                   evictorTick, clock, history, delivered>>

(* One iteration of evictStale's innermost loop; map order is arbitrary. *)
EvictItem(p) ==
    /\ evictorPC = "sweep" /\ p \in Occupied /\ Stale(buckets[p])
    /\ removeLocked(buckets[p])
    /\ recordResultCounters("ORPHAN")
    /\ tryPublishLocked(buildOrphan(buckets[p], evictorTick))
    /\ UNCHANGED <<correlationPath, lifecycle, clock, history, delivered>>

EvictUnlock ==
    /\ evictorPC = "sweep"
    /\ \A p \in Occupied : ~Stale(buckets[p])
    /\ evictorPC' = "select"
    /\ UNCHANGED <<buckets, correlationPath, counters, channel, closed, closePC,
                   evictorTick, clock, history, delivered>>

(* Close: signal the evictor, wait until it has gone, then under the mutex  *)
(* set the flag and close the channel.                                      *)
CloseBegin ==
    /\ closePC = "idle" /\ closePC' = "wait"
    /\ UNCHANGED <<buckets, correlationPath, counters, channel, closed, evictorPC,
                   evictorTick, clock, history, delivered>>

CloseWait ==
    /\ closePC = "wait" /\ evictorPC = "done"
    /\ closePC' = "lock"
    /\ UNCHANGED <<buckets, correlationPath, counters, channel, closed, evictorPC,
                   evictorTick, clock, history, delivered>>

CloseFinish ==
    /\ closePC = "lock" /\ MutexFree
    /\ closed' = TRUE /\ resultsOpen' = FALSE /\ closePC' = "returned"
    /\ UNCHANGED <<buckets, correlationPath, counters, results, droppedCount,
                   offered, sentOnClosed, evictorPC, evictorTick, clock,
                   history, delivered>>

(* The hub takes the next result; a closed channel still yields what it has. *)
Receive ==
    /\ results # <<>>
    /\ results' = Tail(results) /\ delivered' = delivered + 1
    /\ UNCHANGED <<buckets, correlationPath, counters, resultsOpen, droppedCount,
                   offered, sentOnClosed, lifecycle, clock, history>>

(* Time passes. The ticker offers a tick at every multiple of its interval, *)
(* and loses it when the last one has not been taken. The clock stays at the *)
(* Horizon, a multiple of the interval, and goes on ticking there.           *)
Advance ==
    /\ now' = IF now < Horizon THEN now + 1 ELSE Horizon
    /\ tickC' = IF now' % TickInterval = 0 /\ tickC = NoTick THEN now' ELSE tickC
    /\ UNCHANGED <<buckets, correlationPath, counters, channel, lifecycle,
                   history, delivered>>

Evictor ==
    \/ EvictorTick \/ EvictorStop \/ EvictLock \/ EvictUnlock
    \/ \E p \in Places : EvictItem(p)

Close == CloseBegin \/ CloseWait \/ CloseFinish

Next ==
    \/ \E s \in Sources, t \in EventTypes, f \in Frames : Ingest(s, t, f)
    \/ \E path \in Paths : Reset(path)
    \/ Evictor \/ Close \/ Receive \/ Advance

Spec == Init /\ [][Next]_vars

(* The matcher's goroutines keep running, and time passes. When a stop signal *)
(* and a tick are both ready, select picks at random, so the stop signal is   *)
(* not passed over for ever. Nothing makes the feeds send, a session start,   *)
(* the process shut down, or the hub take a result.                           *)
Fairness ==
    /\ WF_vars(EvictorTick) /\ SF_vars(EvictorStop)
    /\ WF_vars(EvictLock \/ EvictUnlock \/ \E p \in Places : EvictItem(p))
    /\ WF_vars(CloseWait \/ CloseFinish)
    /\ WF_vars(Advance)

FairSpec == Spec /\ Fairness

-----------------------------------------------------------------------------
(* Properties *)

(* Every variable holds a value of its kind: a place holds an item of that   *)
(* place, and the channel never holds more than its capacity.                *)
TypeOK ==
    /\ buckets \in [Places -> Items \cup {NoItem}]
    /\ \A p \in Occupied : Place(buckets[p]) = p
    /\ correlationPath \in Paths
    /\ bufferedItems \in Nat /\ matchCount \in Nat /\ mismatchCount \in Nat
    /\ orphanCount \in Nat /\ droppedCount \in Nat
    /\ results \in Seq(Results) /\ Len(results) <= ResultCapacity
    /\ resultsOpen \in BOOLEAN /\ closed \in BOOLEAN
    /\ closePC \in {"idle", "wait", "lock", "returned"}
    /\ evictorPC \in {"select", "lock", "sweep", "done"}
    /\ evictorTick \in Nat
    /\ tickC \in Nat \cup {NoTick} /\ now \in Nat
    /\ offered \subseteq Results
    /\ superseded \subseteq Items /\ forgotten \subseteq Items
    /\ accepted \in Nat /\ delivered \in Nat
    /\ sentOnClosed \in BOOLEAN

(* The bufferedItems counter of /api/stats is the number of items buffered,  *)
(* through replacement, pairing, eviction and Reset, which each change the   *)
(* two in their own way.                                                     *)
BufferCounted == bufferedItems = Cardinality(Occupied)

(* Two events that could be compared are never both waiting: whichever came  *)
(* second found the first.                                                   *)
OneSideWaits ==
    \A p \in Occupied : buckets[<<opposite(p[1]), p[2], p[3]>>] = NoItem

(* Every result counted was received by the hub, or is in the channel, or    *)
(* was counted as dropped: none is lost silently or counted twice.           *)
ResultsAccounted ==
    matchCount + mismatchCount + orphanCount
        = delivered + Len(results) + droppedCount

(* No send meets the closed channel, which would bring the process down:     *)
(* Close's order of waiting, flag and close against late Ingests and sweeps. *)
NoSendOnClosed == ~sentOnClosed

Sides(r) == {r.a, r.b} \ {NoItem}

Known ==
    {buckets[p] : p \in Occupied} \cup (UNION {Sides(r) : r \in offered})
        \cup superseded \cup forgotten

(* An item becomes an orphan only after more than the TTL, and only if no    *)
(* counterpart came in that time: one that came later than the item came     *)
(* more than the TTL later.                                                  *)
NoMissedPair ==
    \A r \in offered : r.kind = "ORPHAN" =>
        \A x \in Sides(r) :
            /\ r.timestamp > x.receivedAt + TTL
            /\ \A y \in Known :
                 /\ Place(y) = <<opposite(x.source), x.eventType, x.id>>
                 /\ y.stamp > x.stamp
                 => y.receivedAt > x.receivedAt + TTL

(* Nothing that waits is forgotten by the engine: an item whose TTL ends     *)
(* before the horizon leaves the buffer, unless the process shuts down.      *)
AgedOut ==
    \A n \in 1..MaxEvents :
        (\E p \in Occupied : buckets[p].stamp = n
                             /\ buckets[p].receivedAt + TTL < Horizon)
            ~> (closePC # "idle" \/ \A p \in Occupied : buckets[p].stamp # n)

(* Close, once called, returns: it waits for the evictor only, which ticks    *)
(* cannot keep from the stop signal, and never for a hub that has stopped     *)
(* taking results from a full channel.                                        *)
CloseCompletes == (closePC # "idle") ~> (closePC = "returned")

-----------------------------------------------------------------------------
(* The abstract specification this module implements. *)

Abstract(item) ==
    [source |-> item.source, key |-> <<item.eventType, item.id>>,
     stamp |-> item.stamp]

AbstractSet(S) == {Abstract(item) : item \in S}

Pairing == INSTANCE EventPairing WITH
    Keys <- EventTypes \X Ids,
    Stamps <- 1..MaxEvents,
    pending <- AbstractSet({buckets[p] : p \in Occupied}),
    paired <- {AbstractSet(Sides(r)) : r \in {x \in offered : x.kind # "ORPHAN"}},
    aged <- AbstractSet(UNION {Sides(r) : r \in {x \in offered : x.kind = "ORPHAN"}}),
    superseded <- AbstractSet(superseded),
    forgotten <- AbstractSet(forgotten)

(* The matcher implements EventPairing: each accepted event waits until it   *)
(* has exactly one fate, whatever the order of arrivals, sweeps and resets.  *)
ImplementsPairing == Pairing!Spec

=============================================================================
