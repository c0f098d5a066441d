---------------------------- MODULE ServerProofs ----------------------------
(***************************************************************************)
(* Proofs about the session controller and about the whole process, for     *)
(* every set of handlers and every number of sessions and events.           *)
(*                                                                          *)
(* Session: a worker can outlive its session only through the safety        *)
(* timeout, and a waiting event can outlive its session only if its worker  *)
(* did or until the Reset of the next start: that is what the inductive     *)
(* invariant says of workers and buffer, at each place the holder of the    *)
(* mutex can stand.                                                         *)
(*                                                                          *)
(* Server: every step of the process is a step of the controller, a step of *)
(* main that leaves it alone, or main's own Stop joining its queue, so what *)
(* was shown of each holds here too. The order of main's shutdown adds who  *)
(* can still be inside the controller at each of its steps.                 *)
(***************************************************************************)
EXTENDS Server, SequenceTheorems, TLAPS

-----------------------------------------------------------------------------
(* The controller *)

Holding == {"waiting", "reset", "build", "spawn"}

Pairs == [Streams -> Sessions]

Typed ==
    /\ mu \in Requests \cup {NoRequest}
    /\ kind \in [Requests -> {"start", "stop"}]
    /\ pc \in [Requests -> Holding \cup {"idle", "queued", "done", "failed"}]
    /\ latest \in Nat /\ latest <= MaxSessions
    /\ active \in {None, latest}
    /\ cancelled \subseteq 1..latest /\ timedOut \subseteq cancelled
    /\ worker \in [Sessions -> [Streams -> {"none", "running", "exited"}]]
    /\ buffer \in [Streams -> 0..latest]
    /\ results \in Seq(Pairs) /\ paired \subseteq Pairs /\ ingested \in Nat

(* One handler at a time is inside Start or Stop, and it is the one that      *)
(* holds the mutex; while it waits, what it waits for was told to end, and   *)
(* from then until it spawns there is no active session.                     *)
MutexHeld ==
    /\ \A r \in Requests : pc[r] \in Holding <=> mu = r
    /\ \A r \in Requests : pc[r] = "waiting" => active # None /\ active \in cancelled
    /\ \A r \in Requests : pc[r] \in {"reset", "build", "spawn"} => active = None
    /\ \A r \in Requests : pc[r] = "spawn" => latest < MaxSessions

(* Workers exist only for sessions that were started. *)
WorkersOfSessions ==
    \A g \in Sessions, s \in Streams : worker[g][s] # "none" => g <= latest

(* An event that waits is of the session started last, or its worker was     *)
(* given up on; past the Reset of a start only the second is possible.        *)
BufferOrigin ==
    /\ \A s \in Streams : buffer[s] \in timedOut \cup {None, latest}
    /\ \A r \in Requests : pc[r] \in {"build", "spawn"} =>
          \A s \in Streams : buffer[s] \in timedOut \cup {None}

(* No result is of a session yet to come. *)
ResultsKnown ==
    \A i \in 1..Len(results) : \A s \in Streams : results[i][s] <= latest

SessionInv ==
    /\ Typed /\ MutexHeld /\ WorkersOfSessions /\ NoStrayWorker
    /\ ReplacedWorkersGone /\ BufferOrigin /\ ResultsKnown
    /\ PairsWithinSession /\ ResultsInSessionOrder

-----------------------------------------------------------------------------

(* A request that comes in only joins the queue. main's own Stop comes in    *)
(* this way too.                                                             *)
LEMMA JoinPreserves ==
  ASSUME SessionInv, NEW r \in Requests, pc[r] = "idle",
         kind' \in [Requests -> {"start", "stop"}], pc' = [pc EXCEPT ![r] = "queued"],
         UNCHANGED <<mu, active, latest, cancelled, timedOut, worker, matcher>>
  PROVE  SessionInv'
<1> USE DEF SessionInv
<1>1. UNCHANGED <<buffer, results, paired, ingested>>
  BY DEF matcher
<1>2. \A q \in Requests : pc'[q] # "queued" => pc'[q] = pc[q]
  BY DEF Typed
<1>3. Typed'
  BY <1>1 DEF Typed
<1>4. MutexHeld'
  BY <1>2 DEF MutexHeld, Holding, Typed
<1>5. BufferOrigin'
  BY <1>1, <1>2 DEF BufferOrigin
<1>6. WorkersOfSessions' /\ NoStrayWorker' /\ ReplacedWorkersGone'
  BY DEF WorkersOfSessions, NoStrayWorker, ReplacedWorkersGone
<1>7. ResultsKnown' /\ PairsWithinSession' /\ ResultsInSessionOrder'
  BY <1>1 DEF ResultsKnown, PairsWithinSession, ResultsInSessionOrder
<1>8. QED
  BY <1>3, <1>4, <1>5, <1>6, <1>7

LEMMA AcquirePreserves ==
  ASSUME SessionInv, NEW r \in Requests, Acquire(r)
  PROVE  SessionInv'
<1> USE DEF SessionInv
<1>1. /\ pc[r] = "queued" /\ mu = NoRequest
      /\ UNCHANGED <<kind, active, latest, timedOut, worker, buffer, results, paired,
                     ingested>>
  BY DEF Acquire, matcher
<1>2. \/ active # None /\ mu' = r /\ pc' = [pc EXCEPT ![r] = "waiting"]
         /\ cancelled' = cancelled \cup {active}
      \/ active = None /\ mu' = r /\ pc' = [pc EXCEPT ![r] = "reset"]
         /\ cancelled' = cancelled
      \/ active = None /\ mu' = mu /\ pc' = [pc EXCEPT ![r] = "done"]
         /\ cancelled' = cancelled
  BY DEF Acquire, Goto, Cancel
<1>3. \A q \in Requests : pc[q] \notin Holding
  BY <1>1, SessionAssumption DEF MutexHeld
<1>4. active # None => active \in 1..latest
  BY DEF Typed, None
<1>5. Typed'
  BY <1>1, <1>2, <1>4 DEF Typed, Holding
<1>6. MutexHeld'
  BY <1>1, <1>2, <1>3, SessionAssumption DEF MutexHeld, Typed, Holding
<1>7. BufferOrigin'
  BY <1>1, <1>2, <1>3 DEF BufferOrigin, Holding, Typed
<1>8. WorkersOfSessions' /\ NoStrayWorker' /\ ReplacedWorkersGone'
  BY <1>1, <1>2 DEF WorkersOfSessions, NoStrayWorker, ReplacedWorkersGone
<1>9. ResultsKnown' /\ PairsWithinSession' /\ ResultsInSessionOrder'
  BY <1>1 DEF ResultsKnown, PairsWithinSession, ResultsInSessionOrder
<1>10. QED
  BY <1>5, <1>6, <1>7, <1>8, <1>9

(* Whichever way the wait ends, the session's workers are gone or given up   *)
(* on when it stops being the active one.                                    *)
LEMMA WaitPreserves ==
  ASSUME SessionInv, NEW r \in Requests, WaitDrained(r) \/ WaitTimesOut(r)
  PROVE  SessionInv'
<1> USE DEF SessionInv
<1>1. /\ pc[r] = "waiting" /\ active' = None
      /\ UNCHANGED <<kind, latest, cancelled, worker, buffer, results, paired, ingested>>
      /\ \/ Drained(active) /\ timedOut' = timedOut
         \/ timedOut' = timedOut \cup {active}
      /\ \/ mu' = mu /\ pc' = [pc EXCEPT ![r] = "reset"]
         \/ mu' = NoRequest /\ pc' = [pc EXCEPT ![r] = "done"]
  BY DEF WaitDrained, WaitTimesOut, Proceed, Goto, matcher
<1>2. mu = r /\ active \in cancelled /\ active \in 1..latest /\ active = latest
  BY <1>1 DEF MutexHeld, Holding, Typed, None
<1>3. \A q \in Requests : pc[q] \in Holding <=> q = r
  BY <1>2 DEF MutexHeld
<1>4. Typed'
  <2>1. timedOut' \subseteq cancelled' /\ active' \in {None, latest'}
    BY <1>1, <1>2 DEF Typed
  <2>2. /\ mu' \in Requests \cup {NoRequest}
        /\ pc' \in [Requests -> Holding \cup {"idle", "queued", "done", "failed"}]
    BY <1>1 DEF Typed, Holding
  <2>3. QED
    BY <1>1, <2>1, <2>2 DEF Typed
<1>5. MutexHeld'
  <2>1. CASE mu' = mu /\ pc' = [pc EXCEPT ![r] = "reset"]
    BY <1>1, <1>2, <1>3, <2>1 DEF MutexHeld, Typed, Holding
  <2>2. CASE mu' = NoRequest /\ pc' = [pc EXCEPT ![r] = "done"]
    BY <1>1, <1>2, <1>3, <2>2, SessionAssumption DEF MutexHeld, Typed, Holding
  <2>3. QED
    BY <1>1, <2>1, <2>2
<1>6. BufferOrigin'
  BY <1>1, <1>2, <1>3 DEF BufferOrigin, Holding, Typed
<1>7. WorkersOfSessions' /\ NoStrayWorker'
  BY <1>1, <1>2 DEF WorkersOfSessions, NoStrayWorker
<1>8. ReplacedWorkersGone'
  BY <1>1, <1>2 DEF ReplacedWorkersGone, Drained
<1>9. ResultsKnown' /\ PairsWithinSession' /\ ResultsInSessionOrder'
  <2>1. timedOut \subseteq timedOut' /\ (timedOut' = {} => timedOut = {})
    BY <1>1
  <2>2. QED
    BY <1>1, <2>1 DEF ResultsKnown, PairsWithinSession, ResultsInSessionOrder
<1>10. QED
  BY <1>4, <1>5, <1>6, <1>7, <1>8, <1>9

LEMMA ResetPreserves ==
  ASSUME SessionInv, NEW r \in Requests, Reset(r)
  PROVE  SessionInv'
<1> USE DEF SessionInv
<1>1. /\ pc[r] = "reset" /\ pc' = [pc EXCEPT ![r] = "build"]
      /\ buffer' = [s \in Streams |-> None]
      /\ UNCHANGED <<mu, kind, active, latest, cancelled, timedOut, worker, results,
                     paired, ingested>>
  BY DEF Reset, Goto
<1>2. Typed'
  BY <1>1 DEF Typed, Holding, None
<1>3. MutexHeld'
  BY <1>1 DEF MutexHeld, Typed, Holding
<1>4. BufferOrigin'
  BY <1>1 DEF BufferOrigin
<1>5. WorkersOfSessions' /\ NoStrayWorker' /\ ReplacedWorkersGone'
  BY <1>1 DEF WorkersOfSessions, NoStrayWorker, ReplacedWorkersGone
<1>6. ResultsKnown' /\ PairsWithinSession' /\ ResultsInSessionOrder'
  BY <1>1 DEF ResultsKnown, PairsWithinSession, ResultsInSessionOrder
<1>7. QED
  BY <1>2, <1>3, <1>4, <1>5, <1>6

LEMMA BuildPreserves ==
  ASSUME SessionInv, NEW r \in Requests, Build(r)
  PROVE  SessionInv'
<1> USE DEF SessionInv
<1>1. /\ pc[r] = "build"
      /\ \/ latest < MaxSessions /\ mu' = mu /\ pc' = [pc EXCEPT ![r] = "spawn"]
         \/ mu' = NoRequest /\ pc' = [pc EXCEPT ![r] = "failed"]
      /\ UNCHANGED <<kind, active, latest, cancelled, timedOut, worker, buffer, results,
                     paired, ingested>>
  BY DEF Build, Goto, matcher
<1>2. mu = r /\ \A q \in Requests : pc[q] \in Holding <=> q = r
  BY <1>1 DEF MutexHeld, Holding
<1>3. Typed'
  BY <1>1 DEF Typed, Holding
<1>4. MutexHeld'
  <2>1. CASE latest < MaxSessions /\ mu' = mu /\ pc' = [pc EXCEPT ![r] = "spawn"]
    BY <1>1, <1>2, <2>1 DEF MutexHeld, Typed, Holding
  <2>2. CASE mu' = NoRequest /\ pc' = [pc EXCEPT ![r] = "failed"]
    BY <1>1, <1>2, <2>2, SessionAssumption DEF MutexHeld, Typed, Holding
  <2>3. QED
    BY <1>1, <2>1, <2>2
<1>5. BufferOrigin'
  BY <1>1 DEF BufferOrigin, Typed
<1>6. WorkersOfSessions' /\ NoStrayWorker' /\ ReplacedWorkersGone'
  BY <1>1 DEF WorkersOfSessions, NoStrayWorker, ReplacedWorkersGone
<1>7. ResultsKnown' /\ PairsWithinSession' /\ ResultsInSessionOrder'
  BY <1>1 DEF ResultsKnown, PairsWithinSession, ResultsInSessionOrder
<1>8. QED
  BY <1>3, <1>4, <1>5, <1>6, <1>7

LEMMA SpawnPreserves ==
  ASSUME SessionInv, NEW r \in Requests, Spawn(r)
  PROVE  SessionInv'
<1> USE DEF SessionInv
<1> DEFINE n == latest + 1
<1>1. /\ pc[r] = "spawn" /\ latest' = n /\ active' = n
      /\ worker' = [worker EXCEPT ![n] = [s \in Streams |-> "running"]]
      /\ mu' = NoRequest /\ pc' = [pc EXCEPT ![r] = "done"]
      /\ UNCHANGED <<kind, cancelled, timedOut, buffer, results, paired, ingested>>
  BY DEF Spawn, Goto, matcher
<1>2. /\ mu = r /\ active = None /\ latest < MaxSessions
      /\ \A q \in Requests : pc[q] \in Holding <=> q = r
      /\ \A s \in Streams : buffer[s] \in timedOut \cup {None}
  BY <1>1 DEF MutexHeld, Holding, BufferOrigin
<1>3. latest \in Nat /\ n \in Sessions /\ n \notin 1..latest
  BY <1>2, SessionAssumption DEF Typed, Sessions
<1>4. /\ \A g \in Sessions \ {n} : worker'[g] = worker[g]
      /\ worker' \in [Sessions -> [Streams -> {"none", "running", "exited"}]]
  BY <1>1, <1>3 DEF Typed
<1>5. Typed'
  <2>1. latest' \in Nat /\ latest' <= MaxSessions /\ active' \in {None, latest'}
    BY <1>1, <1>2, <1>3, SessionAssumption
  <2>2. 1..latest \subseteq 1..latest' /\ 0..latest \subseteq 0..latest'
    BY <1>1, <1>3
  <2>3. QED
    BY <1>1, <1>4, <2>1, <2>2 DEF Typed, Holding
<1>6. MutexHeld'
  BY <1>1, <1>2, SessionAssumption DEF MutexHeld, Typed, Holding
<1>7. WorkersOfSessions'
  BY <1>1, <1>3, <1>4 DEF WorkersOfSessions, Sessions
<1>8. NoStrayWorker'
  BY <1>1, <1>2, <1>4 DEF NoStrayWorker, Sessions, None
<1>9. ReplacedWorkersGone'
  <2>1. ASSUME NEW g \in 1..latest', g # active', g \notin timedOut', NEW s \in Streams
        PROVE  worker'[g][s] # "running"
    <3>1. g \in 1..latest /\ g # n /\ g # active /\ g \notin timedOut
      BY <1>1, <1>2, <1>3, <2>1 DEF None
    <3>2. g \in Sessions
      BY <1>2, <3>1, SessionAssumption DEF Sessions, Typed
    <3>3. QED
      BY <1>4, <3>1, <3>2 DEF ReplacedWorkersGone
  <2>2. QED
    BY <2>1 DEF ReplacedWorkersGone
<1>10. BufferOrigin'
  BY <1>1, <1>2 DEF BufferOrigin, Holding, Typed
<1>11. PairsWithinSession' /\ ResultsInSessionOrder'
  <2>1. \A g \in timedOut : g \in Nat /\ (g < latest => g < latest')
    BY <1>1, <1>3 DEF Typed
  <2>2. QED
    BY <1>1, <2>1 DEF PairsWithinSession, ResultsInSessionOrder
<1>12. ResultsKnown'
  <2>1. \A i \in 1..Len(results) : results[i] \in Pairs
    BY ElementOfSeq DEF Typed
  <2>2. \A i \in 1..Len(results) : \A s \in Streams :
           results[i][s] \in Nat /\ results[i][s] <= latest
    BY <2>1 DEF Pairs, Sessions, ResultsKnown
  <2>3. QED
    BY <1>1, <1>3, <2>2 DEF ResultsKnown
<1>13. QED
  BY <1>5, <1>6, <1>7, <1>8, <1>9, <1>10, <1>11, <1>12

(* A worker that runs is of the session started last, or was given up on. *)
LEMMA WhoRuns ==
  ASSUME SessionInv, NEW g \in Sessions, NEW s \in Streams, worker[g][s] = "running"
  PROVE  /\ g \in 1..latest
         /\ g \in timedOut \/ (g = latest /\ active = g)
<1>1. g \in 1..latest
  BY DEF SessionInv, WorkersOfSessions, Sessions, Typed
<1>2. g \in timedOut \/ active = g
  BY <1>1 DEF SessionInv, ReplacedWorkersGone
<1>3. active \in {None, latest} /\ g # None
  BY <1>1 DEF SessionInv, Typed, None
<1>4. QED
  BY <1>1, <1>2, <1>3

LEMMA IngestPreserves ==
  ASSUME SessionInv, NEW g \in Sessions, NEW s \in Streams, Ingest(g, s)
  PROVE  SessionInv'
<1> USE DEF SessionInv
<1> DEFINE h == buffer[opposite(s)]
           pair == [t \in Streams |-> IF t = s THEN g ELSE h]
<1>1. /\ worker[g][s] = "running" /\ ingested' = ingested + 1
      /\ UNCHANGED <<mu, kind, pc, active, latest, cancelled, timedOut, worker>>
      /\ h # None => /\ buffer' = [buffer EXCEPT ![opposite(s)] = None]
                     /\ results' = Append(results, pair)
                     /\ paired' = paired \cup {pair}
      /\ h = None => /\ buffer' = [buffer EXCEPT ![s] = g]
                     /\ results' = results /\ paired' = paired
  BY DEF Ingest, control
<1>2. opposite(s) \in Streams /\ opposite(s) # s
  BY DEF opposite, Streams
<1>3. /\ g \in 1..latest
      /\ g \in timedOut \/ (g = latest /\ active = g)
  BY <1>1, WhoRuns
<1>4. h \in 0..latest /\ h \in timedOut \cup {None, latest}
  BY <1>2 DEF Typed, BufferOrigin
<1>5. h # None => /\ h \in 1..latest /\ pair \in Pairs
                  /\ \A t \in Streams : pair[t] \in {g, h} /\ pair[t] <= latest
  <2>1. SUFFICES ASSUME h # None
                 PROVE  /\ h \in 1..latest /\ pair \in Pairs
                        /\ \A t \in Streams : pair[t] \in {g, h} /\ pair[t] <= latest
    OBVIOUS
  <2>2. latest \in Nat /\ 1..latest \subseteq Sessions
    BY SessionAssumption DEF Typed, Sessions
  <2>3. h \in 1..latest /\ h \in Sessions
    BY <1>4, <2>1, <2>2 DEF None
  <2>4. pair \in Pairs
    BY <2>3 DEF Pairs
  <2>5. \A t \in Streams : pair[t] \in {g, h}
    OBVIOUS
  <2>6. \A t \in Streams : pair[t] <= latest
    BY <1>3, <2>2, <2>3
  <2>7. QED
    BY <2>3, <2>4, <2>5, <2>6
<1>6. Typed'
  <2>1. CASE h # None
    <3>1. results' \in Seq(Pairs) /\ paired' \subseteq Pairs
      <4> HIDE DEF pair
      <4>1. results \in Seq(Pairs) /\ paired \subseteq Pairs
        BY DEF Typed
      <4>2. QED
        BY <1>1, <1>5, <2>1, <4>1, AppendProperties
    <3>2. buffer' \in [Streams -> 0..latest']
      BY <1>1, <2>1 DEF Typed, None
    <3>3. QED
      BY <1>1, <3>1, <3>2 DEF Typed
  <2>2. CASE h = None
    <3>1. buffer' \in [Streams -> 0..latest']
      BY <1>1, <1>3, <2>2 DEF Typed
    <3>2. QED
      BY <1>1, <2>2, <3>1 DEF Typed
  <2>3. QED
    BY <2>1, <2>2
<1>7. MutexHeld' /\ WorkersOfSessions' /\ NoStrayWorker' /\ ReplacedWorkersGone'
  BY <1>1 DEF MutexHeld, WorkersOfSessions, NoStrayWorker, ReplacedWorkersGone
<1>8. BufferOrigin'
  <2>1. \A t \in Streams : buffer'[t] = buffer[t] \/ buffer'[t] \in {None, g}
    BY <1>1 DEF Typed
  <2>2. \A r \in Requests : pc[r] \in {"build", "spawn"} => g \in timedOut
    BY <1>3 DEF MutexHeld, None
  <2>3. QED
    BY <1>1, <1>3, <2>1, <2>2 DEF BufferOrigin
<1>9. ResultsKnown' /\ ResultsInSessionOrder'
  <2>1. CASE h # None
    <3>1. /\ Len(results') = Len(results) + 1 /\ Len(results) \in Nat
          /\ results'[Len(results) + 1] = pair
          /\ \A i \in 1..Len(results) : results'[i] = results[i] /\ results[i] \in Pairs
      <4> HIDE DEF pair
      <4>1. results \in Seq(Pairs)
        BY DEF Typed
      <4>2. QED
        BY <1>1, <1>5, <2>1, <4>1, AppendProperties, LenProperties, ElementOfSeq
    <3>2. ResultsKnown'
      BY <1>1, <1>5, <3>1 DEF ResultsKnown
    <3>3. ASSUME timedOut' = {}, NEW i \in 1..Len(results'), NEW j \in 1..Len(results'),
                 i < j, NEW t \in Streams, NEW u \in Streams
          PROVE  results'[i][t] <= results'[j][u]
      <4>1. CASE j = Len(results) + 1
        <5>1. pair[u] = latest
          BY <1>1, <1>3, <1>4, <1>5, <2>1, <3>3
        <5>2. i \in 1..Len(results)
          BY <3>1, <3>3, <4>1
        <5>3. QED
          BY <3>1, <4>1, <5>1, <5>2 DEF ResultsKnown
      <4>2. CASE j # Len(results) + 1
        <5>1. i \in 1..Len(results) /\ j \in 1..Len(results)
          BY <3>1, <3>3, <4>2
        <5>2. QED
          BY <1>1, <3>1, <3>3, <5>1 DEF ResultsInSessionOrder
      <4>3. QED
        BY <4>1, <4>2
    <3>4. QED
      BY <3>2, <3>3 DEF ResultsInSessionOrder
  <2>2. CASE h = None
    BY <1>1, <2>2 DEF ResultsKnown, ResultsInSessionOrder
  <2>3. QED
    BY <2>1, <2>2
<1>10. PairsWithinSession'
  <2>1. CASE h # None
    <3>1. ASSUME pair["A"] # pair["B"]
          PROVE  \E k \in timedOut : k \in {pair["A"], pair["B"]} /\ k < latest
      <4>1. {pair["A"], pair["B"]} = {g, h} /\ g # h
        BY <1>2, <3>1 DEF Streams
      <4>2. (g \in timedOut /\ g < latest) \/ (h \in timedOut /\ h < latest)
        <5>1. g \in timedOut \/ g = latest
          BY <1>3
        <5>2. h \in timedOut \/ h = latest
          BY <1>4, <2>1
        <5>3. g \in 1..latest /\ h \in 1..latest /\ latest \in Nat
          BY <1>3, <1>5, <2>1 DEF Typed
        <5>4. QED
          BY <4>1, <5>1, <5>2, <5>3
      <4>3. QED
        BY <4>1, <4>2
    <3>2. QED
      BY <1>1, <2>1, <3>1 DEF PairsWithinSession
  <2>2. CASE h = None
    BY <1>1, <2>2 DEF PairsWithinSession
  <2>3. QED
    BY <2>1, <2>2
<1>11. QED
  BY <1>6, <1>7, <1>8, <1>9, <1>10

LEMMA ExitPreserves ==
  ASSUME SessionInv, NEW g \in Sessions, NEW s \in Streams, Exit(g, s)
  PROVE  SessionInv'
<1> USE DEF SessionInv
<1>1. /\ worker[g][s] = "running"
      /\ worker' = [worker EXCEPT ![g][s] = "exited"]
      /\ UNCHANGED <<mu, kind, pc, active, latest, cancelled, timedOut, buffer, results,
                     paired, ingested>>
  BY DEF Exit, control, matcher
<1>2. /\ worker' \in [Sessions -> [Streams -> {"none", "running", "exited"}]]
      /\ \A f \in Sessions, t \in Streams :
            /\ worker'[f][t] = "running" => worker[f][t] = "running"
            /\ worker'[f][t] # "none" => worker[f][t] # "none"
  BY <1>1 DEF Typed
<1>3. Typed'
  BY <1>1, <1>2 DEF Typed
<1>4. MutexHeld' /\ BufferOrigin'
  BY <1>1 DEF MutexHeld, BufferOrigin
<1>5. WorkersOfSessions' /\ NoStrayWorker'
  BY <1>1, <1>2 DEF WorkersOfSessions, NoStrayWorker
<1>6. ReplacedWorkersGone'
  <2>1. 1..latest \subseteq Sessions
    BY SessionAssumption DEF Sessions, Typed
  <2>2. QED
    BY <1>1, <1>2, <2>1 DEF ReplacedWorkersGone
<1>7. ResultsKnown' /\ PairsWithinSession' /\ ResultsInSessionOrder'
  BY <1>1 DEF ResultsKnown, PairsWithinSession, ResultsInSessionOrder
<1>8. QED
  BY <1>3, <1>4, <1>5, <1>6, <1>7

LEMMA ReceivePreserves ==
  ASSUME SessionInv, Receive
  PROVE  SessionInv'
<1> USE DEF SessionInv
<1>1. /\ results # <<>> /\ results' = Tail(results)
      /\ UNCHANGED <<mu, kind, pc, active, latest, cancelled, timedOut, worker, buffer,
                     paired, ingested>>
  BY DEF Receive, control
<1>2. /\ results' \in Seq(Pairs) /\ Len(results') = Len(results) - 1 /\ Len(results) \in Nat
      /\ \A i \in 1..Len(results') : results'[i] = results[i + 1]
  BY <1>1, HeadTailProperties, LenProperties DEF Typed
<1>3. Typed'
  BY <1>1, <1>2 DEF Typed
<1>4. MutexHeld' /\ BufferOrigin' /\ WorkersOfSessions' /\ NoStrayWorker'
        /\ ReplacedWorkersGone' /\ PairsWithinSession'
  BY <1>1 DEF MutexHeld, BufferOrigin, WorkersOfSessions, NoStrayWorker,
              ReplacedWorkersGone, PairsWithinSession
<1>5. \A i \in 1..Len(results') : i + 1 \in 1..Len(results)
  BY <1>2
<1>6. ResultsKnown'
  BY <1>1, <1>2, <1>5 DEF ResultsKnown
<1>7. ResultsInSessionOrder'
  BY <1>1, <1>2, <1>5 DEF ResultsInSessionOrder
<1>8. QED
  BY <1>3, <1>4, <1>6, <1>7

-----------------------------------------------------------------------------

LEMMA Initially == Init => SessionInv
<1> SUFFICES ASSUME Init
             PROVE  SessionInv
  OBVIOUS
<1>1. <<>> \in Seq(Pairs) /\ Len(<<>>) = 0
  BY EmptySeq
<1>2. Typed
  BY <1>1, SessionAssumption DEF Init, Typed, None, Holding
<1>3. MutexHeld
  BY SessionAssumption DEF Init, MutexHeld, Holding
<1>4. WorkersOfSessions /\ NoStrayWorker /\ BufferOrigin /\ PairsWithinSession
  BY DEF Init, WorkersOfSessions, NoStrayWorker, BufferOrigin, PairsWithinSession
<1>5. ReplacedWorkersGone
  BY DEF Init, ReplacedWorkersGone
<1>6. ResultsKnown /\ ResultsInSessionOrder
  BY <1>1 DEF Init, ResultsKnown, ResultsInSessionOrder
<1>7. QED
  BY <1>2, <1>3, <1>4, <1>5, <1>6 DEF SessionInv

LEMMA HandlerPreserves ==
  ASSUME SessionInv, NEW r \in Requests, Handler(r)
  PROVE  SessionInv'
  BY AcquirePreserves, WaitPreserves, ResetPreserves, BuildPreserves, SpawnPreserves
     DEF Handler

LEMMA StutterPreserves ==
  ASSUME SessionInv, UNCHANGED vars
  PROVE  SessionInv'
<1>1. UNCHANGED <<mu, kind, pc, active, latest, cancelled, timedOut, worker, buffer,
                  results, paired, ingested>>
  BY DEF vars, control, matcher
<1>2. Typed' /\ MutexHeld' /\ BufferOrigin' /\ WorkersOfSessions'
  BY <1>1 DEF SessionInv, Typed, MutexHeld, BufferOrigin, WorkersOfSessions
<1>3. /\ NoStrayWorker' /\ ReplacedWorkersGone' /\ ResultsKnown' /\ PairsWithinSession'
      /\ ResultsInSessionOrder'
  BY <1>1 DEF SessionInv, NoStrayWorker, ReplacedWorkersGone, ResultsKnown,
              PairsWithinSession, ResultsInSessionOrder
<1>4. QED
  BY <1>2, <1>3 DEF SessionInv

LEMMA ArrivePreserves ==
  ASSUME SessionInv, NEW r \in Requests, Arrive(r)
  PROVE  SessionInv'
<1>1. kind' \in [Requests -> {"start", "stop"}]
  BY DEF Arrive, SessionInv, Typed
<1>2. QED
  BY <1>1, JoinPreserves DEF Arrive, Goto

LEMMA Inductive == SessionInv /\ [Next]_vars => SessionInv'
<1> SUFFICES ASSUME SessionInv, [Next]_vars
             PROVE  SessionInv'
  OBVIOUS
<1>1. CASE \E r \in Requests : Arrive(r) \/ Handler(r)
  BY <1>1, ArrivePreserves, HandlerPreserves
<1>2. CASE \E g \in Sessions, s \in Streams : Ingest(g, s) \/ Exit(g, s)
  BY <1>2, IngestPreserves, ExitPreserves
<1>3. CASE Receive
  BY <1>3, ReceivePreserves
<1>4. CASE UNCHANGED vars
  BY <1>4, StutterPreserves
<1>5. QED
  BY <1>1, <1>2, <1>3, <1>4 DEF Next, Environment

THEOREM Invariance == Spec => []SessionInv
  BY Initially, Inductive, PTL DEF Spec

(* Every state of the controller is well typed, and at most one handler is   *)
(* inside Start or Stop.                                                     *)
THEOREM OneAtATime == Spec => [](Typed /\ MutexHeld)
  BY Invariance, PTL DEF SessionInv

(* However starts, stops, events and safety timeouts interleave, an event is *)
(* compared with one of another session only if a worker was given up on.    *)
THEOREM SessionsPairWithin == Spec => []PairsWithinSession
  BY Invariance, PTL DEF SessionInv

(* Every worker that was not told to stop is the active session's. *)
THEOREM WorkersAreActive == Spec => []NoStrayWorker
  BY Invariance, PTL DEF SessionInv

(* A session that was replaced or stopped has no worker unless given up on. *)
THEOREM ReplacedAreGone == Spec => []ReplacedWorkersGone
  BY Invariance, PTL DEF SessionInv

(* While no wait was cut short, the results channel is in session order. *)
THEOREM ResultsStayInOrder == Spec => []ResultsInSessionOrder
  BY Invariance, PTL DEF SessionInv

-----------------------------------------------------------------------------
(* The process *)

ShuttingDown == {"stop", "stopping", "close", "stopHub", "wait", "exited"}

Closing == {"close", "stopHub", "wait", "exited"}

ServerTyped ==
    /\ mainPC \in ShuttingDown \cup {"serving", "shutdown", "failed"}
    /\ httpTimedOut \in BOOLEAN /\ matcherClosed \in BOOLEAN
    /\ hubCtxDone \in BOOLEAN /\ hubRunning \in BOOLEAN

(* main's request joins the queue only when main calls Stop, stays a stop,    *)
(* and has been served when main goes on.                                    *)
MainRequest ==
    /\ mainPC \in {"serving", "shutdown", "stop", "failed"} => pc[Main] = "idle"
    /\ mainPC \in {"stopping"} \cup Closing => kind[Main] = "stop"
    /\ mainPC = "stopping" => pc[Main] \in {"queued", "waiting", "done"}
    /\ mainPC \in Closing => pc[Main] = "done"

(* If Shutdown saw the last request out, main is the only one that calls the *)
(* controller after it, and nothing starts a session behind its Stop.        *)
OnlyMain ==
    mainPC \in ShuttingDown /\ ~httpTimedOut =>
        /\ UnderWay = {}
        /\ mainPC \in {"stopping"} \cup Closing /\ pc[Main] = "done" => active = None

ServerInv == SessionInv /\ ServerTyped /\ MainRequest /\ OnlyMain

-----------------------------------------------------------------------------

LEMMA ControllerPreserved ==
  ASSUME ServerInv, ServerNext
  PROVE  SessionInv'
<1> USE DEF ServerInv
<1>1. CASE AcceptRequest
  BY <1>1, ArrivePreserves DEF AcceptRequest
<1>2. CASE \E r \in Requests : Handle(r)
  BY <1>2, HandlerPreserves DEF Handle
<1>3. CASE Work
  BY <1>3, IngestPreserves, ExitPreserves DEF Work
<1>4. CASE HubReceive
  BY <1>4, ReceivePreserves DEF HubReceive
<1>5. CASE CallStop
  <2>1. pc[Main] = "idle" /\ pc' = [pc EXCEPT ![Main] = "queued"]
        /\ kind' \in [Requests -> {"start", "stop"}]
    BY <1>5 DEF CallStop, MainRequest, Goto, SessionInv, Typed
  <2>2. UNCHANGED <<mu, active, latest, cancelled, timedOut, worker, matcher>>
    BY <1>5 DEF CallStop
  <2>3. QED
    BY <2>1, <2>2, MainAssumption, JoinPreserves
<1>6. CASE \/ HubLeaves \/ Signal \/ ListenFails \/ HttpDrained \/ HttpTimesOut
           \/ StopReturns \/ CloseMatcher \/ StopHub \/ ExitProcess
  <2>1. UNCHANGED vars
    BY <1>6 DEF HubLeaves, Signal, ListenFails, HttpDrained, HttpTimesOut, StopReturns,
                CloseMatcher, StopHub, ExitProcess
  <2>2. QED
    BY <2>1, StutterPreserves
<1>7. QED
  BY <1>1, <1>2, <1>3, <1>4, <1>5, <1>6 DEF ServerNext, ShutdownInOrder

(* A handler moves only itself, and only one that is under way moves; a Stop  *)
(* passes through its wait, if at all, to its end, with no active session.   *)
LEMMA HandlerMoves ==
  ASSUME SessionInv, NEW r \in Requests, Handler(r)
  PROVE  /\ pc[r] \in Holding \cup {"queued"} /\ kind' = kind
         /\ \A q \in Requests \ {r} : pc'[q] = pc[q]
         /\ kind[r] = "stop" /\ pc[r] \in {"queued", "waiting"} =>
               \/ pc'[r] = "waiting"
               \/ pc'[r] = "done" /\ active' = None
<1> USE DEF Goto, Holding, SessionInv, Typed
<1>1. CASE Acquire(r)
  BY <1>1 DEF Acquire
<1>2. CASE WaitDrained(r) \/ WaitTimesOut(r)
  BY <1>2 DEF WaitDrained, WaitTimesOut, Proceed
<1>3. CASE Reset(r)
  BY <1>3 DEF Reset
<1>4. CASE Build(r)
  BY <1>4 DEF Build
<1>5. CASE Spawn(r)
  BY <1>5 DEF Spawn
<1>6. QED
  BY <1>1, <1>2, <1>3, <1>4, <1>5 DEF Handler

LEMMA MainTyped ==
  ASSUME ServerInv, ServerNext
  PROVE  ServerTyped'
<1> USE DEF ServerInv, ServerTyped, ShuttingDown
<1>1. CASE AcceptRequest \/ (\E r \in Requests : Handle(r)) \/ Work \/ HubReceive
  BY <1>1 DEF AcceptRequest, Handle, Work, HubReceive, mainVars
<1>2. CASE HubLeaves \/ Signal \/ ListenFails
  BY <1>2 DEF HubLeaves, Signal, ListenFails, MainTo
<1>3. CASE HttpDrained \/ HttpTimesOut \/ CallStop \/ StopReturns
  BY <1>3 DEF HttpDrained, HttpTimesOut, CallStop, StopReturns, MainTo
<1>4. CASE CloseMatcher \/ StopHub \/ ExitProcess
  BY <1>4 DEF CloseMatcher, StopHub, ExitProcess, MainTo
<1>5. QED
  BY <1>1, <1>2, <1>3, <1>4 DEF ServerNext, ShutdownInOrder

(* Steps that move no handler and leave main where it is, or take it on. *)
LEMMA MainMoves ==
  ASSUME ServerInv, UNCHANGED <<pc, kind, active>>,
         \/ UNCHANGED <<mainPC, httpTimedOut>>
         \/ mainPC = "serving" /\ mainPC' \in {"shutdown", "failed"}
         \/ mainPC = "shutdown" /\ mainPC' = "stop" /\ (httpTimedOut' \/ UnderWay = {})
         \/ /\ mainPC \in {"stopping"} \cup Closing /\ pc[Main] = "done"
            /\ mainPC' \in Closing /\ httpTimedOut' = httpTimedOut
  PROVE  MainRequest' /\ OnlyMain'
<1> USE DEF ServerInv, ShuttingDown, Closing
<1>1. UnderWay' = UnderWay
  BY DEF UnderWay
<1>2. CASE UNCHANGED <<mainPC, httpTimedOut>>
  BY <1>1, <1>2 DEF MainRequest, OnlyMain
<1>3. CASE mainPC = "serving" /\ mainPC' \in {"shutdown", "failed"}
  BY <1>3 DEF MainRequest, OnlyMain
<1>4. CASE mainPC = "shutdown" /\ mainPC' = "stop" /\ (httpTimedOut' \/ UnderWay = {})
  BY <1>1, <1>4 DEF MainRequest, OnlyMain
<1>5. CASE /\ mainPC \in {"stopping"} \cup Closing /\ pc[Main] = "done"
           /\ mainPC' \in Closing /\ httpTimedOut' = httpTimedOut
  BY <1>1, <1>5 DEF MainRequest, OnlyMain
<1>6. QED
  BY <1>2, <1>3, <1>4, <1>5

LEMMA ShutdownPreserved ==
  ASSUME ServerInv, ServerNext
  PROVE  MainRequest' /\ OnlyMain'
<1> USE DEF ServerInv
<1>1. CASE AcceptRequest
  <2>1. mainPC = "serving" /\ mainPC' = mainPC /\ httpTimedOut' = httpTimedOut
        /\ pc'[Main] = pc[Main]
    BY <1>1, MainAssumption DEF AcceptRequest, Arrive, Goto, mainVars, SessionInv, Typed
  <2>2. QED
    BY <2>1 DEF MainRequest, OnlyMain, ShuttingDown, Closing
<1>2. ASSUME NEW r \in Requests, Handle(r)
      PROVE  MainRequest' /\ OnlyMain'
  <2>1. /\ mainPC' = mainPC /\ httpTimedOut' = httpTimedOut
        /\ pc[r] \in Holding \cup {"queued"} /\ kind' = kind
        /\ \A q \in Requests \ {r} : pc'[q] = pc[q]
    BY <1>2, HandlerMoves DEF Handle, mainVars
  <2>2. CASE r = Main
    <3>1. UnderWay' = UnderWay
      BY <2>1, <2>2 DEF UnderWay
    <3>2. mainPC = "stopping" /\ kind[Main] = "stop" /\ pc[Main] \in {"queued", "waiting"}
      BY <2>1, <2>2 DEF MainRequest, Holding, ServerTyped, ShuttingDown, Closing
    <3>3. pc'[Main] = "waiting" \/ (pc'[Main] = "done" /\ active' = None)
      BY <1>2, <2>2, <3>2, HandlerMoves DEF Handle
    <3>4. QED
      BY <2>1, <3>1, <3>2, <3>3 DEF MainRequest, OnlyMain, ShuttingDown, Closing
  <2>3. CASE r # Main
    <3>1. r \in UnderWay /\ pc'[Main] = pc[Main]
      BY <2>1, <2>3, MainAssumption DEF UnderWay, Holding
    <3>2. ~(mainPC \in ShuttingDown /\ ~httpTimedOut)
      BY <3>1 DEF OnlyMain
    <3>3. QED
      BY <2>1, <3>1, <3>2 DEF MainRequest, OnlyMain
  <2>4. QED
    BY <2>2, <2>3
<1>3. CASE CallStop
  <2>1. /\ mainPC = "stop" /\ mainPC' = "stopping" /\ httpTimedOut' = httpTimedOut
        /\ kind'[Main] = "stop" /\ pc'[Main] = "queued"
        /\ \A q \in Requests \ {Main} : pc'[q] = pc[q]
    BY <1>3, MainAssumption DEF CallStop, MainTo, Goto, SessionInv, Typed
  <2>2. UnderWay' = UnderWay
    BY <2>1 DEF UnderWay
  <2>3. QED
    BY <2>1, <2>2 DEF MainRequest, OnlyMain, ShuttingDown, Closing
<1>4. CASE Work \/ HubReceive
  <2>1. UNCHANGED <<pc, kind, active, mainPC, httpTimedOut>>
    BY <1>4 DEF Work, HubReceive, Ingest, Exit, Receive, control, mainVars
  <2>2. QED
    BY <2>1, MainMoves
<1>5. CASE HubLeaves \/ Signal \/ ListenFails \/ HttpDrained \/ HttpTimesOut
  <2>1. UNCHANGED <<pc, kind, active>>
    BY <1>5 DEF HubLeaves, Signal, ListenFails, HttpDrained, HttpTimesOut, vars, control
  <2>2. \/ UNCHANGED <<mainPC, httpTimedOut>>
        \/ mainPC = "serving" /\ mainPC' \in {"shutdown", "failed"}
        \/ mainPC = "shutdown" /\ mainPC' = "stop" /\ (httpTimedOut' \/ UnderWay = {})
    BY <1>5 DEF HubLeaves, Signal, ListenFails, HttpDrained, HttpTimesOut, MainTo
  <2>3. QED
    BY <2>1, <2>2, MainMoves
<1>6. CASE StopReturns \/ CloseMatcher \/ StopHub \/ ExitProcess
  <2>1. UNCHANGED <<pc, kind, active, httpTimedOut>>
    BY <1>6 DEF StopReturns, CloseMatcher, StopHub, ExitProcess, vars, control
  <2>2. mainPC \in {"stopping"} \cup Closing /\ pc[Main] = "done" /\ mainPC' \in Closing
    BY <1>6 DEF StopReturns, CloseMatcher, StopHub, ExitProcess, MainTo, MainRequest,
                Closing
  <2>3. QED
    BY <2>1, <2>2, MainMoves
<1>7. QED
  BY <1>1, <1>2, <1>3, <1>4, <1>5, <1>6 DEF ServerNext, ShutdownInOrder

-----------------------------------------------------------------------------

LEMMA ServerInitially == ServerInit => ServerInv
<1> SUFFICES ASSUME ServerInit
             PROVE  ServerInv
  OBVIOUS
<1>1. SessionInv
  BY Initially DEF ServerInit
<1>2. ServerTyped
  BY DEF ServerInit, ServerTyped, ShuttingDown
<1>3. MainRequest /\ OnlyMain
  BY MainAssumption DEF ServerInit, Init, MainRequest, OnlyMain, ShuttingDown, Closing
<1>4. QED
  BY <1>1, <1>2, <1>3 DEF ServerInv

LEMMA ServerInductive == ServerInv /\ [ServerNext]_serverVars => ServerInv'
<1> SUFFICES ASSUME ServerInv, [ServerNext]_serverVars
             PROVE  ServerInv'
  OBVIOUS
<1>1. CASE ServerNext
  BY <1>1, ControllerPreserved, MainTyped, ShutdownPreserved DEF ServerInv
<1>2. CASE UNCHANGED serverVars
  <2>1. SessionInv'
    BY <1>2, StutterPreserves DEF ServerInv, serverVars
  <2>2. UNCHANGED <<pc, kind, active, mainPC, httpTimedOut>>
    BY <1>2 DEF serverVars, vars, control, mainVars
  <2>3. MainRequest' /\ OnlyMain'
    BY <2>2, MainMoves
  <2>4. ServerTyped'
    BY <1>2 DEF ServerInv, ServerTyped, serverVars, mainVars
  <2>5. QED
    BY <2>1, <2>3, <2>4 DEF ServerInv
<1>3. QED
  BY <1>1, <1>2

THEOREM ServerInvariance == ServerSpec => []ServerInv
  BY ServerInitially, ServerInductive, PTL DEF ServerSpec

(* What holds of the controller on its own holds of it in the process, while *)
(* main shuts the process down included.                                     *)
THEOREM SessionsInServer ==
  ServerSpec => [](/\ PairsWithinSession /\ NoStrayWorker /\ ReplacedWorkersGone
                   /\ ResultsInSessionOrder)
  BY ServerInvariance, PTL DEF ServerInv, SessionInv

(* No session being active and no wait cut short, no worker runs. *)
LEMMA QuietWhenStopped ==
  ASSUME SessionInv, active = None, timedOut = {}
  PROVE  NoWorkerRuns
  BY WhoRuns DEF NoWorkerRuns, None

(* If neither Shutdown nor the wait for a session was cut short, main closes *)
(* the matcher, and whatever follows, with no session active and no worker   *)
(* left to reach it.                                                         *)
THEOREM MatcherClosedQuiet == ServerSpec => []QuietClose
<1>1. ServerInv => QuietClose
  <2>1. SUFFICES ASSUME ServerInv, mainPC \in Closing, ~httpTimedOut, timedOut = {}
                 PROVE  active = None /\ NoWorkerRuns
    BY DEF QuietClose, Closing
  <2>2. active = None
    BY <2>1 DEF ServerInv, OnlyMain, MainRequest, ShuttingDown, Closing
  <2>3. QED
    BY <2>1, <2>2, QuietWhenStopped DEF ServerInv
<1>2. QED
  BY <1>1, ServerInvariance, PTL

=============================================================================
