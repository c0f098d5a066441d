# A TLA+ model of ssediff

ssediff compares two Server-Sent-Events feeds. A Go backend connects to both
upstreams, pairs their events by a correlation identifier, compares each pair
and broadcasts the result over WebSockets to a React dashboard, which also
starts and stops the comparison. This directory holds the specifications of
that program, their model-checking configurations and the proofs about them.

Run a check with `tlc -config MatcherSafety.cfg MCStreamMatcher.tla` and the
proofs with `tlapm StreamMatcherProofs.tla`, and so on for every module whose name
ends in `Proofs`.

## 1. Inventory

Paths are relative to the repository; `be/` is `backend/internal/`, `fe/` is
`frontend/src/`.

| Component | State | Operations | Talks to |
|---|---|---|---|
| Correlation engine, `be/engine/` | buckets, path, closed flag, results channel, atomic counters, evictor goroutine | Ingest, Reset, evictStale, Close, Stats | called by workers, controller, main; publishes to the hub |
| Hub and WebSocket clients, `be/api/hub.go`, `wsclient.go` | registry, closed flag, wsCount; per client a send channel, two pumps, a context | Run, broadcast, ServeWS, register, unregister, drain; serve, writePump, readPump | takes results; writes to browsers |
| SSE client and parser, `be/stream/client.go`, `parser.go` | backoff, connection, frame being parsed | Run, streamOnce, parseStream, dispatch | one goroutine per stream; calls Ingest |
| Upstream security, `be/stream/security.go` | none | ValidateURL, ValidateHeaderName, ResolveAndPin | called when a client is built |
| Session controller, `be/api/session.go` | mutex, active session, its context and WaitGroup | Start, Stop, cancelAndWaitLocked, ActiveID | called by handlers and main; owns workers, resets the matcher |
| HTTP routes and validation, `be/api/routes.go`, `validate.go` | none | handlers, status mapping, request rules | the controller, the hub |
| Server process, `cmd/server/main.go` | the order of shutdown | run, runUntilSignal, shutdownInOrder | everything |
| Event stream hook, `fe/hooks/useEventStream.ts` | socket and timer references, backoff, status, ring buffer | connect, onopen, onmessage, onclose, cleanup | the hub |
| Dashboard session control, `fe/App.tsx`, `components/ConfigBar.tsx`, `lib/api.ts` | session status, pending requests, error banner, collapse | submit, stop, edit, effects | the routes |
| Event ledger, `components/EventLedger.tsx` | filter, scroll position, pill, announcements | effects on the ring, filter and scroll handlers | the hook |
| Header, `components/StatusHeader.tsx` | countdown, pulse of each counter | intervals and timeouts, effects | the hook |
| Preferences and layout, `lib/prefs.ts`, `hooks/usePrefs.ts`, `SplitPane.tsx`, `PreferencesPopover.tsx`, `OnboardingCard.tsx` | preferences, width, tip, popover, drag | load and save, pointer and key handlers | localStorage |
| Diff viewer, version, theme, static files, build | view state only | | |

What is hard about it, and what would make each part correct:

* **Engine.** Two workers, the evictor, Reset and Close meet on one mutex, and
  the counters and the channel are kept beside the maps they describe. Correct:
  no event is lost or reported twice without being counted, two events that
  could be compared are, the counter equals the buffer, nothing is sent on the
  closed channel, Close returns, and every event leaves.
* **Hub.** A send channel may be closed from four places, the counter changes
  outside the mutex, and connections arrive while the hub goes away. Correct: no
  second close and no send after one, no client skips a result, the counter
  follows the registry, every connection unwinds.
* **SSE client and parser.** Upstreams that fail, hang or cut a line in two;
  cancellation in any state. Correct: frames are exactly the blocks of the body,
  the backoff follows the failures, a cancelled worker returns, one that was not
  told to stop goes on.
* **Session controller.** Requests queue on a mutex held over a wait of up to
  five seconds; workers may outlive it. Correct: events of two sessions never
  meet, no worker runs unseen, every request ends.
* **Shutdown.** Four steps with timeouts against everything above. Correct: the
  process exits, and closes the matcher on a quiet system.
* **Event stream hook.** Browser events arrive after the effect they belong to
  was cleaned up. Correct: one connection, honest status, newest results kept.
* **Dashboard.** Two kinds of request with answers in any order, and a status
  that also depends on the WebSocket. Correct: the badge tells the truth, the
  form can be reached and a failure is seen.
* **Ledger and header.** What they show is derived from a state that changes in
  batches, by effects that run after the page is painted, timers that a cleanup
  cancels, and handlers of an earlier render. Correct: nothing the user should
  know of is left out, and nothing stays on the screen that is over.
* **Preferences and layout.** Storage may be absent, full, denied, corrupt or
  shared; a drag's moves are rendered later than they happen. Correct: a reload
  brings the page back as it was.

## 2. Modules

| Module | Models | Extends |
|---|---|---|
| `EventPairing` | what the engine promises of events, with no locks, clocks or channels | |
| `StreamMatcher` | the engine; implements `EventPairing` | |
| `Hub` | hub, connections, pumps | |
| `Session` | controller, workers, a one-key view of matcher and results | |
| `Server` | main's shutdown over handlers, workers, matcher and hub loop | `Session` |
| `Backoff` | the reference definition of a delay that doubles | |
| `Selection` | the members of a sequence that are in a set, in order | |
| `StreamParser`, `SseClient` | one upstream worker | `SseClient` extends `StreamParser`, `Backoff`; `StreamParser` extends `Selection` |
| `EventStream` | the WebSocket hook in the browser | `Backoff` |
| `LiveFeedback` | time, countdown, counters and announcements over the hook | `EventStream`, `Selection` |
| `Ledger` | the ledger's filter, scroll position and new-row pill | |
| `Layout` | preferences, divider, popover and tip against localStorage | |
| `RequestRules` | what a start request must look like, to the page and to the backend | |
| `Dashboard` | the page's session control against the controller | `RequestRules` |

| Proofs | About | Uses |
|---|---|---|
| `EventPairingProofs` | `EventPairing` | |
| `StreamMatcherProofs` | `StreamMatcher`, and that it implements `EventPairing` | an instance of `EventPairingProofs` |
| `HubProofs` | `Hub` | |
| `ServerProofs` | `Session`, then `Server` over it | |
| `SseClientProofs` | `SseClient` and `StreamParser` | `DataProofs` |
| `EventStreamProofs` | `EventStream`, then `LiveFeedback` over it | `DataProofs` |
| `PageProofs` | `Dashboard`, `Ledger` and `Layout` | |
| `DataProofs` | `Backoff` and `Selection`: lemmas only | |

`MC*.tla` only give values and symmetry. An operator whose comment says what the
code *would* do is a variant of the definition after it, a plausible mistake that
a property has to notice; no action uses it.

### How the modules correspond to the code

`StreamMatcher`. One action per critical section. `IngestMatch` and
`IngestBuffer` are the two branches of Ingest, taken whole under the mutex; the
evictor takes the mutex (`EvictLock`), removes one item per step in any order (Go
iterates maps in any order) and releases it (`EvictUnlock`), the cutoff fixed by
the tick it received, which may be older than now; `EvictorTick` and
`EvictorStop` are the two cases of its select. Close is three steps, the flag and
channel last. A publish to a full channel drops the result and counts it. Frames
are model values; `IdAt` says what a path extracts from one, and the results carry
the comparison of the trimmed payloads. Time is a counter that advances freely;
`TTL` and `TickInterval` are in its units.

`Hub`. Every method under the hub's mutex is one step, broadcast's later
decrements of wsCount separate ones (`Uncount`). A connection goes through
ServeWS's check, the upgrade, registration, its two pumps and the unwinding of
serve. A write takes a queued result and may fail; the read pump ends when the
peer or the context does. `RequestContextDone` is net/http cancelling the
request's context when the handler has returned (external).

`Session`. A request holds the mutex from `Acquire` to its end; between, it
cancels and waits (`WaitDrained`, `WaitTimesOut`), resets, builds (which may fail)
and spawns. A worker is running or has exited, ingests until it does, and after
its cancellation for as long as the network lets it. The matcher is one key wide:
whose event waits on which side, and between which sessions pairs were made.

`Server`. main is one more process: `Signal` (or `ListenFails`), `HttpDrained` or
`HttpTimesOut`, then `Stop` as a request of its own, Close, the hub's cancel and
the wait. The engine's own Close is one step here; module `StreamMatcher` shows
what it does inside.

`StreamParser` and `SseClient`. A line is the case it takes in the scan loop;
`TornEnd` is the last, cut line that bufio.Scanner still delivers. `ConnectEnds`
and `ReadEnds` are the ways streamOnce can end, and Run judges them in the order
of its switch. The jitter of ±20 % changes no order of events and is left out.

`EventStream`. Sockets are slots that are reused; handlers of an effect that was
cleaned up are silenced by its `mounted` flag. `StrictModeRemount` is the cleanup
and second run of the effect in a development build, before any browser event.

`LiveFeedback`. The hook's state is rendered at once whenever React gets to it
(`Render`), with the effects of `useReconnectLabel`, `CounterCell` and
`useThrottledAnomalyAnnounce`, each guarded by what it depends on: the countdown's
interval depends on the status and on the instant of the reconnect, so one
schedule that replaces another between two renders restarts it (`SameSchedule`).
Time is relative: `due` is what is left until the reconnect, `shown.due` what is
left until the one rendered last, `lag` the age of the clock the countdown read
last. `Tick` waits for renders, intervals and pulses, which
take less than a unit of time, but not for the reconnect timer, which may be late.

`Ledger`. A batch is committed (`CommitBatch`) and the effect runs later
(`Effect`); a click is rendered at once, ahead of results that wait. Positions are
rows. The list may or may not keep its rows in place when the ring drops some
above them (scroll anchoring, external). `pill` is what the last render showed and
what the scroll handler of that render tests, `pendingNew` what was set since.

`Layout`. The three keys of localStorage, what the page has of them in React's
state, and the width it rendered last. `MouseDown` is pointerdown and mousedown
together, so a press on the divider also closes the popover. Widths on the page
are in half pixels and are rounded when saved. A reload is a new `LayoutInit` over
the storage as it is.

`RequestRules`. A URL, a set of headers or a path is one of the cases that a
validator tells apart, or that one of the libraries it calls does: `onlyWebParses`
and `onlyGoParses` are what one URL parser takes and the other refuses,
`blankToWeb` and `blankToGo` what only one trim makes blank. The operators say
which cases each validator refuses. What a resolver answers is a choice
(external).

`Dashboard`. Requests are numbered, and a start carries the form it was sent
with, whose fate is decided by the rules; the controller answers a request in
one step and the page sees the answer later, in any order, or never. Two history
variables remember the last request that decided whether there is a session
(`touched`: one that the rules refused does not) and the last such request whose
answer the page saw (`told`). Effects are part of the step that changes the state
they depend on.

## 3. Runs

| Run | Question | Bounds and why they are enough |
|---|---|---|
| `matcher_safety` | counters, sides, channel, eviction and refinement of `EventPairing` | one type, two identifiers, two frames, two paths, three events, channel of one: three events fill the channel, pair across a reset, and overwrite one another |
| `matcher_liveness` | Close returns, events age out | one key, two events, ticks of 1 over 3 instants |
| `hub` | panics, gaps, the counter; connections unwind after a stop or a drop | two clients, buffers of one, three results: one client overflows while the other does not |
| `hub_request_context` | *violated*: pumps are cancelled only for the documented reasons | one result |
| `server` | pairs and results stay in the order of sessions, no stray worker, requests end though a worker hangs, the process exits, Close finds a quiet system | two handlers besides main, two sessions, four events: a session replaced and stopped while the process goes down, with a pair on either side of the border and one across it possible |
| `server_drain` | *violated*: results are drained before exit | one session, one pair |
| `sse` | frames are blocks; backoff follows failures; a cancelled worker returns, a failed one retries | bodies of four lines of every kind: two frames, or one of three lines; six failures pass the cap of 30 s |
| `sse_timeout` | *violated*: Run returns only when told to | bodies of one line |
| `event_stream` | one connection, honest status, backoff, ring, reconnects; honest countdown, pulses that end, announcements | ring of three, five results, so that it overflows; three closes reach the cap of four; two units to a second, two announcements a second |
| `ledger` | the pill never counts too few rows | ring of three, five results in batches of up to two, a view of one row, a cap of two: the ring overflows, the list scrolls, the cap is passed |
| `layout` | a reload restores the page; the settings button toggles | widths of two to four pixels, keys of one, a handle of half a pixel; storage absent, half a blob, garbage or out of range, working, full or denied |
| `dashboard` | truthful badge, reachable form, failures shown | four requests: start, stop, an overtaking start and one more; a form for each way a start may go |

Every bound is a CONSTANT named `Max...` or `Horizon`, and appears in a guard of
the environment's actions only (events, results, requests, lines), never in one
of the program's own waits, so no liveness property holds because of it.
`CHECK_DEADLOCK FALSE` is given where the system may stop: a worker returned, a
hub done, all requests handled, a process exited.

### What the violated runs show

1. `hub_request_context` — serve runs on the request's context
   (`be/api/hub.go:112`), which net/http cancels as soon as ServeWS returns, since
   the goroutine does not hold the handler; the client is disconnected.
2. `server_drain` — the hub's context is cancelled right after Close
   (`cmd/server/main.go:271`), and a select with two ready cases picks either.
3. `sse_timeout` — net's dial timeout and net/http's response-header timeout
   satisfy `errors.Is(err, context.DeadlineExceeded)`, so Run returns nil
   (`be/stream/client.go:133`) and the stream is never tried again. Relatedly, a
   closed matcher is noticed only at the next frame.

### Conditions that are needed

Some properties that hold carry a condition the code does not remove:

* `EventPairing` has a fate "superseded": a repeated event of one stream replaces
  the one that waits (`be/engine/matcher.go:264`), and the first is never reported.
* `ActiveClientsCounted` is about a hub that runs. The drain at shutdown does not
  decrement wsCount (`be/api/hub.go:170`).
* `PairsWithinSession` and `QuietClose` except waits that were cut short. After
  the controller's five seconds a worker may still ingest, into the next session
  or up to the matcher's Close; after Shutdown's ten a start request may still
  open a session once Stop has returned.
* `ResultsInSessionOrder` lets results of the old session be broadcast in the new
  one, before the new one's own: Reset leaves the results channel alone
  (`be/api/session.go:103`).
* `BadgeTruthful` is about the times when the last request that decided whether
  there is a session is also the last of those the page saw answered. Until an
  answer arrives the badge is out of date, and it stays so when the answer is lost
  or when two come back in the other order than they were handled: the WebSocket
  closes while a stop is awaited, which enables Start; if the start is answered
  first, the stop's answer then shows Stopped, with Terminate disabled, over a
  running session (`fe/components/ConfigBar.tsx:172`). What is shown is that the
  next answered request puts the badge right again, whichever are under way.
* `StartFailureShown` is about starts. The failure of a stop may be hidden by the
  collapse, and its banner stays over a later stop that succeeds.
* `CountdownHonest` gives a countdown its first second. Until then it may promise
  too much, by the age of the clock it reads: the time since the last countdown
  ended, or since the page was loaded (`fe/components/StatusHeader.tsx:97`). One
  that replaces another, when a reconnect fails before React renders, starts the
  interval and this second again (`:104`).
* `PulseEnds` excepts a count that drops to zero in the middle of its pulse, when
  the ring loses the only result of its kind: the cleanup cancels the timer and no
  new one is armed (`fe/components/StatusHeader.tsx:136`).
* `AnomaliesAnnounced` and `PillNeverShort` end with the ring's growth. Once it
  holds its 2000 results its length stays the same; nothing is announced any more,
  and a row that replaces another of the list is not counted
  (`fe/components/EventLedger.tsx:73`, `:138`). Of a batch only the last result is
  announced. (The list also shows the newest row last, where the comment at line
  111 says on top.)
* `ReloadKeepsLayout` excepts a drag whose last move was not rendered when the
  pointer went up, whose width is not saved (`fe/components/SplitPane.tsx:63`), and
  one the browser cancelled, which nothing ends: the divider then follows a pointer
  that is not pressed, until the next press.

### Fairness

* `StreamMatcher`: the evictor and Close take their steps and the clock goes on.
  Goroutines are scheduled and the ticker ticks. Nothing is asked of the hub, which
  may leave results in the channel (`server_drain` shows it). Only `EvictorStop` is strongly fair: ticks keep
  arriving, and a Go select picks among its ready cases at random, so it cannot
  pass over the stop signal for ever. Nobody has to call Ingest or Close.
* `Hub`: Run, and each goroutine of a connection that is not waiting for the
  peer, keep running; writes have a deadline. The peer owes nothing.
* `Server`, of sessions: handlers keep running, and their wait for workers is bounded by the
  safety timeout. Workers owe nothing: one may hang for ever.
* `Server`, of the shutdown: main and the hub's loop.
* `SseClient`: Run's own steps, and net/http aborting a request whose context is
  done. The upstream owes nothing.
* `LiveFeedback`: time passes, timers and intervals fire, React renders.

## 4. Proofs

Every invariant and every action property that a passing run checks is a
theorem of TLAPS as well, for every value of the constants that the named
assumptions admit; so are the refinements of `EventPairing` by `StreamMatcher` and
of `EventStream` by `LiveFeedback`. Each rests on an inductive invariant: it holds
initially, every step keeps it (one lemma per action, or group of actions that
disturb the same parts), and it implies the property.

### The correlation engine

`StreamMatcherProofs` has two layers.

* `IInv` = `TypeOK`, `BufferCounted`, `OneSideWaits`, `ResultsAccounted`,
  `CloseOrder`, `NoSendOnClosed`. None of the parts is inductive alone: a removal
  keeps the counter a natural number only because the counter is exact; the
  evictor may send only because the flag and the channel change together, after
  the evictor has gone (`CloseOrder`); an insertion keeps the sides apart only
  because the lookup found the other side empty under the same mutex. The
  exactness of the counter needs that the buffer is finite (`PlacesFinite`) and
  how its cardinality changes with one place (`OneMore` and the lemmas around it).
* `HistoryInv`, on top of it, is about events that are gone: their stamps are below
  the number of events accepted (`Numbered`), a sweep and its orphans use an
  instant of the past (`Clocked`), and no counterpart came while an item waited
  (`NoneCame`). With these, `NoMissedPair` is inductive: a counterpart that comes
  after an orphan was reported comes at an instant no earlier than the sweep's.

`MatcherImplementsPairing` maps the buffer to `pending`, and the results offered
to `paired` and `aged`. `IngestMatch` and `IngestBuffer` are `Pair` and `Wait` (or
the replacement that supersedes), an eviction is `Age`, a Reset is `Forget`, and
everything else stutters. `HistoryInv` is needed for it: only because stamps are
fresh does an arriving event have no fate yet.

`EventPairingProofs` shows of the abstract specification, for any keys and
stamps, that the fates of an event exclude one another, that a place holds one
event and never both sides of a key, and that pairs are one event of each stream.
`EventsKeepPromises` carries this over to the matcher, through an instance of that
module under the refinement mapping.

### The hub

`HubProofs`. Four goroutines may close one send channel, yet each closes it in the
same critical section that takes its client off the registry. So a registered
client's channel is open, and one that has yet to register has a fresh channel
(`Registry`): that is why none is closed twice, and why `GapFree` survives a late
registration, whose stream is empty. `RunOrder` says that something is owed to
the counter exactly while broadcast is between its drops and its decrements.

### The controller and the process

`ServerProofs`. `SessionInv` is mutual exclusion (`MutexHeld`: who stands inside
Start or Stop holds the mutex; what it waits for was cancelled; from the end of
its wait until it spawns there is no active session) and what each place of the
holder implies for the workers and for the buffer (`BufferOrigin`: a waiting event
is of the last session or of one that was given up on, and past the Reset only the
latter). `PairsWithinSession` and `ResultsInSessionOrder` follow, since a pair
joins an event that waits and one of a worker that runs.

`ServerInv` adds main's place in the shutdown: its own request (`MainRequest`), and
that, if Shutdown saw the last request out, no other calls the controller
afterwards (`OnlyMain`). With that, `QuietClose`.

### The upstream worker

`SseClientProofs`. The parser sees a body one line at a time; `FramesAreBlocks`
speaks of the whole body by its blank lines. `FrameInv` joins them: while a body is
read, the frame being put together holds the values since the last blank line
(`Holds`), and what was dispatched are the blocks so far. The lemmas restate
blocks with the body as a parameter and show what one more line does to them.
`ParserInv` also has that the flag parseStream returns agrees with the history,
which makes the wait of the next round the right one (`BackoffInv`).

### The page

`EventStreamProofs`. A mounted hook is either `Connected` (one live socket, the one
its reference names, no timer) or `Waiting` (one timer, the one its reference
names, no live socket). `OneEffect` keeps the sockets of the effect that StrictMode
cleaned up out of it: they are all closing, and its flag silences them.
`LiveFeedback` implements `EventStream`, step by step, so its theorems hold there
too. Then: a countdown has an interval, and until the interval first fires the
countdown is as old as the interval, later "now" is (`CountdownInv`); a pulse has
its timer unless its count is zero (`PulseInv`); what the hook keeps of its
announcements, pruned, is those of the last second (`AnnounceInv`).

`PageProofs`. *Dashboard*: a form is folded, or about to be, only while the session
is live (`FoldedWhenLive`); the requests that the page awaits are of the
kind it takes them for (`Awaited`); whether there is a session follows from the
last request that decided it (`ActiveAsTouched`), and what the badge says from the
last of those that the page saw answered (`BadgeAsTold`): where the two are one, the
badge is right. *Ledger*: an effect that is due will add what the pill lacks
(`EffectMakesUp`), since a list that lost no row is longer by exactly the rows that
came, whatever the filter: rows of two sequences add up (`RowsConcat`). *Layout*: a
load from the storage as it is gives what the page has (`PrefsSaved`, `TipSaved`,
`WidthSaved`), and while the settings button is pressed the popover is as it was
at the press, or as Esc or a key left it since (`ButtonRemembers`).

### Assumptions and induction

The assumptions are the ones named in the modules, and TLC evaluates each of
them on a run: finite sets of types, identifiers, connections and handlers,
positive capacities, times in the naturals. Four are more than types:

* `StreamAssumption` and `ClientAssumption`: the number at which the history of
  failures stops counting lies beyond the one at which the delay reaches its
  maximum, so the bound of the history changes no delay.
* `ParserAssumption`: the empty and the torn value and the default event type are
  none of the alphabet's.
* `LayoutAssumption`: an absent or garbled entry is no width, no flag and no
  preferences; a stored blob has some of the two fields, with Boolean values (what
  loadPreferences makes of any other value is that of a field left out).

The library's induction theorems take an operator, which the provers cannot
instantiate. `DataProofs` does without: a set of naturals that is not empty has a
least member, since the order is well-founded, and a least counterexample has a
predecessor that is none. In this way it shows that the recursive functions of
`Backoff` and `Selection` are functions at all, what they are at zero and at a
successor, and that a delay that reached its maximum stays there.

### Only model-checked

* Liveness, which is out of the prover's reach: `AgedOut`, `CloseCompletes`,
  `StopReleasesAll`, `DroppedUnwinds`, `RequestsFinish`, `ShutdownCompletes`,
  `CancelledReturns`, `RetriesUntilStopped`, `Reconnects`.
* The three violated runs, whose counterexamples need no proof.

## 5. Not modelled

* A comparison of the page's rules for a start with the backend's. The page says it
  mirrors them (`fe/lib/validation.ts:2`); `RequestRules` writes both down, and they
  differ. Accepted by the page and refused by the backend: reserved, too many, too
  large or multi-line headers, a body above the limit (also by a long correlation
  path), a URL of more than 2 KiB in bytes though not in UTF-16 units, an empty
  userinfo, no host, a bad percent escape, a control character or a backslash, and
  a path that is blank to Go only. Refused by the page alone: a port above 65535, an
  IPv4 literal out of range, a `<` in the host, and a path that is blank to the
  browser only. A request of the first kind is refused before it touches a session,
  and `StartFailureShown` says that the form tells it.

* `Stats`, `ActiveID`, the health and stats routes: they read. A non-atomic
  snapshot is planned.
* The status codes of the answers: the page only asks whether a request
  succeeded. `writeStartError` promises a 4xx for a body that is no JSON
  (`be/api/routes.go:110`), yet a body cut short decodes to `io.ErrUnexpectedEOF`,
  which `isJSONError` does not know, and is answered with 500. The page sends whole
  bodies.
* Address ranges, ports and TLS settings: constants.
* Row selection and row keys of the ledger, and the diff viewer: it draws the
  selected result, and keeps nothing but a hint of a second and a half after a
  copy, which may outlive a change of the selection
  (`fe/components/DiffViewer.tsx:136`).
* `ErrorBoundary`, `useServerVersion` (one fetch, whose result is a label), fields,
  buttons and the theme: rendering.
* Configuration from the environment, static files, Docker, Make.
* Several pages, and reloading one: `Dashboard` has one page. A second page would
  refute `BadgeTruthful` at once; the code makes no attempt at it.

## 6. Plan

Done: the modules, in the order of `EventPairing`, `StreamMatcher`, `Hub`,
`Session`, `Server`, `StreamParser`, `SseClient`, `EventStream`, `RequestRules`,
`Dashboard`, `LiveFeedback`, `Ledger`, `Layout`; then the proofs of every invariant,
action property and refinement.

Next:

1. `StatsSnapshot`: the four reads of Stats and of the stats handler against
   Ingest, with what a reader may conclude from them as theorems.
2. Row keys: whether two orphans of one sweep, with one id and two event types,
   are told apart by `makeKey`.
3. That `Session`'s one-key view of the matcher is what `StreamMatcher` does for one
   key, as a refinement.
