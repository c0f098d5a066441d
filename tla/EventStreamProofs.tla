------------------------- MODULE EventStreamProofs -------------------------
(***************************************************************************)
(* Proofs about EventStream, and about LiveFeedback over it, for every       *)
(* backoff, ring size, number of sockets and of results.                    *)
(*                                                                          *)
(* A mounted hook is in one of two phases: it has a live socket, the one its *)
(* reference names, or it waits for one timer. Sockets of an effect that was *)
(* cleaned up may linger, but every one of them is closing, and the flag of *)
(* its effect silences it: that is what keeps the phases apart when          *)
(* StrictMode runs the effect twice.                                         *)
(***************************************************************************)
EXTENDS LiveFeedback, DataProofs, FiniteSetTheorems

Timers == [slot : Slots, effect : Effects, base : Nat]

Typed ==
    /\ mounted \in [Effects -> BOOLEAN]
    /\ socket \in [Slots -> {"none", "connecting", "open", "closing"}]
    /\ owner \in [Slots -> Effects]
    /\ timers \subseteq Timers
    /\ wsRef \in Slots \cup {0} /\ timerRef \in Slots \cup {0}
    /\ backoffRef \in Nat /\ status \in {"connecting", "open", "closed"}
    /\ countdown \in BOOLEAN
    /\ received \in Nat /\ closes \in 0..MaxCloses

(* Whose callbacks are heard: those of the effect that runs now. Only its    *)
(* sockets are live, and no socket it asked to close is heard.               *)
OneEffect ==
    /\ ~(mounted[1] /\ mounted[2])
    /\ mounted[1] => \A s \in Slots : owner[s] = 1
    /\ \A t \in timers : mounted[t.effect]
    /\ \A s \in Slots : Live(s) => mounted[owner[s]]
    /\ \A s \in Slots : socket[s] = "closing" => ~mounted[owner[s]]

NoneLive == \A s \in Slots : ~Live(s)

(* There is a live socket, the one the reference names, and no timer. *)
Connected ==
    /\ timers = {} /\ wsRef \in Slots /\ Live(wsRef)
    /\ \A s \in Slots : Live(s) => s = wsRef
    /\ countdown = FALSE /\ status = socket[wsRef]

(* There is one timer, the one the reference names, and no live socket. *)
Waiting ==
    /\ NoneLive /\ countdown = TRUE /\ status = "closed"
    /\ \E t \in timers : timers = {t} /\ t.slot = timerRef

Phase == IF Mounted THEN Connected \/ Waiting ELSE NoneLive /\ timers = {}

StreamInv == Typed /\ OneEffect /\ Phase /\ HistoryIsNewest

(* The delay the next timer will have, and that of the armed one. *)
BackoffInv ==
    /\ Mounted /\ timers = {} => backoffRef = BackoffAfter(closes)
    /\ \A t \in timers : closes > 0 /\ t.base = BackoffAfter(closes - 1)

(* A countdown has an interval, each its own. Until it fires for the first    *)
(* time, the countdown is as old as the interval; afterwards "now" is.        *)
CountdownInv ==
    /\ due \in Int /\ lag \in Nat /\ waited \in Nat /\ beat \in Nat \cup {NoBeat}
    /\ Mounted => (beat # NoBeat <=> Retrying)
    /\ beat # NoBeat => beat <= TICKS /\ (waited + beat = TICKS \/ lag + beat = TICKS)

(* What the hook keeps of its announcements gives, whenever it prunes it, the *)
(* announcements of the last second; and the ledger knows how long the list   *)
(* is that it shows.                                                          *)
AnnounceInv ==
    /\ recent \in Seq(Nat) /\ utterances \in Seq(Nat)
    /\ utterances = Chosen(recent, WithinWindow)
    /\ Len(utterances) <= MAX_ANNOUNCEMENTS_PER_SEC
    /\ Len(shown.history) \in Nat
    /\ Mounted => prevLen = Len(shown.history)

-----------------------------------------------------------------------------

(* The ring *)

Newest(n) == [i \in 1..AtMost(MAX_HISTORY, n) |-> n - AtMost(MAX_HISTORY, n) + i]

LEMMA NewestIsSeq ==
  ASSUME NEW n \in Nat
  PROVE  /\ Newest(n) \in Seq(Int) /\ Len(Newest(n)) = AtMost(MAX_HISTORY, n)
         /\ \A i \in 1..AtMost(MAX_HISTORY, n) :
              Newest(n)[i] = n - AtMost(MAX_HISTORY, n) + i
<1> DEFINE m == AtMost(MAX_HISTORY, n)
<1>1. m \in Nat
  BY StreamAssumption DEF AtMost
<1>2. Newest(n) \in [1..m -> Int]
  BY <1>1 DEF Newest
<1>3. Newest(n) \in Seq(Int)
  BY <1>1, <1>2, SeqDef
<1>4. DOMAIN Newest(n) = 1..m /\ DOMAIN Newest(n) = 1..Len(Newest(n))
      /\ Len(Newest(n)) \in Nat
  BY <1>2, <1>3, LenProperties
<1>5. \A i \in 1..m : Newest(n)[i] = n - m + i
  BY DEF Newest
<1>6. QED
  BY <1>1, <1>3, <1>4, <1>5

(* Adding result n + 1 to the newest of the first n gives the newest of the *)
(* first n + 1.                                                              *)
LEMMA RingKeepsNewest ==
  ASSUME NEW n \in Nat
  PROVE  Ring(Newest(n), n + 1) = Newest(n + 1)
<1> DEFINE h == Newest(n)
           m == AtMost(MAX_HISTORY, n)
           k == AtMost(MAX_HISTORY, n + 1)
           q == IF Len(h) >= MAX_HISTORY
                THEN SubSeq(h, Len(h) - MAX_HISTORY + 2, Len(h)) ELSE h
           r == Append(q, n + 1)
<1>1. h \in Seq(Int) /\ Len(h) = m /\ \A i \in 1..m : h[i] = n - m + i
  BY NewestIsSeq
<1>2. m \in Nat /\ k \in Nat /\ MAX_HISTORY \in Nat \ {0}
  BY StreamAssumption DEF AtMost
<1>3. Newest(n + 1) \in Seq(Int) /\ Len(Newest(n + 1)) = k
  BY NewestIsSeq
<1>4. \A i \in 1..k : Newest(n + 1)[i] = n + 1 - k + i
  BY NewestIsSeq
<1> HIDE DEF h
<1>5. q \in Seq(Int) /\ Len(q) = k - 1 /\ \A i \in 1..Len(q) : q[i] = n + 1 - k + i
  <2>1. CASE n < MAX_HISTORY
    <3>1. m = n /\ k = n + 1 /\ q = h
      BY <1>1, <1>2, <2>1 DEF AtMost
    <3>2. QED
      BY <1>1, <1>2, <3>1
  <2>2. CASE n >= MAX_HISTORY
    <3>1. m = MAX_HISTORY /\ k = MAX_HISTORY
      BY <1>2, <2>2 DEF AtMost
    <3>2. q = SubSeq(h, 2, m)
      BY <1>1, <1>2, <3>1
    <3> HIDE DEF m, k, q
    <3>3. 2 \in Int /\ m \in Int /\ \A i \in 2..m : h[i] \in Int
      BY <1>1, <1>2
    <3>4. /\ SubSeq(h, 2, m) \in Seq(Int)
          /\ Len(SubSeq(h, 2, m)) = IF 2 <= m THEN m - 2 + 1 ELSE 0
          /\ \A i \in 1..(m - 2 + 1) : SubSeq(h, 2, m)[i] = h[2 + i - 1]
      BY <3>3, SubSeqProperties
    <3>5. Len(q) = m - 1
      BY <1>2, <3>1, <3>2, <3>4
    <3>6. ASSUME NEW i \in 1..Len(q)
          PROVE  q[i] = n + 1 - m + i
      <4>1. i \in 1..(m - 2 + 1) /\ 2 + i - 1 \in 1..m /\ i \in Nat
        BY <1>2, <3>5
      <4>2. q[i] = n - m + (2 + i - 1)
        BY <1>1, <3>2, <3>4, <4>1
      <4>3. QED
        BY <1>2, <4>1, <4>2
    <3>7. QED
      BY <3>1, <3>2, <3>4, <3>5, <3>6
  <2>3. QED
    BY <1>2, <2>1, <2>2
<1> HIDE DEF q, m, k
<1>6. /\ r \in Seq(Int) /\ Len(r) = Len(q) + 1
      /\ \A i \in 1..Len(q) : r[i] = q[i]
      /\ r[Len(q) + 1] = n + 1
  BY <1>5, AppendProperties
<1>7. Len(r) = k /\ Len(q) \in Nat
  <2>1. Len(q) \in Nat
    BY <1>5, LenProperties
  <2>2. QED
    BY <1>2, <1>5, <1>6, <2>1
<1>8. \A i \in 1..Len(r) : r[i] = Newest(n + 1)[i]
  BY <1>4, <1>5, <1>6, <1>7
<1>9. r = Newest(n + 1)
  BY <1>3, <1>6, <1>7, <1>8, SeqEqual
<1>10. QED
  BY <1>9 DEF Ring, q, h

-----------------------------------------------------------------------------
(* The callbacks *)

LEMMA LiveIsHeard ==
  ASSUME StreamInv, NEW s \in Slots
  PROVE  /\ Live(s) => Heard(s) /\ Mounted
         /\ socket[s] # "none" /\ Heard(s) => Live(s)
         /\ Live(s) => Connected /\ s = wsRef
<1>1. owner[s] \in Effects
  BY DEF StreamInv, Typed
<1>2. socket[s] \in {"none", "connecting", "open", "closing"}
  BY DEF StreamInv, Typed
<1>3. QED
  BY <1>1, <1>2 DEF StreamInv, OneEffect, Live, Heard, Mounted, Phase, Waiting, Connected,
                    NoneLive

LEMMA OnOpenPreserves ==
  ASSUME StreamInv, NEW s \in Slots, OnOpen(s)
  PROVE  StreamInv'
<1> USE DEF StreamInv
<1>1. /\ socket[s] = "connecting" /\ socket' = [socket EXCEPT ![s] = "open"]
      /\ UNCHANGED <<mounted, owner, timers, wsRef, timerRef, history, received>>
  BY DEF OnOpen, refs, view
<1>2. Live(s)
  BY <1>1 DEF Live
<1>3. Connected /\ s = wsRef /\ Heard(s) /\ Mounted
  BY <1>2, LiveIsHeard
<1>4. backoffRef' = BACKOFF_INITIAL /\ countdown' = FALSE /\ status' = "open" /\ closes' = 0
  BY <1>3 DEF OnOpen
<1>5. Typed'
  <2>1. socket' \in [Slots -> {"none", "connecting", "open", "closing"}]
    BY <1>1 DEF Typed
  <2>2. closes' \in 0..MaxCloses /\ backoffRef' \in Nat
    BY <1>4, StreamAssumption
  <2>3. QED
    BY <1>1, <1>4, <2>1, <2>2 DEF Typed
<1>6. \A q \in Slots : Live(q)' <=> Live(q)
  BY <1>1, <1>2 DEF Live, Typed
<1>7. OneEffect'
  BY <1>1, <1>6 DEF OneEffect, Typed
<1>8. Connected'
  BY <1>1, <1>3, <1>4, <1>6 DEF Connected, Typed
<1>9. Phase'
  BY <1>1, <1>3, <1>8 DEF Phase, Mounted
<1>10. QED
  BY <1>1, <1>5, <1>7, <1>9 DEF HistoryIsNewest

LEMMA OnMessagePreserves ==
  ASSUME StreamInv, NEW s \in Slots, OnMessage(s)
  PROVE  StreamInv'
<1> USE DEF StreamInv
<1>1. /\ received' = received + 1 /\ history' = Ring(history, received + 1)
      /\ UNCHANGED <<mounted, socket, owner, timers, wsRef, timerRef, backoffRef, status,
                     countdown, closes>>
  BY DEF OnMessage, refs
<1>2. history = Newest(received)
  BY DEF HistoryIsNewest, Newest
<1>3. history' = Newest(received')
  BY <1>1, <1>2, RingKeepsNewest DEF Typed
<1>4. HistoryIsNewest'
  BY <1>3 DEF HistoryIsNewest, Newest
<1>5. Typed'
  BY <1>1 DEF Typed
<1>6. OneEffect' /\ Phase'
  BY <1>1 DEF OneEffect, Phase, Mounted, Connected, Waiting, NoneLive, Live
<1>7. QED
  BY <1>4, <1>5, <1>6

LEMMA OnClosePreserves ==
  ASSUME StreamInv, NEW s \in Slots, OnClose(s)
  PROVE  StreamInv'
<1> USE DEF StreamInv
<1>1. /\ socket[s] # "none" /\ socket' = [socket EXCEPT ![s] = "none"]
      /\ UNCHANGED <<mounted, owner, wsRef, backoffRef, history, received>>
  BY DEF OnClose, view
<1>2. \A q \in Slots : Live(q)' <=> Live(q) /\ q # s
  BY <1>1 DEF Live, Typed
<1>3. HistoryIsNewest'
  BY <1>1 DEF HistoryIsNewest
<1>4. CASE Heard(s)
  <2> DEFINE t == [slot |-> s, effect |-> owner[s], base |-> backoffRef]
  <2>1. /\ status' = "closed" /\ timers' = timers \cup {t} /\ timerRef' = s
        /\ countdown' = TRUE /\ closes' = AtMost(MaxCloses, closes + 1)
    BY <1>4 DEF OnClose, Schedule
  <2>2. Connected /\ s = wsRef /\ Mounted
    BY <1>1, <1>4, LiveIsHeard
  <2>3. timers' = {t} /\ t \in Timers
    BY <2>1, <2>2 DEF Connected, Timers, Typed
  <2>4. closes' \in 0..MaxCloses
    BY <2>1, StreamAssumption DEF AtMost, Typed
  <2>5. Typed'
    <3>1. socket' \in [Slots -> {"none", "connecting", "open", "closing"}]
      BY <1>1 DEF Typed
    <3>2. timers' \subseteq Timers
      BY <2>3
    <3>3. QED
      BY <1>1, <2>1, <2>4, <3>1, <3>2 DEF Typed
  <2>6. OneEffect'
    <3>1. \A u \in timers' : mounted'[u.effect]
      BY <1>1, <1>4, <2>3 DEF Heard
    <3>2. \A q \in Slots : socket'[q] = "closing" => socket[q] = "closing"
      BY <1>1 DEF Typed
    <3>3. QED
      BY <1>1, <1>2, <3>1, <3>2 DEF OneEffect
  <2>7. Waiting'
    <3>1. \A q \in Slots : ~Live(q)'
      BY <1>2, <2>2 DEF Connected
    <3>2. t \in timers' /\ t.slot = timerRef'
      BY <2>1, <2>3
    <3>3. QED
      BY <2>1, <2>3, <3>1, <3>2 DEF Waiting, NoneLive
  <2>8. QED
    BY <1>1, <1>3, <2>2, <2>5, <2>6, <2>7 DEF Phase, Mounted
<1>5. CASE ~Heard(s)
  <2>1. UNCHANGED <<status, timers, timerRef, countdown, closes>>
    BY <1>5 DEF OnClose
  <2>2. ~Live(s)
    BY <1>5, LiveIsHeard
  <2>3. \A q \in Slots : Live(q)' <=> Live(q)
    BY <1>2, <2>2
  <2>4. Typed'
    BY <1>1, <2>1 DEF Typed
  <2>5. OneEffect'
    BY <1>1, <2>1, <2>3 DEF OneEffect, Typed
  <2>6. Connected => Connected'
    BY <1>1, <2>1, <2>2, <2>3 DEF Connected, Typed
  <2>7. Phase'
    BY <1>1, <2>1, <2>3, <2>6 DEF Phase, Mounted, Waiting, NoneLive
  <2>8. QED
    BY <1>3, <2>4, <2>5, <2>7
<1>6. QED
  BY <1>4, <1>5

-----------------------------------------------------------------------------
(* The timer, the cleanup and StrictMode *)

LEMMA TimerFiresPreserves ==
  ASSUME StreamInv, NEW t \in timers, TimerFires(t)
  PROVE  StreamInv' /\ Connected' /\ backoffRef' = Grown(t)
<1> USE DEF StreamInv
<1>1. Mounted /\ Waiting /\ timers = {t} /\ t \in Timers /\ mounted[t.effect]
  BY DEF Phase, Connected, Waiting, Typed, OneEffect
<1>2. /\ timers' = {} /\ backoffRef' = Grown(t) /\ countdown' = FALSE
      /\ UNCHANGED <<mounted, timerRef, history, received, closes>>
  BY <1>1 DEF TimerFires, CountdownAfter, view
<1>3. PICK s \in Slots : ConnectIn(s, t.effect)
  BY <1>1 DEF TimerFires
<1>4. /\ socket[s] = "none" /\ socket' = [socket EXCEPT ![s] = "connecting"]
      /\ owner' = [owner EXCEPT ![s] = t.effect] /\ wsRef' = s /\ status' = "connecting"
  BY <1>3 DEF ConnectIn, Free, Unused
<1>5. t.effect \in Effects /\ t.base \in Nat
  BY <1>1 DEF Timers
<1>6. Grown(t) \in Nat
  BY <1>5, StreamAssumption DEF Grown, AtMost
<1>7. Typed'
  <2>1. /\ socket' \in [Slots -> {"none", "connecting", "open", "closing"}]
        /\ owner' \in [Slots -> Effects]
    BY <1>4, <1>5 DEF Typed
  <2>2. QED
    BY <1>2, <1>4, <1>6, <2>1 DEF Typed
<1>8. \A q \in Slots : Live(q)' <=> q = s
  BY <1>1, <1>4 DEF Live, Typed, Waiting, NoneLive
<1>9. OneEffect'
  <2>1. mounted[1] => t.effect = 1
    BY <1>1, <1>5 DEF OneEffect, Effects
  <2>2. mounted'[1] => \A q \in Slots : owner'[q] = 1
    BY <1>2, <1>4, <2>1 DEF OneEffect, Typed
  <2>3. \A q \in Slots : Live(q)' => mounted'[owner'[q]]
    BY <1>1, <1>2, <1>4, <1>8 DEF Typed
  <2>4. \A q \in Slots : socket'[q] = "closing" => ~mounted'[owner'[q]]
    BY <1>2, <1>4 DEF OneEffect, Typed
  <2>5. QED
    BY <1>2, <2>2, <2>3, <2>4 DEF OneEffect
<1>10. Connected'
  BY <1>2, <1>4, <1>8 DEF Connected, Typed
<1>11. QED
  BY <1>1, <1>2, <1>7, <1>9, <1>10 DEF Phase, Mounted, HistoryIsNewest

(* Whatever the reference names is the only socket that could be live. *)
LEMMA ClosingLeavesNoneLive ==
  ASSUME StreamInv, Mounted
  PROVE  /\ Closing(wsRef) \in [Slots -> {"none", "connecting", "open", "closing"}]
         /\ \A s \in Slots : Closing(wsRef)[s] \notin {"connecting", "open"}
<1>1. \A s \in Slots : Live(s) => s = wsRef
  BY LiveIsHeard
<1>2. QED
  BY <1>1 DEF Closing, Live, StreamInv, Typed

LEMMA UnmountPreserves ==
  ASSUME StreamInv, NEW e \in Effects, Unmount(e)
  PROVE  StreamInv'
<1> USE DEF StreamInv
<1>1. /\ mounted[e] /\ mounted' = [mounted EXCEPT ![e] = FALSE]
      /\ timers' = {t \in timers : t.slot # timerRef} /\ socket' = Closing(wsRef)
      /\ wsRef' = 0 /\ timerRef' = 0
      /\ UNCHANGED <<owner, backoffRef, status, countdown, history, received, closes>>
  BY DEF Unmount, view
<1>2. Mounted
  BY <1>1 DEF Mounted
<1>3. timers' = {}
  BY <1>1, <1>2 DEF Phase, Connected, Waiting
<1>4. mounted' \in [Effects -> BOOLEAN] /\ \A d \in Effects : ~mounted'[d]
  BY <1>1 DEF Typed, OneEffect, Effects
<1>5. Typed'
  BY <1>1, <1>2, <1>3, <1>4, ClosingLeavesNoneLive DEF Typed
<1>6. \A s \in Slots : ~Live(s)'
  BY <1>1, <1>2, ClosingLeavesNoneLive DEF Live
<1>7. OneEffect'
  BY <1>3, <1>4, <1>5, <1>6 DEF OneEffect, Typed, Effects
<1>8. Phase'
  BY <1>3, <1>4, <1>6 DEF Phase, Mounted, NoneLive
<1>9. QED
  BY <1>1, <1>5, <1>7, <1>8 DEF HistoryIsNewest

LEMMA StrictModeRemountPreserves ==
  ASSUME StreamInv, StrictModeRemount
  PROVE  StreamInv'
<1> USE DEF StreamInv
<1>1. /\ mounted = [e \in Effects |-> e = 1] /\ mounted' = [e \in Effects |-> e = 2]
      /\ status = "connecting" /\ timers = {}
      /\ UNCHANGED <<timers, timerRef, backoffRef, status, countdown, history, received,
                     closes>>
  BY DEF StrictModeRemount, view
<1>2. PICK s \in Slots : /\ Free(s) /\ wsRef' = s
                         /\ socket' = [Closing(wsRef) EXCEPT ![s] = "connecting"]
                         /\ owner' = [owner EXCEPT ![s] = 2]
  BY DEF StrictModeRemount
<1>3. Mounted /\ mounted[1]
  BY <1>1 DEF Mounted, Effects
<1>4. Connected
  BY <1>1, <1>3 DEF Phase, Waiting
<1>5. ~mounted'[1] /\ mounted'[2] /\ mounted' \in [Effects -> BOOLEAN]
  <2>1. /\ 1 \in Effects /\ 2 \in Effects /\ 1 # 2
        /\ mounted'[1] = (1 = 2) /\ mounted'[2] = (2 = 2)
    BY <1>1 DEF Effects
  <2>2. mounted' \in [Effects -> BOOLEAN]
    BY <1>1
  <2>3. QED
    BY <2>1, <2>2, Zenon
<1>6. \A q \in Slots : Live(q)' <=> q = s
  BY <1>2, <1>3, ClosingLeavesNoneLive DEF Live
<1>7. Typed'
  <2>1. /\ socket' \in [Slots -> {"none", "connecting", "open", "closing"}]
        /\ owner' \in [Slots -> Effects]
    BY <1>2, <1>3, ClosingLeavesNoneLive DEF Typed, Effects
  <2>2. QED
    BY <1>1, <1>2, <1>5, <2>1 DEF Typed
<1>8. \A q \in Slots : owner'[q] = IF q = s THEN 2 ELSE 1
  BY <1>2, <1>3 DEF OneEffect, Typed
<1>9. socket'[s] = "connecting"
  BY <1>2, <1>3, ClosingLeavesNoneLive
<1>10. OneEffect'
  BY <1>1, <1>5, <1>6, <1>8, <1>9 DEF OneEffect
<1>11. Connected'
  BY <1>1, <1>2, <1>4, <1>6, <1>9 DEF Connected
<1>12. QED
  BY <1>1, <1>5, <1>7, <1>10, <1>11 DEF Phase, Mounted, Effects, HistoryIsNewest

-----------------------------------------------------------------------------
(* The invariant *)

LEMMA StreamInitially == Init => StreamInv
<1> SUFFICES ASSUME Init PROVE StreamInv
  OBVIOUS
<1> USE DEF Init
<1>1. 1 \in Slots /\ 1 \in Effects
  BY StreamAssumption DEF Slots, Effects
<1>2. Typed
  <2>1. /\ mounted \in [Effects -> BOOLEAN] /\ owner \in [Slots -> Effects]
        /\ socket \in [Slots -> {"none", "connecting", "open", "closing"}]
    BY <1>1
  <2>2. closes \in 0..MaxCloses /\ received \in Nat /\ backoffRef \in Nat
    BY StreamAssumption
  <2>3. QED
    BY <1>1, <2>1, <2>2 DEF Typed
<1>3. mounted[1] /\ ~mounted[2] /\ Mounted
  <2>1. /\ 1 \in Effects /\ 2 \in Effects /\ 1 # 2
        /\ mounted[1] = (1 = 1) /\ mounted[2] = (2 = 1)
    BY DEF Effects
  <2>2. QED
    BY <2>1, Zenon DEF Mounted
<1>4. \A s \in Slots : Live(s) <=> s = 1
  BY DEF Live
<1>5. OneEffect
  BY <1>3, <1>4 DEF OneEffect
<1>6. Connected
  BY <1>1, <1>4 DEF Connected
<1>7. HistoryIsNewest
  <2>1. AtMost(MAX_HISTORY, 0) = 0
    BY StreamAssumption DEF AtMost
  <2>2. Len(Newest(0)) = 0 /\ Newest(0) \in Seq(Int)
    BY <2>1, NewestIsSeq
  <2>3. Newest(0) = <<>>
    BY <2>2, EmptySeq
  <2>4. QED
    BY <2>3 DEF HistoryIsNewest, Newest
<1>8. QED
  BY <1>2, <1>3, <1>5, <1>6, <1>7 DEF StreamInv, Phase

LEMMA StreamInductive == StreamInv /\ [Next]_vars => StreamInv'
<1> SUFFICES ASSUME StreamInv, [Next]_vars PROVE StreamInv'
  OBVIOUS
<1>1. ASSUME NEW s \in Slots, OnOpen(s) PROVE StreamInv'
  BY <1>1, OnOpenPreserves
<1>2. ASSUME NEW s \in Slots, OnMessage(s) PROVE StreamInv'
  BY <1>2, OnMessagePreserves
<1>3. ASSUME NEW s \in Slots, OnClose(s) PROVE StreamInv'
  BY <1>3, OnClosePreserves
<1>4. CASE Reconnect
  BY <1>4, TimerFiresPreserves DEF Reconnect
<1>5. ASSUME NEW e \in Effects, Unmount(e) PROVE StreamInv'
  BY <1>5, UnmountPreserves
<1>6. CASE StrictModeRemount
  BY <1>6, StrictModeRemountPreserves
<1>7. CASE UNCHANGED vars
  BY <1>7 DEF vars, refs, view, StreamInv, Typed, OneEffect, Phase, Mounted, Connected,
              Waiting, NoneLive, Live, HistoryIsNewest
<1>8. QED
  BY <1>1, <1>2, <1>3, <1>4, <1>5, <1>6, <1>7 DEF Next

(* Type correctness, and what keeps the phases of the hook apart, in every    *)
(* behaviour of useEventStream's effect.                                      *)
THEOREM StreamInvariance == Spec => []StreamInv
<1>1. QED
  BY StreamInitially, StreamInductive, PTL DEF Spec

LEMMA OneConnection == StreamInv => SingleConnection
<1> SUFFICES ASSUME StreamInv PROVE SingleConnection
  OBVIOUS
<1> DEFINE live == {s \in Slots : Live(s)}
<1>1. CASE Mounted /\ Connected
  <2>1. live = {wsRef} /\ timers = {}
    BY <1>1 DEF Connected
  <2>2. Cardinality(live) = 1 /\ Cardinality(timers) = 0
    BY <2>1, FS_Singleton, FS_EmptySet, Zenon
  <2>3. QED
    BY <1>1, <2>1, <2>2 DEF SingleConnection
<1>2. CASE Mounted /\ Waiting
  <2>1. PICK t \in timers : timers = {t} /\ t.slot = timerRef
    BY <1>2 DEF Waiting
  <2>2. live = {}
    BY <1>2 DEF Waiting, NoneLive
  <2>3. Cardinality(live) = 0 /\ Cardinality(timers) = 1
    BY <2>1, <2>2, FS_Singleton, FS_EmptySet, Zenon
  <2>4. QED
    BY <1>2, <2>1, <2>2, <2>3 DEF SingleConnection
<1>3. CASE ~Mounted
  <2>1. live = {} /\ timers = {}
    BY <1>3 DEF StreamInv, Phase, NoneLive
  <2>2. Cardinality(live) = 0 /\ Cardinality(timers) = 0
    BY <2>1, FS_EmptySet, Zenon
  <2>3. QED
    BY <1>3, <2>1, <2>2 DEF SingleConnection
<1>4. QED
  BY <1>1, <1>2, <1>3 DEF StreamInv, Phase

(* However often the connection is lost, a timer fires late or StrictMode     *)
(* runs the effect again, a mounted hook has one live socket or one armed     *)
(* timer, the one its cleanup would find, and an unmounted hook has neither.  *)
THEOREM OnlyConnection == Spec => []SingleConnection
<1>1. QED
  BY StreamInvariance, OneConnection, PTL

LEMMA HonestStatus == StreamInv => StatusHonest
<1> SUFFICES ASSUME StreamInv, Mounted PROVE StatusHonest
  BY DEF StatusHonest
<1>1. CASE Connected
  <2>1. /\ timers = {} /\ countdown = FALSE /\ wsRef \in Slots /\ status = socket[wsRef]
        /\ socket[wsRef] \in {"connecting", "open"}
    BY <1>1 DEF Connected, Live
  <2>2. status = "open" => socket[wsRef] = "open" /\ mounted[owner[wsRef]]
    BY <2>1 DEF StreamInv, OneEffect, Live
  <2>3. \A s \in Slots : socket[s] = "open" => s = wsRef
    BY <1>1 DEF Connected, Live
  <2>4. (status = "open") <=> (\E s \in Slots : socket[s] = "open" /\ mounted[owner[s]])
    BY <2>1, <2>2, <2>3
  <2>5. QED
    BY <2>1, <2>4 DEF StatusHonest
<1>2. CASE Waiting
  <2>1. timers # {} /\ countdown = TRUE /\ status = "closed"
    BY <1>2 DEF Waiting
  <2>2. \A s \in Slots : socket[s] # "open"
    BY <1>2 DEF Waiting, NoneLive, Live
  <2>3. QED
    BY <2>1, <2>2 DEF StatusHonest
<1>3. QED
  BY <1>1, <1>2 DEF StreamInv, Phase

(* What the header is rendered from is never a lie: the status is "open"      *)
(* exactly while there is an open connection, and "closed", with a countdown, *)
(* exactly while one is scheduled.                                            *)
THEOREM HeaderHonest == Spec => []StatusHonest
<1>1. QED
  BY StreamInvariance, HonestStatus, PTL

(* For every ring size, and across reconnects, the ring holds the newest       *)
(* results in the order in which they came.                                   *)
THEOREM RingIsNewest == Spec => []HistoryIsNewest
<1>1. StreamInv => HistoryIsNewest
  BY DEF StreamInv
<1>2. QED
  BY <1>1, StreamInvariance, PTL

-----------------------------------------------------------------------------
(* The delay *)

LEMMA BackoffFacts ==
    /\ BackoffAfter(0) = BACKOFF_INITIAL
    /\ \A n \in Nat : AtMost(BACKOFF_MAX, BackoffAfter(n) * 2) = BackoffAfter(n + 1)
    /\ BackoffAfter(MaxCloses) = BackoffAfter(MaxCloses - 1)
<1> DEFINE c == MaxCloses - 1
<1>1. /\ BACKOFF_INITIAL \in Nat /\ BACKOFF_MAX \in Nat /\ BACKOFF_INITIAL <= BACKOFF_MAX
      /\ c \in Nat /\ MaxCloses \in Nat /\ c <= MaxCloses
  BY StreamAssumption
<1>2. BACKOFF_INITIAL * Doublings[c] >= BACKOFF_MAX
  BY StreamAssumption
<1> HIDE DEF c
<1>3. DelayAfter(BACKOFF_INITIAL, BACKOFF_MAX, c) = BACKOFF_MAX
  BY <1>1, <1>2, DelaySaturates
<1>4. DelayAfter(BACKOFF_INITIAL, BACKOFF_MAX, MaxCloses) = BACKOFF_MAX
  BY <1>1, <1>2, DelaySaturates
<1>5. /\ DelayAfter(BACKOFF_INITIAL, BACKOFF_MAX, 0) = BACKOFF_INITIAL
      /\ \A n \in Nat : AtMost(BACKOFF_MAX, DelayAfter(BACKOFF_INITIAL, BACKOFF_MAX, n) * 2)
                           = DelayAfter(BACKOFF_INITIAL, BACKOFF_MAX, n + 1)
  BY <1>1, DelayStarts, DelayDoubles
<1>6. QED
  BY <1>3, <1>4, <1>5 DEF BackoffAfter, c

LEMMA BackoffInitially == Init => BackoffInv
<1> SUFFICES ASSUME Init PROVE BackoffInv
  OBVIOUS
<1>1. backoffRef = BackoffAfter(0) /\ closes = 0 /\ timers = {}
  BY BackoffFacts DEF Init
<1>2. QED
  BY <1>1 DEF BackoffInv

LEMMA BackoffInductive == StreamInv /\ BackoffInv /\ [Next]_vars => BackoffInv'
<1> SUFFICES ASSUME StreamInv, BackoffInv, [Next]_vars PROVE BackoffInv'
  OBVIOUS
<1> USE DEF BackoffInv
<1>1. ASSUME NEW s \in Slots, OnOpen(s) PROVE BackoffInv'
  <2>1. /\ socket[s] = "connecting" /\ UNCHANGED <<mounted, timers>>
    BY <1>1 DEF OnOpen
  <2>2. Live(s)
    BY <2>1 DEF Live
  <2>3. Heard(s) /\ timers = {}
    BY <2>2, LiveIsHeard DEF Connected
  <2>4. closes' = 0 /\ backoffRef' = BackoffAfter(0)
    BY <1>1, <2>3, BackoffFacts DEF OnOpen
  <2>5. QED
    BY <2>1, <2>3, <2>4
<1>2. ASSUME NEW s \in Slots, OnMessage(s) PROVE BackoffInv'
  BY <1>2 DEF OnMessage, Mounted, BackoffAfter
<1>3. ASSUME NEW s \in Slots, OnClose(s) PROVE BackoffInv'
  <2>1. CASE Heard(s)
    <3> DEFINE t == [slot |-> s, effect |-> owner[s], base |-> backoffRef]
    <3>1. Connected /\ Mounted /\ timers = {}
      BY <1>3, <2>1, LiveIsHeard DEF OnClose, Connected
    <3>2. timers' = {t} /\ closes' = AtMost(MaxCloses, closes + 1)
      BY <1>3, <2>1, <3>1 DEF OnClose, Schedule
    <3>3. t.base = BackoffAfter(closes)
      BY <3>1
    <3>4. closes \in 0..MaxCloses /\ MaxCloses \in Nat \ {0}
      BY StreamAssumption DEF StreamInv, Typed
    <3>5. timers' # {} /\ \A u \in timers' : u = t
      BY <3>2
    <3> HIDE DEF t
    <3>6. CASE closes = MaxCloses
      <4>1. closes' = MaxCloses
        BY <3>2, <3>4, <3>6 DEF AtMost
      <4>2. t.base = BackoffAfter(closes' - 1)
        BY <3>3, <3>6, <4>1, BackoffFacts
      <4>3. QED
        BY <3>4, <3>5, <4>1, <4>2 DEF BackoffAfter
    <3>7. CASE closes # MaxCloses
      <4>1. closes' = closes + 1 /\ closes' - 1 = closes
        BY <3>2, <3>4, <3>7 DEF AtMost
      <4>2. t.base = BackoffAfter(closes' - 1)
        BY <3>3, <4>1
      <4>3. QED
        BY <3>4, <3>5, <4>1, <4>2 DEF BackoffAfter
    <3>8. QED
      BY <3>6, <3>7
  <2>2. CASE ~Heard(s)
    BY <1>3, <2>2 DEF OnClose, Mounted, BackoffAfter
  <2>3. QED
    BY <2>1, <2>2
<1>4. ASSUME NEW t \in timers, TimerFires(t) PROVE BackoffInv'
  <2>1. backoffRef' = Grown(t) /\ timers' = {} /\ UNCHANGED closes
    BY <1>4, TimerFiresPreserves DEF Connected, TimerFires
  <2>2. closes > 0 /\ t.base = BackoffAfter(closes - 1) /\ closes - 1 \in Nat
    BY DEF StreamInv, Typed
  <2>3. backoffRef' = BackoffAfter(closes - 1 + 1)
    BY <2>1, <2>2, BackoffFacts DEF Grown
  <2>4. QED
    BY <2>1, <2>2, <2>3 DEF StreamInv, Typed
<1>5. ASSUME NEW e \in Effects, Unmount(e) PROVE BackoffInv'
  <2>1. Mounted /\ timers' = {t \in timers : t.slot # timerRef}
        /\ mounted' = [mounted EXCEPT ![e] = FALSE]
    BY <1>5 DEF Unmount, Mounted
  <2>2. timers' = {}
    BY <2>1 DEF StreamInv, Phase, Connected, Waiting
  <2>3. ~Mounted'
    BY <1>5, <2>1 DEF Unmount, Mounted, StreamInv, Typed, OneEffect, Effects
  <2>4. QED
    BY <2>2, <2>3
<1>6. CASE StrictModeRemount
  <2>1. Mounted
    BY <1>6, Zenon DEF StrictModeRemount, Mounted, Effects
  <2>2. QED
    BY <1>6, <2>1 DEF StrictModeRemount, BackoffAfter
<1>7. CASE UNCHANGED vars
  BY <1>7 DEF vars, Mounted, BackoffAfter
<1>8. QED
  BY <1>1, <1>2, <1>3, <1>4, <1>5, <1>6, <1>7 DEF Next, Reconnect

(* Whatever the constants: every reconnect waits the initial delay, doubled   *)
(* for each further close since a connection last opened, up to the maximum.  *)
THEOREM DelaysDouble == Spec => []BackoffFollowsCloses
<1>1. BackoffInv => BackoffFollowsCloses
  BY DEF BackoffInv, BackoffFollowsCloses
<1>2. Init => StreamInv /\ BackoffInv
  BY StreamInitially, BackoffInitially
<1>3. StreamInv /\ BackoffInv /\ [Next]_vars => StreamInv' /\ BackoffInv'
  BY StreamInductive, BackoffInductive
<1>4. QED
  BY <1>1, <1>2, <1>3, PTL DEF Spec

-----------------------------------------------------------------------------
(* The page over time *)

(* What the page does with the stream never disturbs it. *)
LEMMA FeedbackStepIsStreamStep == [FeedbackNext]_feedbackVars => [Next]_vars
<1> SUFFICES ASSUME [FeedbackNext]_feedbackVars PROVE [Next]_vars
  OBVIOUS
<1>1. CASE StreamStep
  BY <1>1 DEF StreamStep, Next
<1>2. CASE TimelyReconnect
  BY <1>2 DEF TimelyReconnect, Next
<1>3. CASE Render \/ IntervalFires \/ Tick \/ \E k \in Kinds : PulseTimeout(k)
  BY <1>3 DEF Render, IntervalFires, Tick, PulseTimeout
<1>4. CASE StrictMode
  BY <1>4 DEF StrictMode, Next
<1>5. CASE Leave
  BY <1>5 DEF Leave, Next
<1>6. CASE UNCHANGED feedbackVars
  BY <1>6 DEF feedbackVars
<1>7. QED
  BY <1>1, <1>2, <1>3, <1>4, <1>5, <1>6 DEF FeedbackNext, Timely

(* The timed page implements the untimed hook, whose safety it inherits.      *)
THEOREM FeedbackImplementsStream ==
  FeedbackSpec => /\ Spec
                  /\ [](SingleConnection /\ StatusHonest /\ HistoryIsNewest
                        /\ BackoffFollowsCloses)
<1>1. FeedbackInit => Init
  BY DEF FeedbackInit
<1>2. FeedbackSpec => Spec
  BY <1>1, FeedbackStepIsStreamStep, PTL DEF FeedbackSpec, Spec
<1>3. QED
  BY <1>2, OnlyConnection, HeaderHonest, RingIsNewest, DelaysDouble, PTL

PulseInv == pulse \in [Kinds -> BOOLEAN] /\ pulseTimer \in [Kinds -> BOOLEAN] /\ PulseEnds

LEMMA RenderKeepsPulses ==
  ASSUME PulseInv, Render
  PROVE  PulseInv'
<1> DEFINE before == deriveCounters(shown.history)
           now == deriveCounters(shown'.history)
<1>1. /\ pulseTimer' = [k \in Kinds |-> IF now[k] # before[k] THEN now[k] # 0
                                        ELSE pulseTimer[k]]
      /\ pulse' = [k \in Kinds |-> pulse[k] \/ (now[k] # before[k] /\ now[k] # 0)]
  BY DEF Render, PulseEffect
<1> HIDE DEF before, now
<1>2. pulse' \in [Kinds -> BOOLEAN] /\ pulseTimer' \in [Kinds -> BOOLEAN]
  BY <1>1, Zenon DEF PulseInv
<1>3. ASSUME NEW k \in Kinds, pulse'[k]
      PROVE  pulseTimer'[k] \/ now[k] = 0
  <2>1. pulse[k] => pulseTimer[k] \/ before[k] = 0
    BY DEF PulseInv, PulseEnds, before
  <2>2. CASE now[k] # before[k]
    BY <1>1, <2>2
  <2>3. CASE now[k] = before[k]
    <3>1. pulse[k]
      BY <1>1, <1>3, <2>3
    <3>2. pulseTimer'[k] = pulseTimer[k]
      BY <1>1, <2>3
    <3>3. QED
      BY <2>1, <2>3, <3>1, <3>2
  <2>4. QED
    BY <2>2, <2>3
<1>4. QED
  BY <1>2, <1>3 DEF PulseInv, PulseEnds, now

(* Time passes only on a page that is rendered, and what is on it stays.     *)
LEMMA TickKeepsPage ==
  ASSUME Tick
  PROVE  shown'.status = shown.status /\ shown'.countdown = shown.countdown
         /\ shown'.history = shown.history
<1>1. shown = Current /\ shown' = Current'
  BY DEF Tick, Rendered
<1>2. UNCHANGED vars
  BY DEF Tick
<1>3. QED
  BY <1>1, <1>2 DEF Current, vars, view

LEMMA PulseInductive == PulseInv /\ [FeedbackNext]_feedbackVars => PulseInv'
<1> SUFFICES ASSUME PulseInv, [FeedbackNext]_feedbackVars PROVE PulseInv'
  OBVIOUS
<1>1. CASE Render
  BY <1>1, RenderKeepsPulses
<1>2. ASSUME NEW k \in Kinds, PulseTimeout(k) PROVE PulseInv'
  BY <1>2 DEF PulseTimeout, PulseInv, PulseEnds, deriveCounters
<1>3. CASE Leave
  BY <1>3 DEF Leave, PulseInv, PulseEnds
<1>4. CASE shown'.history = shown.history /\ UNCHANGED pulses
  BY <1>4 DEF pulses, PulseInv, PulseEnds, deriveCounters
<1>5. CASE Tick
  <2>1. shown'.history = shown.history /\ UNCHANGED pulses
    BY <1>5, TickKeepsPage DEF Tick
  <2>2. QED
    BY <1>4, <2>1
<1>6. CASE StreamStep \/ IntervalFires \/ TimelyReconnect \/ StrictMode \/ UNCHANGED feedbackVars
  <2>1. UNCHANGED <<shown, pulses>>
    BY <1>6 DEF StreamStep, IntervalFires, TimelyReconnect, StrictMode, feedbackVars, feedback
  <2>2. QED
    BY <1>4, <2>1
<1>7. QED
  BY <1>1, <1>2, <1>3, <1>5, <1>6 DEF FeedbackNext, Timely

(* No counter is left drawn larger with nothing to end it, unless its count   *)
(* dropped to zero in the middle of the pulse.                                *)
THEOREM PulsesEnd == FeedbackSpec => []PulseEnds
<1>1. FeedbackInit => PulseInv
  BY DEF FeedbackInit, PulseInv, PulseEnds
<1>2. PulseInv => PulseEnds
  BY DEF PulseInv
<1>3. QED
  BY <1>1, <1>2, PulseInductive, PTL DEF FeedbackSpec

-----------------------------------------------------------------------------
(* The countdown *)

LEMMA DivisionBounds ==
  ASSUME NEW d \in Nat \ {0}, NEW a \in Int
  PROVE  a \div d \in Int /\ d * (a \div d) <= a /\ a < d * (a \div d) + d
  OBVIOUS

LEMMA DivisionMonotonic ==
  ASSUME NEW d \in Nat \ {0}, NEW a \in Int, NEW b \in Int, a <= b
  PROVE  a \div d <= b \div d
<1> DEFINE p == a \div d
           q == b \div d
<1>1. p \in Int /\ q \in Int /\ d * p <= a /\ b < d * q + d
  BY DivisionBounds
<1> HIDE DEF p, q
<1>2. SUFFICES ASSUME p >= q + 1 PROVE FALSE
  BY <1>1 DEF p, q
<1>3. d * p >= d * (q + 1)
  BY <1>1, <1>2
<1>4. QED
  BY <1>1, <1>3

LEMMA SecondsMonotonic ==
  ASSUME NEW a \in Int, NEW b \in Int, a <= b
  PROVE  Seconds(a) <= Seconds(b) /\ Seconds(a) \in Int
  BY FeedbackAssumption, DivisionMonotonic, DivisionBounds DEF Seconds

LEMMA SecondsShift ==
  ASSUME NEW a \in Int
  PROVE  Seconds(a + TICKS) = Seconds(a) + 1 /\ Seconds(0) = 0
<1>1. \A d \in Nat \ {0}, b \in Int : (b + d) \div d = b \div d + 1
  OBVIOUS
<1>2. \A d \in Nat \ {0} : (d - 1) \div d = 0
  OBVIOUS
<1>3. /\ TICKS \in Nat \ {0} /\ a + TICKS - 1 \in Int
      /\ a + TICKS + TICKS - 1 = (a + TICKS - 1) + TICKS /\ 0 + TICKS - 1 = TICKS - 1
  BY FeedbackAssumption
<1>4. QED
  BY <1>1, <1>2, <1>3 DEF Seconds

LEMMA CountdownInvHonest == CountdownInv => CountdownHonest
<1> SUFFICES ASSUME CountdownInv, Rendered, Mounted, Retrying, beat # 0
             PROVE  /\ remainSec >= Seconds(due)
                    /\ waited >= TICKS /\ due >= 0 => remainSec <= Seconds(due) + 1
  BY DEF CountdownHonest
<1>0. shown.due = due
  BY DEF Rendered, Current
<1>1. /\ due \in Int /\ lag \in Nat /\ waited \in Nat /\ beat \in Nat \ {0} /\ TICKS \in Nat
      /\ waited + beat = TICKS \/ lag + beat = TICKS
  BY FeedbackAssumption DEF CountdownInv
<1>2. Seconds(due) <= Seconds(due + lag) /\ Seconds(due) \in Int /\ Seconds(due + lag) \in Int
  BY <1>1, SecondsMonotonic
<1>3. CASE due + lag <= 0
  <2>1. remainSec = 0 /\ due <= 0
    BY <1>0, <1>1, <1>3 DEF remainSec
  <2>2. Seconds(due) <= 0
    BY <1>1, <2>1, SecondsMonotonic, SecondsShift
  <2>3. due >= 0 => Seconds(due) = 0
    BY <1>1, <2>1, SecondsShift
  <2>4. QED
    BY <1>2, <2>1, <2>2, <2>3
<1>4. CASE due + lag > 0
  <2>1. remainSec = Seconds(due + lag)
    BY <1>0, <1>1, <1>4 DEF remainSec
  <2>2. ASSUME waited >= TICKS PROVE Seconds(due + lag) <= Seconds(due) + 1
    <3>1. due + lag <= due + TICKS /\ due + TICKS \in Int
      BY <1>1, <2>2
    <3>2. Seconds(due + lag) <= Seconds(due + TICKS)
      BY <1>1, <3>1, SecondsMonotonic
    <3>3. QED
      BY <1>1, <3>2, SecondsShift
  <2>3. QED
    BY <1>2, <2>1, <2>2
<1>5. QED
  BY <1>1, <1>3, <1>4

LEMMA MountedOnlyGoes == StreamInv /\ [Next]_vars /\ Mounted' => Mounted
<1> SUFFICES ASSUME StreamInv, [Next]_vars, Mounted' PROVE Mounted
  OBVIOUS
<1>1. CASE StrictModeRemount
  BY <1>1, Zenon DEF StrictModeRemount, Mounted, Effects
<1>2. ASSUME NEW e \in Effects, Unmount(e) PROVE Mounted
  BY <1>2 DEF Unmount, Mounted
<1>3. CASE UNCHANGED mounted
  BY <1>3 DEF Mounted
<1>4. QED
  BY <1>1, <1>2, <1>3 DEF Next, Reconnect, OnOpen, OnMessage, OnClose, TimerFires, vars

LEMMA CountdownInductive ==
  StreamInv /\ CountdownInv /\ [FeedbackNext]_feedbackVars => CountdownInv'
<1> SUFFICES ASSUME StreamInv, CountdownInv, [FeedbackNext]_feedbackVars PROVE CountdownInv'
  OBVIOUS
<1> USE DEF CountdownInv
<1>1. Mounted' => Mounted
  BY FeedbackStepIsStreamStep, MountedOnlyGoes
<1>2. TICKS \in Nat \ {0} /\ MaxLag \in Nat /\ MaxLag >= TICKS
  BY FeedbackAssumption
<1>3. CASE Render
  <2>1. CASE SameSchedule
    <3>1. UNCHANGED <<due, lag, beat, waited>> /\ Retrying' = Retrying
      BY <1>3, <2>1 DEF Render, IntervalEffect, SameSchedule, label, Retrying
    <3>2. QED
      BY <1>1, <3>1
  <2>2. CASE ~SameSchedule
    <3>1. /\ UNCHANGED <<due, lag>> /\ waited' = 0
          /\ beat' = IF Retrying' THEN TICKS ELSE NoBeat
      BY <1>3, <2>2 DEF Render, IntervalEffect
    <3>2. CASE Retrying'
      BY <1>2, <3>1, <3>2 DEF NoBeat
    <3>3. CASE ~Retrying'
      BY <1>2, <3>1, <3>3 DEF NoBeat
    <3>4. QED
      BY <3>2, <3>3
  <2>3. QED
    BY <2>1, <2>2
<1>4. CASE IntervalFires
  <2>1. /\ beat = 0 /\ beat' = TICKS /\ lag' = 0
        /\ UNCHANGED <<due, shown, waited>>
    BY <1>4 DEF IntervalFires
  <2>2. Retrying' = Retrying
    BY <2>1 DEF Retrying
  <2>3. QED
    BY <1>1, <1>2, <2>1, <2>2 DEF NoBeat
<1>5. CASE Tick
  <2>1. /\ Mounted /\ beat # 0 /\ due' = (IF countdown THEN due - 1 ELSE 0)
        /\ lag' = AtMost(MaxLag, lag + 1) /\ beat' = (IF beat = NoBeat THEN NoBeat ELSE beat - 1)
        /\ waited' = (IF Retrying THEN AtMost(MaxLag, waited + 1) ELSE waited)
    BY <1>5 DEF Tick
  <2>2. Retrying' = Retrying
    BY <1>5, TickKeepsPage DEF Retrying
  <2>3. due' \in Int /\ lag' \in Nat /\ waited' \in Nat /\ beat' \in Nat \cup {NoBeat}
    BY <1>2, <2>1 DEF AtMost, NoBeat
  <2>4. CASE beat = NoBeat
    BY <1>1, <2>1, <2>2, <2>3, <2>4
  <2>5. CASE beat # NoBeat
    <3>1. Retrying /\ beat' = beat - 1 /\ beat \in Nat \ {0} /\ beat <= TICKS
      BY <2>1, <2>5
    <3>2. beat' # NoBeat /\ beat' <= TICKS
      BY <1>2, <3>1 DEF NoBeat
    <3>3. waited + beat = TICKS => waited' + beat' = TICKS
      BY <1>2, <2>1, <3>1 DEF AtMost
    <3>4. lag + beat = TICKS => lag' + beat' = TICKS
      BY <1>2, <2>1, <3>1 DEF AtMost
    <3>5. QED
      BY <2>2, <2>3, <2>5, <3>1, <3>2, <3>3, <3>4
  <2>6. QED
    BY <2>4, <2>5
<1>6. CASE StreamStep \/ TimelyReconnect
  <2>1. due' \in Int
    BY <1>2, <1>6 DEF StreamStep, TimelyReconnect, Waits
  <2>2. UNCHANGED <<shown, lag, beat, waited>>
    BY <1>6 DEF StreamStep, TimelyReconnect, label
  <2>3. Retrying' = Retrying
    BY <2>2 DEF Retrying
  <2>4. QED
    BY <1>1, <2>1, <2>2, <2>3
<1>7. ASSUME NEW k \in Kinds, PulseTimeout(k) PROVE CountdownInv'
  BY <1>1, <1>7 DEF PulseTimeout, label, Retrying
<1>8. CASE StrictMode \/ UNCHANGED feedbackVars
  <2>1. UNCHANGED <<due, shown, lag, beat, waited>>
    BY <1>8 DEF StrictMode, feedbackVars, feedback, label
  <2>2. QED
    BY <1>1, <2>1 DEF Retrying
<1>9. CASE Leave
  <2>1. due' = 0 /\ lag' = 0 /\ beat' = NoBeat /\ waited' = 0
    BY <1>9 DEF Leave
  <2>2. ~Mounted'
    BY <1>9 DEF Leave, Unmount, Mounted, StreamInv, Typed, OneEffect, Effects
  <2>3. QED
    BY <2>1, <2>2
<1>10. QED
  BY <1>3, <1>4, <1>5, <1>6, <1>7, <1>8, <1>9 DEF FeedbackNext, Timely

(* Whatever the length of a second, and however late the timer, the countdown *)
(* on the screen never promises less than what is left; once one and the same *)
(* has been there for a second it is no more than a second off, though one    *)
(* that replaces another starts the interval again.                           *)
THEOREM CountdownIsHonest == FeedbackSpec => []CountdownHonest
<1>1. FeedbackInit => StreamInv /\ CountdownInv
  <2>1. FeedbackInit => StreamInv
    BY StreamInitially DEF FeedbackInit
  <2>2. ASSUME FeedbackInit PROVE CountdownInv
    <3>1. due = 0 /\ lag = 0 /\ beat = NoBeat /\ waited = 0 /\ shown.status = "connecting"
      BY <2>2 DEF FeedbackInit, Init, Current
    <3>2. QED
      BY <3>1 DEF CountdownInv, Retrying
  <2>3. QED
    BY <2>1, <2>2
<1>2. StreamInv /\ CountdownInv /\ [FeedbackNext]_feedbackVars => StreamInv' /\ CountdownInv'
  BY FeedbackStepIsStreamStep, StreamInductive, CountdownInductive
<1>3. QED
  BY <1>1, <1>2, CountdownInvHonest, PTL DEF FeedbackSpec

-----------------------------------------------------------------------------
(* The announcements *)

LEMMA FunctionLength ==
  ASSUME NEW n \in Nat, NEW t \in [1..n -> Nat]
  PROVE  Len(t) = n
<1>1. t \in Seq(Nat)
  BY SeqDef
<1>2. Len(t) \in Nat /\ DOMAIN t = 1..Len(t)
  BY <1>1, LenProperties
<1>3. DOMAIN t = 1..n
  OBVIOUS
<1>4. 1..n = 1..Len(t)
  BY <1>2, <1>3
<1>5. QED
  BY <1>2, <1>4

(* Aging two sequences together ages what is chosen of them: who is out of    *)
(* the window stays out.                                                      *)
LEMMA AgedSeq ==
  ASSUME NEW s \in Seq(Nat)
  PROVE  /\ Aged(s) \in Seq(Nat) /\ Len(Aged(s)) = Len(s)
         /\ \A x \in Nat : Aged(Append(s, x)) = Append(Aged(s), AtMost(TICKS, x + 1))
<1>1. /\ Len(s) \in Nat /\ DOMAIN s = 1..Len(s) /\ TICKS \in Nat
      /\ \A i \in 1..Len(s) : s[i] \in Nat
  BY FeedbackAssumption, LenProperties, ElementOfSeq
<1>2. Aged(s) \in [1..Len(s) -> Nat]
  BY <1>1 DEF Aged, AtMost
<1>3. Aged(s) \in Seq(Nat)
  BY <1>1, <1>2, SeqDef
<1>4. Len(Aged(s)) = Len(s)
  <2> DEFINE t == Aged(s)
  <2>1. t \in [1..Len(s) -> Nat] /\ Len(s) \in Nat
    BY <1>1, <1>2
  <2> HIDE DEF t
  <2>2. Len(t) = Len(s)
    BY <2>1, FunctionLength
  <2>3. QED
    BY <2>2 DEF t
<1>5. ASSUME NEW x \in Nat
      PROVE  Aged(Append(s, x)) = Append(Aged(s), AtMost(TICKS, x + 1))
  <2> DEFINE t == Append(s, x)
             a == Aged(t)
             b == Append(Aged(s), AtMost(TICKS, x + 1))
  <2>1. /\ t \in Seq(Nat) /\ Len(t) = Len(s) + 1 /\ t[Len(s) + 1] = x
        /\ \A i \in 1..Len(s) : t[i] = s[i]
    BY <1>1, AppendProperties
  <2>2. AtMost(TICKS, x + 1) \in Nat
    BY <1>1 DEF AtMost
  <2>3. /\ b \in Seq(Nat) /\ Len(b) = Len(s) + 1 /\ b[Len(s) + 1] = AtMost(TICKS, x + 1)
        /\ \A i \in 1..Len(s) : b[i] = Aged(s)[i]
    BY <1>3, <1>4, <2>2, AppendProperties
  <2> HIDE DEF t, b
  <2>4. DOMAIN t = 1..Len(s) + 1 /\ DOMAIN b = 1..Len(s) + 1
    BY <2>1, <2>3, LenProperties
  <2>5. DOMAIN a = DOMAIN t /\ a = [i \in DOMAIN a |-> a[i]]
    BY DEF Aged
  <2>6. \A i \in 1..Len(s) + 1 : a[i] = b[i]
    <3>1. ASSUME NEW i \in 1..Len(s) PROVE a[i] = b[i]
      <4>1. i \in DOMAIN t /\ t[i] = s[i] /\ b[i] = Aged(s)[i]
        <5>1. i \in 1..Len(s) + 1
          BY <1>1
        <5>2. QED
          BY <2>1, <2>3, <2>4, <5>1
      <4>2. a[i] = AtMost(TICKS, s[i] + 1)
        BY <4>1 DEF Aged
      <4>3. Aged(s)[i] = AtMost(TICKS, s[i] + 1)
        BY <1>1 DEF Aged
      <4>4. QED
        BY <4>1, <4>2, <4>3
    <3>2. a[Len(s) + 1] = b[Len(s) + 1]
      BY <1>1, <2>1, <2>3, <2>4 DEF Aged
    <3>3. QED
      BY <1>1, <3>1, <3>2
  <2>7. b = [i \in DOMAIN b |-> b[i]]
    BY <1>1, <2>3, SeqDef, <2>4
  <2>8. QED
    BY <2>4, <2>5, <2>6, <2>7 DEF t, b
<1>6. QED
  BY <1>3, <1>4, <1>5

LEMMA AgedKeepsChosen ==
  \A s \in Seq(Nat) :
     Chosen(Aged(Chosen(s, WithinWindow)), WithinWindow) = Chosen(Aged(s), WithinWindow)
<1> DEFINE W == WithinWindow
           Fails(s) == Chosen(Aged(Chosen(s, W)), W) # Chosen(Aged(s), W)
           T == {n \in Nat : \E s \in Seq(Nat) : Len(s) = n /\ Fails(s)}
<1>1. SUFFICES ASSUME T # {} PROVE FALSE
  <2>1. \A s \in Seq(Nat) : Len(s) \in Nat
    BY LenProperties
  <2>2. QED
    BY <2>1
<1>2. T \subseteq Nat
  OBVIOUS
<1> HIDE DEF T
<1>3. PICK n \in T : \A m \in T : n <= m
  BY <1>1, <1>2, LeastMember
<1>4. PICK s \in Seq(Nat) : Len(s) = n /\ Fails(s)
  BY DEF T
<1>5. n \in Nat /\ DOMAIN s = 1..n /\ TICKS \in Nat
  BY <1>2, <1>4, FeedbackAssumption, LenProperties
<1>6. CASE n = 0
  <2>1. s = <<>>
    BY <1>4, <1>6, EmptySeq
  <2>2. Chosen(s, W) = s
    BY <2>1, ChosenOfNone
  <2>3. QED
    BY <1>4, <2>2
<1>7. CASE n # 0
  <2> DEFINE p == SubSeq(s, 1, n - 1)
             x == s[n]
             a == AtMost(TICKS, x + 1)
  <2>1. /\ n \in 1..n /\ n - 1 \in Nat /\ \A i \in 1..n : s[i] \in Nat
    BY <1>4, <1>5, <1>7, ElementOfSeq
  <2>2. p \in Seq(Nat) /\ Len(p) = n - 1
    <3>1. 1 \in Int /\ n - 1 \in Int /\ \A i \in 1..n - 1 : s[i] \in Nat
      BY <2>1
    <3>2. QED
      BY <2>1, <3>1, SubSeqProperties
  <2>3. s = Append(p, x)
    <3>1. 1 \in 1..Len(s) /\ n \in 1..Len(s)
      BY <1>4, <2>1
    <3>2. SubSeq(s, 1, n) = p \o <<x>>
      BY <3>1, SubSeqRecursiveSecond
    <3>3. SubSeq(s, 1, n) = s
      BY <1>4, SubSeqFull
    <3>4. x \in Nat
      BY <2>1
    <3> HIDE DEF p, x
    <3>5. QED
      BY <2>2, <3>2, <3>3, <3>4, AppendIsConcat
  <2>4. x \in Nat /\ a \in Nat
    BY <1>5, <2>1 DEF AtMost
  <2> HIDE DEF p, x
  <2>5. Chosen(Aged(Chosen(p, W)), W) = Chosen(Aged(p), W)
    <3>1. n - 1 \notin T
      BY <1>2, <1>3, <2>1
    <3>2. QED
      BY <2>1, <2>2, <3>1 DEF T
  <2>6. Aged(p) \in Seq(Nat) /\ Aged(s) = Append(Aged(p), a)
    BY <2>2, <2>3, <2>4, AgedSeq
  <2> HIDE DEF a, W
  <2>7. Chosen(Aged(s), W) = IF a \in W THEN Append(Chosen(Aged(p), W), a) ELSE Chosen(Aged(p), W)
    BY <2>4, <2>6, ChosenAppendNat
  <2>8. Chosen(s, W) = IF x \in W THEN Append(Chosen(p, W), x) ELSE Chosen(p, W)
    BY <2>2, <2>3, <2>4, ChosenAppendNat
  <2>9. Chosen(p, W) \in Seq(Nat)
    <3>1. Nat \cap W = W /\ W \subseteq Nat
      BY <1>5 DEF W, WithinWindow
    <3>2. Chosen(p, W) \in Seq(W)
      BY <2>2, <3>1, ChosenType
    <3>3. QED
      BY <3>1, <3>2, SeqMonotonic
  <2>10. CASE x \in W
    <3>1. Aged(Chosen(p, W)) \in Seq(Nat)
          /\ Aged(Chosen(s, W)) = Append(Aged(Chosen(p, W)), a)
      BY <2>4, <2>8, <2>9, <2>10, AgedSeq DEF a
    <3>2. Chosen(Aged(Chosen(s, W)), W) =
            IF a \in W THEN Append(Chosen(Aged(Chosen(p, W)), W), a)
            ELSE Chosen(Aged(Chosen(p, W)), W)
      BY <2>4, <3>1, ChosenAppendNat
    <3>3. QED
      BY <1>4, <2>5, <2>7, <3>2
  <2>11. CASE x \notin W
    <3>1. a \notin W
      BY <1>5, <2>4, <2>11 DEF W, a, AtMost, WithinWindow
    <3>2. QED
      BY <1>4, <2>5, <2>7, <2>8, <2>11, <3>1
  <2>12. QED
    BY <2>10, <2>11
<1>8. QED
  BY <1>6, <1>7

LEMMA ChosenInWindow ==
  ASSUME NEW s \in Seq(Nat)
  PROVE  /\ Chosen(s, WithinWindow) \in Seq(Nat)
         /\ Chosen(Chosen(s, WithinWindow), WithinWindow) = Chosen(s, WithinWindow)
<1>1. Nat \cap WithinWindow = WithinWindow /\ WithinWindow \subseteq Nat
  BY FeedbackAssumption DEF WithinWindow
<1>2. Chosen(s, WithinWindow) \in Seq(WithinWindow)
  BY <1>1, ChosenType
<1>3. QED
  BY <1>1, <1>2, SeqMonotonic, ChosenOfAll

(* What AnomaliesAnnounced says of a step. *)
Announced ==
    /\ Len(utterances') <= MAX_ANNOUNCEMENTS_PER_SEC
    /\ Mounted' /\ Len(shown'.history) > Len(shown.history) =>
         \/ KindOf[Last(shown'.history)] = "MATCH"
         \/ spoken' = Last(shown'.history)
         \/ Len(utterances) = MAX_ANNOUNCEMENTS_PER_SEC

LEMMA HistoryLength == StreamInv => Len(history) \in Nat
<1> SUFFICES ASSUME StreamInv PROVE Len(history) \in Nat
  OBVIOUS
<1>1. history = Newest(received) /\ received \in Nat
  BY DEF StreamInv, Typed, HistoryIsNewest, Newest
<1>2. QED
  BY <1>1, NewestIsSeq, LenProperties

LEMMA RenderAnnounces ==
  ASSUME StreamInv, AnnounceInv, Render
  PROVE  AnnounceInv' /\ Announced
<1> DEFINE kept == Chosen(recent, WithinWindow)
           latest == Last(shown'.history)
<1>1. /\ Mounted /\ shown' = Current /\ AnnounceEffect /\ UNCHANGED mounted
  BY DEF Render, vars
<1>2. Mounted' <=> Mounted
  BY <1>1 DEF Mounted
<1>3. Len(shown'.history) \in Nat /\ Len(shown.history) \in Nat /\ prevLen = Len(shown.history)
  BY <1>1, HistoryLength DEF Current, AnnounceInv
<1>4. /\ recent \in Seq(Nat) /\ utterances = kept /\ kept \in Seq(Nat)
      /\ Chosen(kept, WithinWindow) = kept
      /\ Len(kept) \in Nat /\ Len(kept) <= MAX_ANNOUNCEMENTS_PER_SEC
      /\ MAX_ANNOUNCEMENTS_PER_SEC \in Nat
  BY ChosenInWindow, LenProperties, FeedbackAssumption DEF AnnounceInv
<1>5. CASE shown'.history = shown.history
  <2>1. UNCHANGED <<prevLen, recent, spoken, utterances>>
    BY <1>1, <1>5 DEF AnnounceEffect, announcer
  <2>2. AnnounceInv'
    BY <1>2, <1>3, <1>5, <2>1 DEF AnnounceInv
  <2>3. Announced
    BY <1>3, <1>4, <1>5, <2>1 DEF Announced
  <2>4. QED
    BY <2>2, <2>3
<1>6. CASE shown'.history # shown.history
  <2>1. /\ prevLen' = Len(shown'.history)
        /\ IF Len(shown'.history) <= prevLen \/ KindOf[latest] = "MATCH"
           THEN UNCHANGED <<recent, spoken, utterances>>
           ELSE IF Len(kept) >= MAX_ANNOUNCEMENTS_PER_SEC
           THEN recent' = kept /\ UNCHANGED <<spoken, utterances>>
           ELSE /\ recent' = Append(kept, 0)
                /\ spoken' = latest /\ utterances' = Append(utterances, 0)
    BY <1>1, <1>6 DEF AnnounceEffect
  <2> HIDE DEF kept, latest
  <2>2. CASE Len(shown'.history) <= prevLen \/ KindOf[latest] = "MATCH"
    <3>1. UNCHANGED <<recent, spoken, utterances>>
      BY <2>1, <2>2
    <3>2. AnnounceInv'
      BY <1>2, <1>3, <2>1, <3>1 DEF AnnounceInv
    <3>3. Announced
      BY <1>3, <1>4, <2>2, <3>1 DEF Announced, latest
    <3>4. QED
      BY <3>2, <3>3
  <2>3. CASE ~(Len(shown'.history) <= prevLen \/ KindOf[latest] = "MATCH")
             /\ Len(kept) >= MAX_ANNOUNCEMENTS_PER_SEC
    <3>1. recent' = kept /\ UNCHANGED <<spoken, utterances>>
      BY <2>1, <2>3
    <3>2. Len(utterances) = MAX_ANNOUNCEMENTS_PER_SEC
      BY <1>4, <2>3
    <3>3. AnnounceInv'
      BY <1>2, <1>3, <1>4, <2>1, <3>1 DEF AnnounceInv
    <3>4. Announced
      BY <1>4, <3>1, <3>2 DEF Announced
    <3>5. QED
      BY <3>3, <3>4
  <2>4. CASE ~(Len(shown'.history) <= prevLen \/ KindOf[latest] = "MATCH")
             /\ ~(Len(kept) >= MAX_ANNOUNCEMENTS_PER_SEC)
    <3>1. recent' = Append(kept, 0) /\ spoken' = latest /\ utterances' = Append(kept, 0)
      BY <1>4, <2>1, <2>4
    <3>2. Append(kept, 0) \in Seq(Nat) /\ Len(Append(kept, 0)) = Len(kept) + 1
      BY <1>4, AppendProperties
    <3>3. 0 \in WithinWindow
      BY FeedbackAssumption DEF WithinWindow
    <3>4. Chosen(Append(kept, 0), WithinWindow) = Append(kept, 0)
      <4> DEFINE z == 0
      <4>1. z \in Nat /\ z \in WithinWindow
        BY <3>3
      <4> HIDE DEF z
      <4>2. kept \in Seq(Nat) /\ Chosen(kept, WithinWindow) = kept
        BY <1>4
      <4>3. Chosen(Append(kept, z), WithinWindow) = Append(Chosen(kept, WithinWindow), z)
        BY <4>1, <4>2, ChosenAppendNat
      <4>4. QED
        BY <4>2, <4>3 DEF z
    <3>5. Len(Append(kept, 0)) <= MAX_ANNOUNCEMENTS_PER_SEC
      BY <1>4, <2>4, <3>2
    <3>6. AnnounceInv'
      BY <1>2, <1>3, <2>1, <3>1, <3>2, <3>4, <3>5 DEF AnnounceInv
    <3>7. Announced
      BY <3>1, <3>5 DEF Announced, latest
    <3>8. QED
      BY <3>6, <3>7
  <2>5. QED
    BY <2>2, <2>3, <2>4
<1>7. QED
  BY <1>5, <1>6

LEMMA TickForgets ==
  ASSUME AnnounceInv, Tick
  PROVE  AnnounceInv' /\ Announced
<1>1. /\ recent' = Aged(recent) /\ utterances' = Chosen(Aged(utterances), Recently)
      /\ shown'.history = shown.history /\ UNCHANGED <<mounted, prevLen>>
  BY TickKeepsPage DEF Tick, vars
<1>2. recent \in Seq(Nat) /\ utterances \in Seq(Nat) /\ utterances = Chosen(recent, WithinWindow)
  BY DEF AnnounceInv
<1>3. Aged(recent) \in Seq(Nat) /\ Aged(utterances) \in Seq(Nat)
      /\ Len(Aged(utterances)) = Len(utterances)
  BY <1>2, AgedSeq
<1>4. Recently = WithinWindow
  BY DEF Recently, WithinWindow
<1>5. utterances' = Chosen(recent', WithinWindow)
  BY <1>1, <1>2, <1>4, AgedKeepsChosen
<1>6. utterances' \in Seq(Nat)
  BY <1>1, <1>3, <1>4, ChosenInWindow
<1>7. Len(utterances') <= MAX_ANNOUNCEMENTS_PER_SEC
  <2>1. Len(utterances') \in 0..Len(utterances)
    BY <1>1, <1>3, ChosenLength
  <2>2. Len(utterances) \in Nat /\ MAX_ANNOUNCEMENTS_PER_SEC \in Nat
    BY <1>2, LenProperties, FeedbackAssumption
  <2>3. QED
    BY <2>1, <2>2 DEF AnnounceInv
<1>8. AnnounceInv'
  BY <1>1, <1>3, <1>5, <1>6, <1>7 DEF AnnounceInv, Mounted
<1>9. Announced
  BY <1>1, <1>7 DEF Announced, AnnounceInv
<1>10. QED
  BY <1>8, <1>9

LEMMA AnnounceInductive ==
  StreamInv /\ AnnounceInv /\ [FeedbackNext]_feedbackVars => AnnounceInv' /\ Announced
<1> SUFFICES ASSUME StreamInv, AnnounceInv, [FeedbackNext]_feedbackVars
             PROVE  AnnounceInv' /\ Announced
  OBVIOUS
<1>1. CASE Render
  BY <1>1, RenderAnnounces
<1>2. CASE Tick
  BY <1>2, TickForgets
<1>3. Mounted' => Mounted
  BY FeedbackStepIsStreamStep, MountedOnlyGoes
<1>4. CASE UNCHANGED <<shown, announcer>>
  BY <1>3, <1>4 DEF announcer, AnnounceInv, Announced
<1>5. CASE StreamStep \/ IntervalFires \/ TimelyReconnect \/ StrictMode \/ UNCHANGED feedbackVars
  BY <1>4, <1>5 DEF StreamStep, IntervalFires, TimelyReconnect, StrictMode, feedbackVars, feedback
<1>6. ASSUME NEW k \in Kinds, PulseTimeout(k) PROVE AnnounceInv' /\ Announced
  BY <1>4, <1>6 DEF PulseTimeout
<1>7. CASE Leave
  <2>1. ~Mounted'
    BY <1>7 DEF Leave, Unmount, Mounted, StreamInv, Typed, OneEffect, Effects
  <2>2. shown' = Current' /\ recent' = <<>> /\ utterances' = <<>>
    BY <1>7 DEF Leave
  <2>3. Len(shown'.history) \in Nat
    <3>1. StreamInv'
      BY FeedbackStepIsStreamStep, StreamInductive
    <3>2. Len(history') \in Nat
      BY <3>1, HistoryLength
    <3>3. QED
      BY <2>2, <3>2 DEF Current
  <2>4. /\ <<>> \in Seq(Nat) /\ Len(<<>>) = 0 /\ Chosen(<<>>, WithinWindow) = <<>>
        /\ MAX_ANNOUNCEMENTS_PER_SEC \in Nat
    BY EmptySeq, ChosenOfNone, FeedbackAssumption
  <2>5. AnnounceInv'
    BY <2>1, <2>2, <2>3, <2>4 DEF AnnounceInv
  <2>6. Announced
    BY <2>1, <2>2, <2>4 DEF Announced
  <2>7. QED
    BY <2>5, <2>6
<1>8. QED
  BY <1>1, <1>2, <1>5, <1>6, <1>7 DEF FeedbackNext, Timely

(* However long the list and fast the results, at most so many announcements *)
(* are made in a second, and none is left out while there are fewer and the  *)
(* list grows.                                                               *)
THEOREM AnomaliesHeard == FeedbackSpec => AnomaliesAnnounced
<1>1. FeedbackInit => StreamInv /\ AnnounceInv
  <2>1. FeedbackInit => StreamInv
    BY StreamInitially DEF FeedbackInit
  <2>2. ASSUME FeedbackInit PROVE AnnounceInv
    <3>1. prevLen = 0 /\ recent = <<>> /\ utterances = <<>> /\ shown.history = <<>>
      BY <2>2 DEF FeedbackInit, Init, Current
    <3>2. /\ <<>> \in Seq(Nat) /\ Len(<<>>) = 0 /\ Chosen(<<>>, WithinWindow) = <<>>
          /\ MAX_ANNOUNCEMENTS_PER_SEC \in Nat
      BY EmptySeq, ChosenOfNone, FeedbackAssumption
    <3>3. QED
      BY <3>1, <3>2 DEF AnnounceInv
  <2>3. QED
    BY <2>1, <2>2
<1>2. StreamInv /\ AnnounceInv /\ [FeedbackNext]_feedbackVars =>
        StreamInv' /\ AnnounceInv' /\ [Announced]_feedbackVars
  BY FeedbackStepIsStreamStep, StreamInductive, AnnounceInductive
<1>3. QED
  BY <1>1, <1>2, PTL DEF FeedbackSpec, AnomaliesAnnounced, Announced

=============================================================================
