----------------------------- MODULE EventStream -----------------------------
(***************************************************************************)
(* The dashboard's WebSocket, frontend/src/hooks/useEventStream.ts: one     *)
(* React effect owns a socket, a reconnect timer and a ring buffer.         *)
(*                                                                          *)
(* The browser (external) runs one handler at a time and, whatever happens, *)
(* fires onclose once per socket: after a failed connect, a lost connection *)
(* or a close(). The callbacks of an effect that was cleaned up stay        *)
(* attached and only its "mounted" flag silences them; React's StrictMode,  *)
(* which main.tsx uses, runs the effect, its cleanup and the effect again   *)
(* in one go when a development build mounts, so the first effect's socket  *)
(* closes while the second one's connects.                                  *)
(***************************************************************************)
EXTENDS Backoff, Sequences, FiniteSets

CONSTANTS
    BACKOFF_INITIAL, BACKOFF_MAX,   \* in seconds
    MAX_HISTORY,
    MaxSlots,           \* identities of sockets, reused once they are closed
    MaxMessages,        \* bound: results received
    MaxCloses           \* bound: the closes the history counts

ASSUME StreamAssumption ==
    /\ BACKOFF_INITIAL \in Nat \ {0} /\ BACKOFF_MAX \in Nat
    /\ BACKOFF_INITIAL <= BACKOFF_MAX
    /\ MAX_HISTORY \in Nat \ {0} /\ MaxMessages \in Nat
    /\ MaxCloses \in Nat \ {0} /\ BACKOFF_INITIAL * Doublings[MaxCloses - 1] >= BACKOFF_MAX
    /\ MaxSlots \in Nat \ {0}

Slots == 1..MaxSlots

Effects == {1, 2}       \* StrictMode runs the effect twice

VARIABLES
    mounted,            \* of each effect
    socket,             \* of each slot: "none", "connecting", "open", "closing"
    owner,              \* of each slot: the effect whose handlers it has
    timers,             \* armed reconnect timers: the slot whose close armed
                        \* it, its effect and its base delay
    wsRef, timerRef,    \* what cleanup closes and clears; 0 is null
    backoffRef, status,
    countdown,          \* nextReconnectAt is not null
    history,
    received,           \* history: results received; the n-th is n
    closes              \* history: connections closed since one last opened

refs == <<wsRef, timerRef>>
view == <<history, received>>
vars == <<mounted, socket, owner, timers, refs, backoffRef, status, countdown, view, closes>>

Live(s) == socket[s] \in {"connecting", "open"}

(* The first mount: connect. *)
Init ==
    /\ mounted = [e \in Effects |-> e = 1]
    /\ socket = [s \in Slots |-> IF s = 1 THEN "connecting" ELSE "none"] /\ wsRef = 1
    /\ owner = [s \in Slots |-> 1]
    /\ timers = {} /\ timerRef = 0
    /\ backoffRef = BACKOFF_INITIAL /\ status = "connecting" /\ countdown = FALSE
    /\ history = <<>> /\ received = 0 /\ closes = 0

Unused(s) == socket[s] = "none" /\ \A t \in timers : t.slot # s

(* The next socket is told by the least identity no other one has. *)
Free(s) == Unused(s) /\ \A q \in Slots : q < s => ~Unused(q)

-----------------------------------------------------------------------------
(* The effect's callbacks; those of an effect that is no longer mounted do   *)
(* nothing but let the browser move the socket on.                          *)

(* The handlers would not ask whether their effect is still mounted. *)
HeardAlways(s) == TRUE

Heard(s) == mounted[owner[s]]

OnOpen(s) ==
    /\ socket[s] = "connecting"
    /\ socket' = [socket EXCEPT ![s] = "open"]
    /\ IF Heard(s)
       THEN /\ backoffRef' = BACKOFF_INITIAL /\ countdown' = FALSE /\ status' = "open"
            /\ closes' = 0
       ELSE UNCHANGED <<backoffRef, countdown, status, closes>>
    /\ UNCHANGED <<mounted, owner, timers, refs, view>>

(* One item too many would be kept. *)
RingKeepsOneMore(h, n) ==
    Append(IF Len(h) > MAX_HISTORY THEN SubSeq(h, Len(h) - MAX_HISTORY + 1, Len(h)) ELSE h, n)

Ring(h, n) ==
    Append(IF Len(h) >= MAX_HISTORY THEN SubSeq(h, Len(h) - MAX_HISTORY + 2, Len(h)) ELSE h, n)

(* A message that is not a result is ignored. *)
OnMessage(s) ==
    /\ socket[s] = "open" /\ Heard(s) /\ received < MaxMessages
    /\ received' = received + 1
    /\ history' = Ring(history, received')
    /\ UNCHANGED <<mounted, socket, owner, timers, refs, backoffRef, status, countdown, closes>>

(* scheduleReconnect *)
Schedule(s) ==
    /\ timers' = timers \cup {[slot |-> s, effect |-> owner[s], base |-> backoffRef]}
    /\ timerRef' = s /\ countdown' = TRUE

OnClose(s) ==
    /\ socket[s] # "none"
    /\ socket' = [socket EXCEPT ![s] = "none"]
    /\ IF Heard(s)
       THEN /\ status' = "closed" /\ Schedule(s)
            /\ closes' = AtMost(MaxCloses, closes + 1)
       ELSE UNCHANGED <<status, timers, timerRef, countdown, closes>>
    /\ UNCHANGED <<mounted, owner, wsRef, backoffRef, view>>

(* The delay would never grow. *)
NotGrown(t) == t.base

Grown(t) == AtMost(BACKOFF_MAX, t.base * 2)

(* connect would do nothing while the reference is still set. *)
ConnectUnlessReferenced(s, e) ==
    /\ Free(s)
    /\ IF wsRef = 0
       THEN /\ socket' = [socket EXCEPT ![s] = "connecting"] /\ owner' = [owner EXCEPT ![s] = e]
            /\ wsRef' = s /\ status' = "connecting"
       ELSE UNCHANGED <<socket, owner, wsRef, status>>

ConnectIn(s, e) ==
    /\ Free(s)
    /\ socket' = [socket EXCEPT ![s] = "connecting"] /\ owner' = [owner EXCEPT ![s] = e]
    /\ wsRef' = s /\ status' = "connecting"

(* The countdown would stay once its time has come. *)
CountdownKept(t) == countdown

CountdownAfter(t) == FALSE

(* setTimeout's callback: the timer is gone either way. *)
TimerFires(t) ==
    /\ timers' = timers \ {t}
    /\ IF mounted[t.effect]
       THEN /\ backoffRef' = Grown(t) /\ countdown' = CountdownAfter(t)
            /\ \E s \in Slots : ConnectIn(s, t.effect)
       ELSE UNCHANGED <<backoffRef, countdown, socket, owner, wsRef, status>>
    /\ UNCHANGED <<mounted, timerRef, view, closes>>

-----------------------------------------------------------------------------
(* The effect's cleanup, and the effect run again *)

Closing(w) == [s \in Slots |-> IF s = w /\ socket[s] # "none" THEN "closing" ELSE socket[s]]

Unmount(e) ==
    /\ mounted[e]
    /\ mounted' = [mounted EXCEPT ![e] = FALSE]
    /\ timers' = {t \in timers : t.slot # timerRef}
    /\ socket' = Closing(wsRef)
    /\ wsRef' = 0 /\ timerRef' = 0
    /\ UNCHANGED <<owner, backoffRef, status, countdown, view, closes>>

(* React does this before the browser runs any callback of the first socket. *)
StrictModeRemount ==
    /\ mounted = [e \in Effects |-> e = 1]
    /\ status = "connecting" /\ timers = {} /\ closes = 0 /\ received = 0
    /\ backoffRef = BACKOFF_INITIAL
    /\ mounted' = [e \in Effects |-> e = 2]
    /\ \E s \in Slots : /\ Free(s)
                        /\ socket' = [Closing(wsRef) EXCEPT ![s] = "connecting"]
                        /\ owner' = [owner EXCEPT ![s] = 2]
                        /\ wsRef' = s
    /\ UNCHANGED <<timers, timerRef, backoffRef, status, countdown, view, closes>>

Reconnect == \E t \in timers : TimerFires(t)

Next ==
    \/ \E s \in Slots : OnOpen(s) \/ OnMessage(s) \/ OnClose(s)
    \/ Reconnect
    \/ \E e \in Effects : Unmount(e)
    \/ StrictModeRemount

Spec == Init /\ [][Next]_vars

-----------------------------------------------------------------------------
(* Properties *)

Mounted == \E e \in Effects : mounted[e]

(* "useEventStream owns the application's single WebSocket connection": while *)
(* it is mounted there is one live socket or one armed timer, never both or   *)
(* two of either, and it is the one cleanup would find; afterwards nothing is *)
(* left that could open a connection.                                         *)
SingleConnection ==
    LET live == {s \in Slots : Live(s)}
    IN  /\ Cardinality(live) + Cardinality(timers) = IF Mounted THEN 1 ELSE 0
        /\ live \subseteq {wsRef}
        /\ {t.slot : t \in timers} \subseteq {timerRef}

(* The hook's state, from which the header is rendered: a countdown exactly   *)
(* while a reconnect is scheduled, "closed" exactly then, and "open" exactly  *)
(* while the socket is.                                                       *)
StatusHonest ==
    Mounted =>
        /\ countdown = (timers # {})
        /\ (status = "closed") = (timers # {})
        /\ (status = "open") = (\E s \in Slots : socket[s] = "open" /\ mounted[owner[s]])

BackoffAfter(n) == DelayAfter(BACKOFF_INITIAL, BACKOFF_MAX, n)

(* The delay before a reconnect is the initial one, doubled for each further  *)
(* close since a connection last opened, up to the maximum.                   *)
BackoffFollowsCloses == \A t \in timers : t.base = BackoffAfter(closes - 1)

(* The ring holds the newest MAX_HISTORY results of all the connections this  *)
(* page has had, oldest first.                                                *)
HistoryIsNewest ==
    history = [i \in 1..AtMost(MAX_HISTORY, received) |->
                 received - AtMost(MAX_HISTORY, received) + i]

(* A lost connection is always followed by another attempt while mounted. *)
Reconnects == (status = "closed") ~> (status = "connecting" \/ ~Mounted)

=============================================================================
