---------------------------- MODULE LiveFeedback ----------------------------
(***************************************************************************)
(* What the page makes of the event stream as time passes: the countdown    *)
(* and the counters of StatusHeader.tsx and the announcements of            *)
(* EventLedger.tsx for screen readers, over module EventStream.             *)
(*                                                                          *)
(* The hook's state is rendered by React some time after it changed, and    *)
(* all that changed since is rendered at once; the effects that depend on it *)
(* are part of that step. Time is kept relative, in units of a fraction of a *)
(* second, and passes only once nothing waits to be rendered and no interval *)
(* or pulse is due: a render and a pulse of 150 ms take less than a unit.    *)
(* The reconnect timer alone may come late.                                  *)
(***************************************************************************)
EXTENDS EventStream, Selection, Integers, SequencesExt

CONSTANTS
    TICKS,                      \* units of time in a second
    MaxLate,                    \* bound: how late a reconnect timer is
    MaxLag,                     \* bound: ages beyond are taken for equal
    MAX_ANNOUNCEMENTS_PER_SEC,
    KindOf                      \* the kind of each result

Kinds == {"MATCH", "MISMATCH", "ORPHAN"}

ASSUME FeedbackAssumption ==
    /\ TICKS \in Nat \ {0} /\ MaxLate \in Nat /\ MaxLag \in Nat /\ MaxLag >= TICKS
    /\ MAX_ANNOUNCEMENTS_PER_SEC \in Nat \ {0}
    /\ KindOf \in [1..MaxMessages -> Kinds]

VARIABLES
    due,            \* nextReconnectAt, which is also when the timer is due
    shown,          \* what was rendered last: status, countdown, due, history
    lag,            \* age of useReconnectLabel's "now"
    beat,           \* when its interval is due; NoBeat is no interval
    waited,         \* history: age of the countdown on the screen
    pulse,          \* of each counter: it is drawn larger
    pulseTimer,     \* of each counter: the timer that ends the pulse is armed
    prevLen, recent,\* prevLenRef, recentRef as ages
    spoken,         \* the result in the live region; 0 is none
    utterances      \* history: ages of the announcements of the last second

label == <<lag, beat, waited>>
pulses == <<pulse, pulseTimer>>
announcer == <<prevLen, recent, spoken, utterances>>
feedback == <<due, shown, label, pulses, announcer>>
feedbackVars == <<vars, feedback>>

NoBeat == -1

Current == [status |-> status, countdown |-> countdown, due |-> due, history |-> history]

Rendered == shown = Current

deriveCounters(h) == [k \in Kinds |-> Cardinality({i \in DOMAIN h : KindOf[h[i]] = k})]

FeedbackInit ==
    /\ Init
    /\ due = 0 /\ shown = Current
    /\ lag = 0 /\ beat = NoBeat /\ waited = 0
    /\ pulse = [k \in Kinds |-> FALSE] /\ pulseTimer = [k \in Kinds |-> FALSE]
    /\ prevLen = 0 /\ recent = <<>> /\ spoken = 0 /\ utterances = <<>>

-----------------------------------------------------------------------------
(* Effects of a render *)

Retrying == shown.status = "closed" /\ shown.countdown

(* status and nextReconnectAt are those of the last render. A new schedule is *)
(* another nextReconnectAt: it is still to come, and the one it follows is    *)
(* over.                                                                      *)
SameSchedule ==
    /\ shown'.status = shown.status
    /\ shown'.countdown = shown.countdown /\ shown'.due = shown.due

(* The interval would be started by the first countdown only. *)
IntervalOnce ==
    IF SameSchedule THEN UNCHANGED label
    ELSE /\ beat' = IF Retrying' /\ beat = NoBeat /\ waited = 0 THEN TICKS ELSE NoBeat
         /\ UNCHANGED <<lag, waited>>

(* useReconnectLabel; a countdown starts from whatever "now" was read last,  *)
(* and one that replaces another starts the interval again.                  *)
IntervalEffect ==
    IF SameSchedule THEN UNCHANGED label
    ELSE /\ beat' = IF Retrying' THEN TICKS ELSE NoBeat
         /\ waited' = 0
         /\ UNCHANGED lag

(* Only a count that grew would pulse; the cleanup stops the timer all the same. *)
PulseOnGrowth ==
    LET before == deriveCounters(shown.history)
        now == deriveCounters(shown'.history)
    IN  /\ pulseTimer' = [k \in Kinds |-> IF now[k] # before[k] THEN now[k] > before[k]
                                          ELSE pulseTimer[k]]
        /\ pulse' = [k \in Kinds |-> pulse[k] \/ now[k] > before[k]]

(* CounterCell; a count that drops to zero cancels the timer of its pulse. *)
PulseEffect ==
    LET before == deriveCounters(shown.history)
        now == deriveCounters(shown'.history)
        Changed(k) == now[k] # before[k]
    IN  /\ pulseTimer' = [k \in Kinds |-> IF Changed(k) THEN now[k] # 0 ELSE pulseTimer[k]]
        /\ pulse' = [k \in Kinds |-> pulse[k] \/ (Changed(k) /\ now[k] # 0)]

(* recentRef would never be pruned. *)
WithinWindowAlways == Nat

WithinWindow == 0..TICKS - 1

(* useThrottledAnomalyAnnounce; only the last result of a batch is looked at. *)
AnnounceEffect ==
    LET latest == Last(shown'.history)
        kept == Chosen(recent, WithinWindow)
    IN  IF shown'.history = shown.history THEN UNCHANGED announcer
        ELSE /\ prevLen' = Len(shown'.history)
             /\ IF Len(shown'.history) <= prevLen \/ KindOf[latest] = "MATCH"
                THEN UNCHANGED <<recent, spoken, utterances>>
                ELSE IF Len(kept) >= MAX_ANNOUNCEMENTS_PER_SEC
                THEN recent' = kept /\ UNCHANGED <<spoken, utterances>>
                ELSE /\ recent' = Append(kept, 0)
                     /\ spoken' = latest /\ utterances' = Append(utterances, 0)

Render ==
    /\ Mounted /\ ~Rendered
    /\ shown' = Current
    /\ IntervalEffect /\ PulseEffect /\ AnnounceEffect
    /\ UNCHANGED <<vars, due>>

-----------------------------------------------------------------------------
(* Timers and the clock *)

IntervalFires ==
    /\ beat = 0
    /\ beat' = TICKS /\ lag' = 0
    /\ UNCHANGED <<vars, due, shown, waited, pulses, announcer>>

PulseTimeout(k) ==
    /\ pulseTimer[k]
    /\ pulseTimer' = [pulseTimer EXCEPT ![k] = FALSE] /\ pulse' = [pulse EXCEPT ![k] = FALSE]
    /\ UNCHANGED <<vars, due, shown, label, announcer>>

Aged(ages) == [i \in DOMAIN ages |-> AtMost(TICKS, ages[i] + 1)]

Recently == 0..TICKS - 1

Tick ==
    /\ Mounted /\ Rendered /\ beat # 0 /\ \A k \in Kinds : ~pulseTimer[k]
    /\ countdown => due > -MaxLate
    /\ due' = IF countdown THEN due - 1 ELSE 0
    /\ lag' = AtMost(MaxLag, lag + 1)
    /\ beat' = IF beat = NoBeat THEN NoBeat ELSE beat - 1
    /\ waited' = IF Retrying THEN AtMost(MaxLag, waited + 1) ELSE waited
    /\ recent' = Aged(recent)
    /\ utterances' = Chosen(Aged(utterances), Recently)
    /\ UNCHANGED <<vars, pulses, prevLen, spoken>>
    /\ shown' = Current'

(* base and the jitter of at most a fifth of it, in whole units *)
Waits(base) == {w \in 0..2 * BACKOFF_MAX * TICKS :
                    4 * base * TICKS <= 5 * w /\ 5 * w <= 6 * base * TICKS}

-----------------------------------------------------------------------------
(* What module EventStream describes, timed: the due time is set with the    *)
(* timer, and the timer does not fire before.                                *)

StreamStep ==
    /\ \E s \in Slots : OnOpen(s) \/ OnMessage(s) \/ OnClose(s)
    /\ IF timers' = timers THEN due' = IF countdown' THEN due ELSE 0
       ELSE due' \in Waits(backoffRef)
    /\ UNCHANGED <<shown, label, pulses, announcer>>

TimelyReconnect ==
    /\ due <= 0 /\ Reconnect
    /\ due' = 0 /\ UNCHANGED <<shown, label, pulses, announcer>>

StrictMode == StrictModeRemount /\ UNCHANGED feedback

(* The page goes, and its components' state with it. *)
Leave ==
    /\ \E e \in Effects : Unmount(e)
    /\ due' = 0 /\ shown' = Current'
    /\ lag' = 0 /\ beat' = NoBeat /\ waited' = 0
    /\ pulse' = [k \in Kinds |-> FALSE] /\ pulseTimer' = [k \in Kinds |-> FALSE]
    /\ prevLen' = 0 /\ recent' = <<>> /\ spoken' = 0 /\ utterances' = <<>>

Timely ==
    \/ Render \/ IntervalFires \/ Tick \/ TimelyReconnect
    \/ \E k \in Kinds : PulseTimeout(k)

FeedbackNext == StreamStep \/ Timely \/ StrictMode \/ Leave

FeedbackSpec == FeedbackInit /\ [][FeedbackNext]_feedbackVars

(* Time passes, timers fire and React renders. *)
FeedbackFairSpec == FeedbackSpec /\ WF_feedbackVars(Timely)

-----------------------------------------------------------------------------
(* Properties *)

Seconds(units) == (units + TICKS - 1) \div TICKS

(* The number in "Disconnected - retrying in Ns" *)
remainSec == IF shown.due + lag <= 0 THEN 0 ELSE Seconds(shown.due + lag)

(* The countdown never promises less than what is left, and once one and the *)
(* same has been on the screen for a second, it is no more than a second off. *)
(* Before, it may be: "now" is then as old as the last countdown's last       *)
(* second, the time since it ended, or the page.                              *)
CountdownHonest ==
    Rendered /\ Mounted /\ Retrying /\ beat # 0 =>
        /\ remainSec >= Seconds(due)
        /\ waited >= TICKS /\ due >= 0 => remainSec <= Seconds(due) + 1

(* A counter that is drawn larger will be drawn in its usual size again,     *)
(* unless its count went to zero in the middle of the pulse.                 *)
PulseEnds ==
    \A k \in Kinds : pulse[k] => pulseTimer[k] \/ deriveCounters(shown.history)[k] = 0

(* Screen readers hear at most four anomalies in any second, and up to that  *)
(* every one that came last in its batch while the ring still grew. Once it   *)
(* is full, its length stays the same and nothing is announced any more.      *)
AnomaliesAnnounced ==
    [][ /\ Len(utterances') <= MAX_ANNOUNCEMENTS_PER_SEC
        /\ Mounted' /\ Len(shown'.history) > Len(shown.history) =>
             \/ KindOf[Last(shown'.history)] = "MATCH"
             \/ spoken' = Last(shown'.history)
             \/ Len(utterances) = MAX_ANNOUNCEMENTS_PER_SEC ]_feedbackVars

=============================================================================
