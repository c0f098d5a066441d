------------------------------- MODULE Ledger -------------------------------
(***************************************************************************)
(* The list of results, EventLedger.tsx: its filter, its scroll position    *)
(* and the pill that counts rows which arrived out of sight.                *)
(*                                                                          *)
(* Results come from the hook's ring (module EventStream, external here)    *)
(* and are rendered in batches. React commits a batch to the page first and *)
(* runs the component's effect later, before any other render; what a       *)
(* click changes it renders at once, before results that wait. The handler  *)
(* of scroll events is the one the last render made, and sees the pill of   *)
(* that render. Positions are counted in rows; the browser (external) keeps *)
(* them within the list, reports a change with a later event, and may or    *)
(* may not keep the rows in view in place when others above them go away.   *)
(***************************************************************************)
EXTENDS Naturals, Sequences, FiniteSets

CONSTANTS
    MAX_HISTORY,    \* of the ring
    PILL_MAX,       \* 999 in the code
    ViewRows,       \* rows that fit into the list
    MaxBatch,       \* bound: results rendered at once
    MaxResults      \* bound: results received

ASSUME LedgerAssumption ==
    /\ MAX_HISTORY \in Nat \ {0} /\ PILL_MAX \in Nat \ {0} /\ ViewRows \in Nat \ {0}
    /\ MaxBatch \in Nat \ {0} /\ MaxResults \in Nat

VARIABLES
    waiting,        \* results received and not yet rendered
    history, filter,\* as rendered
    top,            \* scrollTop: rows above the view
    glide,          \* where a smooth scroll is going; Still is nowhere
    scrolled,       \* a scroll event is due
    effectDue,      \* committed, and the effect has not run
    previousLength, \* previousLengthRef
    pendingNew,     \* the pill's count, as set
    pill,           \* and as rendered last
    received,       \* history: number of results received
    missed,         \* history: rows rendered since the list was last at
                    \* its bottom, or was asked to go there
    countable       \* history: since then the filter was not changed and
                    \* the full ring dropped no row of the list

list == <<history, filter>>
scroll == <<top, glide, scrolled>>
notice == <<previousLength, pendingNew, pill>>
seen == <<missed, countable>>
ledgerVars == <<waiting, list, scroll, effectDue, notice, received, seen>>

Kinds == {"MATCH", "MISMATCH", "ORPHAN"}
Filters == {"all", "mismatches", "orphans"}
Still == MAX_HISTORY + 1

passesFilter(kind, f) ==
    \/ f = "all"
    \/ f = "mismatches" /\ kind = "MISMATCH"
    \/ f = "orphans" /\ kind = "ORPHAN"

(* The number of results of h that the list shows. *)
Rows(h, f) == Cardinality({i \in DOMAIN h : passesFilter(h[i], f)})

count == Rows(history, filter)

Smaller(m, n) == IF m < n THEN m ELSE n
Minus(m, n) == IF m > n THEN m - n ELSE 0

(* The last position the browser lets the list scroll to. *)
Bottom(rows) == Minus(rows, ViewRows)

isPinnedToBottom == top >= Bottom(count)

LedgerInit ==
    /\ waiting = <<>> /\ history = <<>> /\ filter = "all"
    /\ top = 0 /\ glide = Still /\ scrolled = FALSE
    /\ effectDue = FALSE /\ previousLength = 0 /\ pendingNew = 0 /\ pill = 0
    /\ received = 0 /\ missed = 0 /\ countable = TRUE

-----------------------------------------------------------------------------
(* Renders *)

Receive(kind) ==
    /\ received < MaxResults /\ Len(waiting) < MaxBatch
    /\ received' = received + 1 /\ waiting' = Append(waiting, kind)
    /\ UNCHANGED <<list, scroll, effectDue, notice, seen>>

(* The list moves to position t; whoever listens will hear of it. *)
MoveTo(t) == top' = t /\ scrolled' = (scrolled \/ t # top)

CommitBatch ==
    LET all == history \o waiting
        over == Minus(Len(all), MAX_HISTORY)
        kept == SubSeq(all, over + 1, Len(all))
        gone == Rows(SubSeq(all, 1, over), filter)
        rows == Rows(kept, filter)
    IN  /\ waiting # <<>> /\ ~effectDue
        /\ history' = kept
        /\ waiting' = <<>> /\ pill' = pendingNew
        /\ effectDue' = (rows # count)
        /\ \E t \in {top, Minus(top, gone)} : MoveTo(Smaller(t, Bottom(rows)))
        /\ missed' = missed + Rows(waiting, filter) /\ countable' = (countable /\ gone = 0)
        /\ UNCHANGED <<filter, glide, previousLength, pendingNew, received>>

RenderPill ==
    /\ pill # pendingNew /\ pill' = pendingNew
    /\ UNCHANGED <<waiting, list, scroll, effectDue, previousLength, pendingNew, received, seen>>

(* The pill would count the last batch only. *)
CountLastBatch(rows, pinned) ==
    /\ previousLength' = rows
    /\ pendingNew' = IF rows <= previousLength \/ pinned THEN pendingNew
                     ELSE Smaller(PILL_MAX, rows - previousLength)

(* What the effect does of a list that has grown to "rows". *)
CountNew(rows, pinned) ==
    /\ previousLength' = rows
    /\ pendingNew' = IF rows <= previousLength \/ pinned THEN pendingNew
                     ELSE Smaller(PILL_MAX, pendingNew + (rows - previousLength))

Effect ==
    /\ effectDue /\ effectDue' = FALSE
    /\ CountNew(count, isPinnedToBottom)
    /\ missed' = IF isPinnedToBottom THEN 0 ELSE missed
    /\ UNCHANGED <<waiting, list, scroll, pill, received, countable>>

(* A FilterChip's click; the effect runs with the render. *)
SetFilter(f) ==
    /\ f # filter /\ ~effectDue
    /\ filter' = f /\ pill' = pendingNew
    /\ LET rows == Rows(history, f)
           t == Smaller(top, Bottom(rows))
       IN  MoveTo(t) /\ CountNew(rows, t = Bottom(rows))
    /\ missed' = 0 /\ countable' = FALSE
    /\ UNCHANGED <<waiting, history, glide, effectDue, received>>

-----------------------------------------------------------------------------
(* Scrolling *)

UserScrolls(t) ==
    /\ t <= Bottom(count) /\ t # top
    /\ MoveTo(t) /\ glide' = Still
    /\ UNCHANGED <<waiting, list, effectDue, notice, received, seen>>

(* The smooth scroll goes to where the bottom was when it began. *)
Glide ==
    /\ glide # Still /\ glide' = Still
    /\ MoveTo(Smaller(glide, Bottom(count)))
    /\ UNCHANGED <<waiting, list, effectDue, notice, received, seen>>

(* The pill's click; an effect that is due adds what it counts afterwards. *)
scrollToBottom ==
    /\ pill > 0
    /\ glide' = Bottom(count)
    /\ pendingNew' = 0 /\ pill' = 0
    /\ missed' = 0 /\ countable' = TRUE
    /\ UNCHANGED <<waiting, list, top, scrolled, effectDue, previousLength, received>>

onScroll ==
    /\ scrolled /\ scrolled' = FALSE
    /\ pendingNew' = IF isPinnedToBottom /\ pill > 0 THEN 0 ELSE pendingNew
    /\ missed' = IF isPinnedToBottom THEN 0 ELSE missed
    /\ countable' = (countable \/ isPinnedToBottom)
    /\ UNCHANGED <<waiting, list, top, glide, effectDue, previousLength, pill, received>>

LedgerNext ==
    \/ \E kind \in Kinds : Receive(kind)
    \/ CommitBatch \/ RenderPill \/ Effect
    \/ \E f \in Filters : SetFilter(f)
    \/ \E t \in 0..MAX_HISTORY : UserScrolls(t)
    \/ Glide \/ scrollToBottom \/ onScroll

LedgerSpec == LedgerInit /\ [][LedgerNext]_ledgerVars

-----------------------------------------------------------------------------
(* Properties *)

(* The pill never counts less than the rows the user has not been shown:     *)
(* those that arrived since the list was last at its bottom, up to 999. It   *)
(* may count more, and it counts too little when the full ring drops a row   *)
(* of the list for each that comes, or the filter changes.                   *)
PillNeverShort ==
    countable /\ ~effectDue => pendingNew >= Smaller(missed, PILL_MAX)

=============================================================================
