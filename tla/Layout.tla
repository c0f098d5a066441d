------------------------------- MODULE Layout -------------------------------
(***************************************************************************)
(* What the page remembers over a reload: the preferences, the width of the *)
(* ledger and the dismissed tip, between React's state and localStorage     *)
(* (lib/prefs.ts, usePrefs.ts, SplitPane.tsx, PreferencesPopover.tsx,       *)
(* OnboardingCard.tsx and App.tsx).                                         *)
(*                                                                          *)
(* One pointer drags the divider and presses buttons; keys may be hit at    *)
(* any time. React renders what a press or a key changed before the next    *)
(* event, but a pointer's moves some time later, so a handler may be that   *)
(* of a render before the last move. Other tabs of the browser share the    *)
(* storage (external). Widths on the page are counted in half pixels, as a  *)
(* zoomed page has fractions of them; those in the storage are whole.       *)
(***************************************************************************)
EXTENDS Integers

CONSTANTS
    MIN_LEDGER_WIDTH, MAX_LEDGER_WIDTH, DEFAULT_LEDGER_WIDTH,   \* in pixels
    KeyStep,        \* 16 in the code
    HandleWidth,    \* of the divider, in half pixels: 4 px in the code
    Absent, Garbage,            \* what a key holds besides what is saved under it
    StoredPrefs, StoredWidths   \* what the storage may hold at first

Preferences == [compact : BOOLEAN, showEventType : BOOLEAN]

ASSUME LayoutAssumption ==
    /\ {MIN_LEDGER_WIDTH, MAX_LEDGER_WIDTH, DEFAULT_LEDGER_WIDTH, KeyStep, HandleWidth} \subseteq Nat
    /\ MIN_LEDGER_WIDTH <= DEFAULT_LEDGER_WIDTH /\ DEFAULT_LEDGER_WIDTH <= MAX_LEDGER_WIDTH
    /\ \A none \in {Absent, Garbage} :
          none \notin Nat /\ none \notin Preferences /\ none # "1"
    /\ \A blob \in StoredPrefs \ {Absent, Garbage} :
          \E fields \in SUBSET {"compact", "showEventType"} : blob \in [fields -> BOOLEAN]
    /\ \A width \in StoredWidths \ {Absent, Garbage} : width \in Int

VARIABLES
    localStorage,   \* its three keys
    storage,        \* it "works", is "full", or "denied" to the page
    preferences, ledgerWidth, showOnboarding,
    leftWidth,      \* ledgerWidth as rendered last
    open,           \* the popover
    draggingRef,
    pressed,        \* what the pointer went down on; "none" is up
    openAtPress,    \* history: the popover was open when its button was pressed,
                    \* or as Esc or a key left it since
    hurried,        \* history: the pointer went up before its last move was rendered
    foreign         \* history: keys that another tab wrote last

shown == <<preferences, ledgerWidth, showOnboarding, leftWidth>>
pointer == <<open, draggingRef, pressed, openAtPress>>
layoutVars == <<localStorage, storage, shown, pointer, hurried, foreign>>

Keys == {"prefs", "ledgerWidth", "hasSeenOnboarding"}
Widths == 2 * MIN_LEDGER_WIDTH .. 2 * MAX_LEDGER_WIDTH

-----------------------------------------------------------------------------
(* lib/prefs.ts *)

DEFAULT_PREFS == [compact |-> FALSE, showEventType |-> TRUE]

Readable == storage # "denied"

(* A blob lacks a field, has one that is no boolean, or is none at all. *)
loadPreferences ==
    IF ~Readable \/ localStorage.prefs \in {Absent, Garbage} THEN DEFAULT_PREFS
    ELSE [f \in DOMAIN DEFAULT_PREFS |->
            IF f \in DOMAIN localStorage.prefs THEN localStorage.prefs[f] ELSE DEFAULT_PREFS[f]]

clampLedgerWidth(w) ==
    IF w < 2 * MIN_LEDGER_WIDTH THEN 2 * MIN_LEDGER_WIDTH
    ELSE IF w > 2 * MAX_LEDGER_WIDTH THEN 2 * MAX_LEDGER_WIDTH ELSE w

loadLedgerWidth ==
    IF ~Readable \/ localStorage.ledgerWidth \in {Absent, Garbage} THEN 2 * DEFAULT_LEDGER_WIDTH
    ELSE clampLedgerWidth(2 * localStorage.ledgerWidth)

hasSeenOnboarding == ~Readable \/ localStorage.hasSeenOnboarding # Absent

(* Math.round of a width in half pixels *)
Rounded(w) == (w + 1) \div 2

(* setItem throws unless the storage works, and the page goes on. *)
Save(key, value) ==
    /\ localStorage' = IF storage = "works" THEN [localStorage EXCEPT ![key] = value]
                       ELSE localStorage
    /\ foreign' = foreign \ {key}

savePreferences(prefs) == Save("prefs", prefs)

saveLedgerWidth(w) == Save("ledgerWidth", Rounded(w))

markOnboardingSeen == Save("hasSeenOnboarding", "1")

-----------------------------------------------------------------------------
(* App's and the components' first render *)
LayoutInit ==
    /\ localStorage \in [prefs : StoredPrefs, ledgerWidth : StoredWidths,
                         hasSeenOnboarding : {Absent, "1"}]
    /\ storage \in {"works", "full", "denied"}
    /\ preferences = loadPreferences /\ showOnboarding = ~hasSeenOnboarding
    /\ ledgerWidth = loadLedgerWidth /\ leftWidth = ledgerWidth
    /\ open = FALSE /\ draggingRef = FALSE /\ pressed = "none" /\ openAtPress = FALSE
    /\ hurried = FALSE /\ foreign = {}

Reload ==
    /\ preferences' = loadPreferences /\ showOnboarding' = ~hasSeenOnboarding
    /\ ledgerWidth' = loadLedgerWidth /\ leftWidth' = ledgerWidth'
    /\ open' = FALSE /\ draggingRef' = FALSE /\ pressed' = "none" /\ openAtPress' = FALSE
    /\ hurried' = FALSE /\ foreign' = {}
    /\ UNCHANGED <<localStorage, storage>>

OtherTab ==
    /\ storage = "works"
    /\ \E key \in Keys :
        \E value \in CASE key = "prefs" -> Preferences
                       [] key = "ledgerWidth" -> MIN_LEDGER_WIDTH..MAX_LEDGER_WIDTH
                       [] key = "hasSeenOnboarding" -> {"1"} :
            /\ localStorage' = [localStorage EXCEPT ![key] = value]
            /\ foreign' = foreign \cup {key}
    /\ UNCHANGED <<storage, shown, pointer, hurried>>

-----------------------------------------------------------------------------
(* The divider *)

setLedgerWidth(w) == ledgerWidth' = w /\ UNCHANGED <<preferences, showOnboarding>>

RenderMove ==
    /\ leftWidth # ledgerWidth /\ leftWidth' = ledgerWidth
    /\ UNCHANGED <<localStorage, storage, preferences, ledgerWidth, showOnboarding, pointer,
                   hurried, foreign>>

(* While the divider holds the pointer, moves anywhere are its own; without  *)
(* it, only those over it.                                                   *)
onPointerMove(x) ==
    /\ draggingRef
    /\ pressed = "divider" \/ x \in leftWidth..leftWidth + HandleWidth
    /\ setLedgerWidth(clampLedgerWidth(x))
    /\ UNCHANGED <<localStorage, storage, leftWidth, pointer, hurried, foreign>>

(* The divider was pressed: nothing listens for its pointer's cancellation.  *)
PointerCancelled ==
    /\ pressed = "divider" /\ pressed' = "none"
    /\ UNCHANGED <<localStorage, storage, shown, open, draggingRef, openAtPress, hurried, foreign>>

(* The drag would be left to whoever ends it. *)
endDragUnsaved(w) == draggingRef' = FALSE /\ UNCHANGED <<localStorage, foreign>>

endDrag(w) == draggingRef' = FALSE /\ saveLedgerWidth(w)

onPointerUp ==
    /\ pressed = "divider" /\ pressed' = "none"
    /\ endDrag(leftWidth)
    /\ hurried' = (leftWidth # ledgerWidth)
    /\ UNCHANGED <<storage, shown, open, openAtPress>>

(* ArrowLeft and ArrowRight; a move that waits is rendered later, but the    *)
(* key's width comes after it.                                               *)
onKeyDown(step) ==
    LET next == clampLedgerWidth(leftWidth + 2 * step)
    IN  /\ setLedgerWidth(next) /\ leftWidth' = next
        /\ saveLedgerWidth(next) /\ hurried' = FALSE
        /\ UNCHANGED <<storage, pointer>>

-----------------------------------------------------------------------------
(* The popover and the tip *)

(* The document's listener would close the popover under its own button. *)
ClosesAnywhere(target) == open /\ target # "panel"

(* onDocClick *)
Closes(target) == open /\ target \notin {"panel", "button"}

MouseDown(target) ==
    /\ pressed = "none" /\ (target = "panel" => open)
    /\ pressed' = target
    /\ draggingRef' = (draggingRef \/ target = "divider")
    /\ open' = (open /\ ~Closes(target)) /\ openAtPress' = (open /\ target = "button")
    /\ UNCHANGED <<localStorage, storage, shown, hurried, foreign>>

(* A click is a press and a release of one target, or a key. *)
Release ==
    /\ pressed \in {"panel", "button", "elsewhere"}
    /\ pressed' = "none" /\ openAtPress' = FALSE
    /\ UNCHANGED <<localStorage, storage, shown, open, draggingRef, hurried, foreign>>

ClickButton ==
    /\ pressed = "button" /\ pressed' = "none" /\ openAtPress' = FALSE
    /\ open' = ~open
    /\ UNCHANGED <<localStorage, storage, shown, draggingRef, hurried, foreign>>

KeyOnButton ==
    /\ open' = ~open /\ openAtPress' = (open' /\ pressed = "button")
    /\ UNCHANGED <<localStorage, storage, shown, draggingRef, pressed, hurried, foreign>>

onEsc ==
    /\ open /\ open' = FALSE /\ openAtPress' = FALSE
    /\ UNCHANGED <<localStorage, storage, shown, draggingRef, pressed, hurried, foreign>>

(* ToggleRow's change and usePrefs *)
update(field) ==
    /\ open
    /\ preferences' = [preferences EXCEPT ![field] = ~@]
    /\ savePreferences(preferences')
    /\ UNCHANGED <<storage, ledgerWidth, showOnboarding, leftWidth, pointer, hurried>>

dismissOnboarding ==
    /\ showOnboarding /\ showOnboarding' = FALSE
    /\ markOnboardingSeen
    /\ UNCHANGED <<storage, preferences, ledgerWidth, leftWidth, pointer, hurried>>

LayoutNext ==
    \/ Reload \/ OtherTab \/ RenderMove \/ onPointerUp \/ PointerCancelled
    \/ \E x \in 0..2 * MAX_LEDGER_WIDTH + HandleWidth : onPointerMove(x)
    \/ \E step \in {KeyStep, -KeyStep} : onKeyDown(step)
    \/ \E target \in {"divider", "button", "panel", "elsewhere"} : MouseDown(target)
    \/ Release \/ ClickButton \/ KeyOnButton \/ onEsc
    \/ \E field \in {"compact", "showEventType"} : update(field)
    \/ dismissOnboarding

LayoutSpec == LayoutInit /\ [][LayoutNext]_layoutVars

-----------------------------------------------------------------------------
(* Properties *)

(* A reload shows the page as it was, up to half a pixel, if the storage      *)
(* works and no other tab wrote to it since. The width is that of the last    *)
(* render before the pointer went up, and none is saved for a drag that was   *)
(* cancelled.                                                                 *)
ReloadKeepsLayout ==
    [][ Reload /\ storage = "works" =>
          /\ "prefs" \notin foreign => preferences' = preferences
          /\ "hasSeenOnboarding" \notin foreign => showOnboarding' = showOnboarding
          /\ "ledgerWidth" \notin foreign /\ ~draggingRef /\ ~hurried =>
                ledgerWidth' = 2 * Rounded(ledgerWidth) ]_layoutVars

(* A click on the settings button opens the popover that was closed when the *)
(* button was pressed, or that Esc or a key closed since, and closes the one *)
(* that was open, although the press is seen by the listener that closes it. *)
PopoverToggles == [][ ClickButton => open' = ~openAtPress ]_layoutVars

=============================================================================
