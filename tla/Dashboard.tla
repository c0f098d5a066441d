------------------------------ MODULE Dashboard ------------------------------
(***************************************************************************)
(* What the page believes of the session and what the backend has: App.tsx  *)
(* and ConfigBar.tsx against the SessionController, through lib/api.ts.     *)
(*                                                                          *)
(* The page learns of the session only from the answers to its own          *)
(* requests, and of the backend's health only from the WebSocket, whose     *)
(* status module EventStream describes. Requests of one page reach the      *)
(* controller in any order, which handles them one at a time (module        *)
(* Session), and their answers come back in any order, or not at all. There *)
(* is one page, and it is not reloaded.                                     *)
(*                                                                          *)
(* React runs the effects of a state change before it renders the next, so  *)
(* they are part of the step that changes the state.                        *)
(***************************************************************************)
EXTENDS RequestRules, FiniteSets

CONSTANTS
    Forms,          \* the contents the form may be given, of those RequestRules has
    MaxRequests     \* bound: requests the page makes

ASSUME DashboardAssumption ==
    Forms \subseteq Requests /\ EmptyForm \in Forms /\ MaxRequests \in Nat

Ids == 1..MaxRequests

VARIABLES
    sessionStatus,          \* "idle", "live", "stopped", "error"
    submitting, stopping,   \* the request onSubmit, onStop awaits; 0 is none
    fields,                 \* the form's contents
    backendError,           \* the request whose failure the banner tells, or "none"
    autoCollapsed, forceExpanded,
    collapseTimer,          \* armed
    wsStatus,               \* of the event stream
    kind,                   \* of each request: "start", "stop", or "none" yet
    body,                   \* of each start request on its way: what it asks
    answer,                 \* "ok", "refused" by the rules, "failed" to build, or
                            \* "none": at or on its way to the controller
    active,                 \* the controller has a session
    touched,                \* history: the last request that decided whether it has
    told                    \* history: the last such request the page saw answered

form == <<fields, backendError, autoCollapsed, forceExpanded, collapseTimer>>
ui == <<sessionStatus, submitting, stopping, form, wsStatus>>
backend == <<kind, body, answer, active>>
vars == <<ui, backend, touched, told>>

Statuses == {"idle", "live", "stopped", "error"}

Init ==
    /\ sessionStatus = "idle" /\ submitting = 0 /\ stopping = 0
    /\ fields = EmptyForm /\ backendError = "none"
    /\ autoCollapsed = FALSE /\ forceExpanded = FALSE /\ collapseTimer = FALSE
    /\ wsStatus = "connecting"
    /\ kind = [r \in Ids |-> "none"] /\ body = [r \in Ids |-> EmptyForm]
    /\ answer = [r \in Ids |-> "none"]
    /\ active = FALSE /\ touched = 0 /\ told = 0

errors == ~PageAccepts(fields)
sessionActive == sessionStatus = "live"
isCollapsed == autoCollapsed /\ ~errors /\ ~forceExpanded

-----------------------------------------------------------------------------
(* setSessionStatus and the effects that follow a change of it or of the    *)
(* WebSocket's status                                                       *)

(* App's effect: live with a closed WebSocket becomes error. *)
Noticed(s, ws) == IF s = "live" /\ ws = "closed" THEN "error" ELSE s

(* The collapse timer would outlive the session that armed it. *)
CollapseKeepsTimer(s) ==
    IF s = sessionStatus THEN UNCHANGED <<autoCollapsed, forceExpanded, collapseTimer>>
    ELSE IF s = "live"
    THEN collapseTimer' = TRUE /\ UNCHANGED <<autoCollapsed, forceExpanded>>
    ELSE autoCollapsed' = FALSE /\ forceExpanded' = FALSE /\ UNCHANGED collapseTimer

(* ConfigBar's effect and the cleanup of its last run. *)
Collapse(s) ==
    IF s = sessionStatus THEN UNCHANGED <<autoCollapsed, forceExpanded, collapseTimer>>
    ELSE IF s = "live"
    THEN collapseTimer' = TRUE /\ UNCHANGED <<autoCollapsed, forceExpanded>>
    ELSE autoCollapsed' = FALSE /\ forceExpanded' = FALSE /\ collapseTimer' = FALSE

SetStatus(s) ==
    /\ sessionStatus' = Noticed(s, wsStatus')
    /\ Collapse(sessionStatus')

AutoCollapse ==
    /\ collapseTimer /\ collapseTimer' = FALSE
    /\ autoCollapsed' = TRUE
    /\ UNCHANGED <<sessionStatus, submitting, stopping, fields, backendError, forceExpanded,
                   wsStatus, backend, touched, told>>

ToggleForm ==
    /\ forceExpanded' = ~forceExpanded
    /\ UNCHANGED <<sessionStatus, submitting, stopping, fields, backendError, autoCollapsed,
                   collapseTimer, wsStatus, backend, touched, told>>

(* The fields can be edited while they are shown; an edit closes the banner. *)
EditForm ==
    /\ ~isCollapsed /\ fields' \in Forms /\ backendError' = "none"
    /\ UNCHANGED <<sessionStatus, submitting, stopping, autoCollapsed, forceExpanded,
                   collapseTimer, wsStatus, backend, touched, told>>

WsChanges(ws) ==
    /\ wsStatus' = ws
    /\ SetStatus(sessionStatus)
    /\ UNCHANGED <<submitting, stopping, fields, backendError, backend, touched, told>>

-----------------------------------------------------------------------------
(* onSubmit and onStop *)

Send(r, k) ==
    /\ kind[r] = "none" /\ \A q \in Ids : q < r => kind[q] # "none"
    /\ kind' = [kind EXCEPT ![r] = k]
    /\ body' = [body EXCEPT ![r] = IF k = "start" THEN fields ELSE EmptyForm]
    /\ UNCHANGED <<answer, active, touched, told>>

(* The banner of an earlier failure would stay. *)
SubmitUnderBanner(r) ==
    /\ submitting = 0 /\ ~sessionActive /\ ~errors
    /\ submitting' = r /\ Send(r, "start")
    /\ UNCHANGED <<sessionStatus, stopping, form, wsStatus>>

Submit(r) ==
    /\ submitting = 0 /\ ~sessionActive /\ ~errors
    /\ submitting' = r /\ Send(r, "start")
    /\ backendError' = "none"
    /\ UNCHANGED <<sessionStatus, stopping, fields, autoCollapsed, forceExpanded, collapseTimer,
                   wsStatus>>

ClickStop(r) ==
    /\ stopping = 0 /\ sessionActive /\ ~isCollapsed
    /\ stopping' = r /\ Send(r, "stop")
    /\ UNCHANGED <<sessionStatus, submitting, form, wsStatus>>

(* A start that the rules refused left the controller as it was. *)
Told(r) == IF answer[r] = "refused" THEN told ELSE r

StartAnswered ==
    /\ submitting # 0 /\ answer[submitting] # "none"
    /\ submitting' = 0 /\ told' = Told(submitting)
    /\ UNCHANGED <<stopping, fields, wsStatus, backend, touched>>
    /\ IF answer[submitting] = "ok" THEN SetStatus("live") /\ UNCHANGED backendError
       ELSE SetStatus(sessionStatus) /\ backendError' = "start"

StopAnswered ==
    /\ stopping # 0 /\ answer[stopping] # "none"
    /\ stopping' = 0 /\ told' = stopping
    /\ UNCHANGED <<submitting, fields, backendError, wsStatus, backend, touched>>
    /\ SetStatus("stopped")

(* A stop whose answer is lost would be taken for done. *)
AnswerLostStops ==
    /\ \/ submitting # 0 /\ submitting' = 0 /\ backendError' = "start" /\ UNCHANGED stopping
          /\ SetStatus(sessionStatus)
       \/ stopping # 0 /\ stopping' = 0 /\ backendError' = "stop" /\ UNCHANGED submitting
          /\ SetStatus("stopped")
    /\ UNCHANGED <<fields, wsStatus, backend, touched, told>>

(* fetch rejects: the request may yet reach the controller. *)
AnswerLost ==
    /\ \/ submitting # 0 /\ submitting' = 0 /\ backendError' = "start" /\ UNCHANGED stopping
       \/ stopping # 0 /\ stopping' = 0 /\ backendError' = "stop" /\ UNCHANGED submitting
    /\ UNCHANGED <<sessionStatus, fields, autoCollapsed, forceExpanded, collapseTimer, wsStatus,
                   backend, touched, told>>

-----------------------------------------------------------------------------
(* The controller: a start is refused before it touches the session, or     *)
(* after it ended the previous one, or succeeds; a stop always succeeds.    *)

(* The answer is on its way back; what was asked no longer matters. *)
Answer(r, a) ==
    /\ answer' = [answer EXCEPT ![r] = a]
    /\ body' = [body EXCEPT ![r] = EmptyForm]

HandleStart(r) ==
    /\ kind[r] = "start" /\ answer[r] = "none"
    /\ \/ ~BackendAccepts(body[r]) /\ Answer(r, "refused") /\ UNCHANGED <<active, touched>>
       \/ BackendAccepts(body[r]) /\ MayFailToBuild(body[r])
          /\ Answer(r, "failed") /\ active' = FALSE /\ touched' = r
       \/ BackendAccepts(body[r]) /\ CanBuild(body[r])
          /\ Answer(r, "ok") /\ active' = TRUE /\ touched' = r
    /\ UNCHANGED <<ui, kind, told>>

HandleStop(r) ==
    /\ kind[r] = "stop" /\ answer[r] = "none"
    /\ Answer(r, "ok") /\ active' = FALSE /\ touched' = r
    /\ UNCHANGED <<ui, kind, told>>

Next ==
    \/ AutoCollapse \/ ToggleForm \/ EditForm
    \/ \E ws \in {"connecting", "open", "closed"} : WsChanges(ws)
    \/ \E r \in Ids : Submit(r) \/ ClickStop(r) \/ HandleStart(r) \/ HandleStop(r)
    \/ StartAnswered \/ StopAnswered \/ AnswerLost

Spec == Init /\ [][Next]_vars

-----------------------------------------------------------------------------
(* Properties *)

(* Whenever the request that last decided what the controller has is also the *)
(* last of those that the page saw answered, the badge is right: a session    *)
(* shown as live is there, and none is there when it is shown as idle or      *)
(* stopped. So what a lost answer, or one overtaken by another, got wrong is   *)
(* put right by the next answer, whichever requests are under way.            *)
BadgeTruthful ==
    touched = told =>
        /\ sessionStatus = "live" => active
        /\ sessionStatus \in {"idle", "stopped"} => ~active

(* The form can be hidden only while the session is live: neither a late      *)
(* collapse timer nor a dropped WebSocket leaves the page without its Start.  *)
FormReachable == isCollapsed => sessionStatus = "live"

(* A start that fails, or whose answer is lost, is always reported where the  *)
(* user sees it, and no session is shown as live under the banner of a start  *)
(* that failed. (A stop's failure may be hidden by the collapse.)             *)
StartFailureShown ==
    [][ /\ submitting # 0 /\ submitting' = 0 /\ ~sessionActive' =>
              \/ backendError' = "start" /\ ~isCollapsed'
              \/ answer[submitting] = "ok"
        /\ backendError' = "start" => ~sessionActive' ]_vars

=============================================================================
