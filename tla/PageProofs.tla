----------------------------- MODULE PageProofs -----------------------------
(***************************************************************************)
(* Proofs about the parts of the page: its session control (Dashboard), its *)
(* list of results (Ledger) and what it remembers (Layout), each for every   *)
(* value of its constants.                                                  *)
(*                                                                          *)
(* The page sees the controller only through answers, in any order and with  *)
(* some of them lost, so the badge is about one request and the controller   *)
(* about another; each tells what its own request left behind, and they agree *)
(* when the two are one.                                                     *)
(***************************************************************************)
EXTENDS Dashboard, Ledger, Layout, FiniteSetTheorems, FunctionTheorems, SequenceTheorems, TLAPS

-----------------------------------------------------------------------------
(* The session control *)

Typed ==
    /\ sessionStatus \in Statuses
    /\ submitting \in Ids \cup {0} /\ stopping \in Ids \cup {0}
    /\ fields \in Requests /\ backendError \in {"none", "start", "stop"}
    /\ kind \in [Ids -> {"none", "start", "stop"}]
    /\ answer \in [Ids -> {"none", "ok", "refused", "failed"}]
    /\ active \in BOOLEAN /\ touched \in Ids \cup {0} /\ told \in Ids \cup {0}

(* Only a live session folds the form away, or is about to. *)
FoldedWhenLive == autoCollapsed \/ collapseTimer => sessionStatus = "live"

(* A start is made, and its failure told, only while nothing is live. *)
StartWhenNotLive ==
    /\ submitting # 0 => sessionStatus # "live" /\ backendError # "start"
    /\ backendError = "start" => sessionStatus # "live"

(* What the page awaits is what it asked for, no request is answered before  *)
(* it was made, and a stop never fails.                                      *)
Awaited ==
    /\ submitting # 0 => kind[submitting] = "start"
    /\ stopping # 0 => kind[stopping] = "stop"
    /\ \A r \in Ids : kind[r] = "none" => answer[r] = "none"
    /\ \A r \in Ids : kind[r] = "stop" => answer[r] \in {"none", "ok"}

(* The request left a session behind. *)
Opened(r) == kind[r] = "start" /\ answer[r] = "ok"

(* The controller has what the last request that touched it left behind.     *)
ActiveAsTouched ==
    /\ touched = 0 => ~active
    /\ touched # 0 => answer[touched] # "none" /\ (active <=> Opened(touched))

(* The badge says what the last of them the page was told of left behind.    *)
BadgeAsTold ==
    /\ told # 0 => answer[told] # "none"
    /\ sessionStatus = "live" => told # 0 /\ Opened(told)
    /\ sessionStatus \in {"idle", "stopped"} => told = 0 \/ ~Opened(told)

PageInv == Typed /\ FoldedWhenLive /\ StartWhenNotLive

IInv == PageInv /\ Awaited /\ ActiveAsTouched /\ BadgeAsTold

-----------------------------------------------------------------------------
(* The page *)

(* What setSessionStatus does with the badge and the fold. *)
LEMMA SetStatusKeeps ==
  ASSUME Typed, FoldedWhenLive, NEW s \in Statuses, SetStatus(s)
  PROVE  /\ sessionStatus' \in Statuses /\ FoldedWhenLive'
         /\ sessionStatus' = s \/ (s = "live" /\ sessionStatus' = "error")
<1>1. sessionStatus' = Noticed(s, wsStatus') /\ Collapse(sessionStatus')
  BY DEF SetStatus
<1>2. /\ sessionStatus' \in Statuses
      /\ sessionStatus' = s \/ (s = "live" /\ sessionStatus' = "error")
  BY <1>1 DEF Noticed, Statuses
<1>3. FoldedWhenLive'
  <2>1. CASE sessionStatus' = sessionStatus
    BY <1>1, <2>1 DEF Collapse, FoldedWhenLive
  <2>2. CASE sessionStatus' # sessionStatus /\ sessionStatus' = "live"
    BY <2>2 DEF FoldedWhenLive
  <2>3. CASE sessionStatus' # sessionStatus /\ sessionStatus' # "live"
    BY <1>1, <2>3 DEF Collapse, FoldedWhenLive
  <2>4. QED
    BY <2>1, <2>2, <2>3
<1>4. QED
  BY <1>2, <1>3

LEMMA FormStepsKeepPage ==
  ASSUME PageInv, AutoCollapse \/ ToggleForm \/ EditForm
  PROVE  /\ PageInv'
         /\ UNCHANGED <<sessionStatus, submitting, stopping, backend, touched, told>>
<1>1. UNCHANGED <<sessionStatus, submitting, stopping, backend, touched, told>>
  BY DEF AutoCollapse, ToggleForm, EditForm
<1>2. fields' \in Requests
  BY DashboardAssumption DEF AutoCollapse, ToggleForm, EditForm, PageInv, Typed
<1>3. backendError' \in {backendError, "none"}
  BY DEF AutoCollapse, ToggleForm, EditForm
<1>4. Typed' /\ StartWhenNotLive'
  BY <1>1, <1>2, <1>3 DEF PageInv, Typed, StartWhenNotLive, backend
<1>5. FoldedWhenLive'
  BY <1>1 DEF AutoCollapse, ToggleForm, EditForm, PageInv, FoldedWhenLive
<1>6. QED
  BY <1>1, <1>4, <1>5 DEF PageInv

LEMMA WsChangesKeepsPage ==
  ASSUME PageInv, NEW ws, WsChanges(ws)
  PROVE  /\ PageInv'
         /\ sessionStatus' = sessionStatus \/ (sessionStatus = "live" /\ sessionStatus' = "error")
         /\ UNCHANGED <<submitting, stopping, backend, touched, told>>
<1>1. SetStatus(sessionStatus)
      /\ UNCHANGED <<submitting, stopping, fields, backendError, backend, touched, told>>
  BY DEF WsChanges
<1>2. /\ sessionStatus' \in Statuses /\ FoldedWhenLive'
      /\ sessionStatus' = sessionStatus \/ (sessionStatus = "live" /\ sessionStatus' = "error")
  BY <1>1, SetStatusKeeps DEF PageInv, Typed
<1>3. Typed' /\ StartWhenNotLive'
  BY <1>1, <1>2 DEF PageInv, Typed, StartWhenNotLive, backend
<1>4. QED
  BY <1>1, <1>2, <1>3 DEF PageInv

LEMMA SubmitKeepsPage ==
  ASSUME PageInv, NEW r \in Ids, Submit(r)
  PROVE  PageInv'
<1>1. /\ sessionStatus # "live" /\ submitting' = r /\ backendError' = "none"
      /\ UNCHANGED <<sessionStatus, stopping, fields, autoCollapsed, collapseTimer, answer, active,
                     touched, told>>
      /\ kind' = [kind EXCEPT ![r] = "start"]
  BY DEF Submit, Send, sessionActive
<1>2. QED
  BY <1>1 DEF PageInv, Typed, FoldedWhenLive, StartWhenNotLive

LEMMA ClickStopKeepsPage ==
  ASSUME PageInv, NEW r \in Ids, ClickStop(r)
  PROVE  PageInv'
<1>1. /\ stopping' = r /\ kind' = [kind EXCEPT ![r] = "stop"]
      /\ UNCHANGED <<sessionStatus, submitting, fields, backendError, autoCollapsed,
                     collapseTimer, answer, active, touched, told>>
  BY DEF ClickStop, Send, form
<1>2. QED
  BY <1>1 DEF PageInv, Typed, FoldedWhenLive, StartWhenNotLive

LEMMA StartAnsweredKeepsPage ==
  ASSUME PageInv, StartAnswered
  PROVE  /\ PageInv'
         /\ answer[submitting] = "ok" => sessionStatus' \in {"live", "error"}
         /\ answer[submitting] # "ok" => sessionStatus' = sessionStatus /\ backendError' = "start"
<1>1. /\ submitting # 0 /\ submitting' = 0 /\ told' \in {told, submitting}
      /\ UNCHANGED <<stopping, fields, wsStatus, backend, touched>>
  BY DEF StartAnswered, Told
<1>2. sessionStatus # "live" /\ backendError # "start"
  BY <1>1 DEF PageInv, StartWhenNotLive
<1>3. CASE answer[submitting] = "ok"
  <2>1. SetStatus("live") /\ UNCHANGED backendError
    BY <1>3 DEF StartAnswered
  <2>2. sessionStatus' \in Statuses /\ FoldedWhenLive' /\ sessionStatus' \in {"live", "error"}
    BY <2>1, SetStatusKeeps DEF PageInv, Statuses
  <2>3. QED
    BY <1>1, <1>2, <1>3, <2>1, <2>2 DEF PageInv, Typed, StartWhenNotLive, backend
<1>4. CASE answer[submitting] # "ok"
  <2>1. SetStatus(sessionStatus) /\ backendError' = "start"
    BY <1>4 DEF StartAnswered
  <2>2. sessionStatus' = sessionStatus /\ FoldedWhenLive'
    BY <1>2, <2>1, SetStatusKeeps DEF PageInv, Typed
  <2>3. QED
    BY <1>1, <1>2, <1>4, <2>1, <2>2 DEF PageInv, Typed, StartWhenNotLive, backend
<1>5. QED
  BY <1>3, <1>4

LEMMA StopAnsweredKeepsPage ==
  ASSUME PageInv, StopAnswered
  PROVE  PageInv' /\ sessionStatus' = "stopped"
<1>1. /\ stopping' = 0 /\ told' = stopping /\ SetStatus("stopped")
      /\ UNCHANGED <<submitting, fields, backendError, backend, touched>>
  BY DEF StopAnswered
<1>2. sessionStatus' = "stopped" /\ FoldedWhenLive' /\ sessionStatus' \in Statuses
  BY <1>1, SetStatusKeeps DEF PageInv, Statuses
<1>3. QED
  BY <1>1, <1>2 DEF PageInv, Typed, StartWhenNotLive, backend

LEMMA AnswerLostKeepsPage ==
  ASSUME PageInv, AnswerLost
  PROVE  PageInv'
<1>1. UNCHANGED <<sessionStatus, fields, autoCollapsed, collapseTimer, kind, answer, active,
                  touched, told>>
  BY DEF AnswerLost, backend
<1>2. \/ submitting # 0 /\ submitting' = 0 /\ backendError' = "start" /\ UNCHANGED stopping
      \/ stopping' = 0 /\ backendError' = "stop" /\ UNCHANGED submitting
  BY DEF AnswerLost
<1>3. QED
  BY <1>1, <1>2 DEF PageInv, Typed, FoldedWhenLive, StartWhenNotLive

LEMMA HandlersKeepPage ==
  ASSUME PageInv, NEW r \in Ids, HandleStart(r) \/ HandleStop(r)
  PROVE  /\ PageInv' /\ UNCHANGED <<ui, kind, told>>
         /\ kind[r] # "none" /\ answer[r] = "none"
         /\ \/ /\ kind[r] = "start" /\ answer' = [answer EXCEPT ![r] = "ok"]
               /\ active' /\ touched' = r
            \/ /\ kind[r] = "start" /\ answer' = [answer EXCEPT ![r] = "failed"]
               /\ ~active' /\ touched' = r
            \/ /\ kind[r] = "start" /\ answer' = [answer EXCEPT ![r] = "refused"]
               /\ UNCHANGED <<active, touched>>
            \/ /\ kind[r] = "stop" /\ answer' = [answer EXCEPT ![r] = "ok"]
               /\ ~active' /\ touched' = r
<1>1. UNCHANGED <<ui, kind, told>> /\ kind[r] # "none" /\ answer[r] = "none"
  BY DEF HandleStart, HandleStop
<1>2. \/ /\ kind[r] = "start" /\ answer' = [answer EXCEPT ![r] = "ok"]
         /\ active' = TRUE /\ touched' = r
      \/ /\ kind[r] = "start" /\ answer' = [answer EXCEPT ![r] = "failed"]
         /\ active' = FALSE /\ touched' = r
      \/ /\ kind[r] = "start" /\ answer' = [answer EXCEPT ![r] = "refused"]
         /\ UNCHANGED <<active, touched>>
      \/ /\ kind[r] = "stop" /\ answer' = [answer EXCEPT ![r] = "ok"]
         /\ active' = FALSE /\ touched' = r
  BY DEF HandleStart, HandleStop, Answer
<1>3. PageInv'
  BY <1>1, <1>2 DEF PageInv, Typed, FoldedWhenLive, StartWhenNotLive, ui, form
<1>4. QED
  BY <1>1, <1>2, <1>3

LEMMA PageInitially == Init => PageInv
  BY DashboardAssumption DEF Init, PageInv, Typed, FoldedWhenLive, StartWhenNotLive, Statuses

LEMMA PageInductive == PageInv /\ [Next]_vars => PageInv'
<1> SUFFICES ASSUME PageInv, [Next]_vars PROVE PageInv'
  OBVIOUS
<1>1. CASE UNCHANGED vars
  BY <1>1 DEF vars, ui, form, backend, PageInv, Typed, FoldedWhenLive, StartWhenNotLive
<1>2. QED
  BY <1>1, FormStepsKeepPage, WsChangesKeepsPage, SubmitKeepsPage, ClickStopKeepsPage,
     HandlersKeepPage, StartAnsweredKeepsPage, StopAnsweredKeepsPage, AnswerLostKeepsPage
     DEF Next

THEOREM PageInvariance == Spec => []PageInv
  BY PageInitially, PageInductive, PTL DEF Spec

(* The page is never left without its Start: only the form of a live session *)
(* is hidden, however late the collapse timer fires and whenever the          *)
(* WebSocket closes.                                                          *)
THEOREM FormNeverLost == Spec => []FormReachable
<1>1. PageInv => FormReachable
  BY DEF PageInv, FoldedWhenLive, FormReachable, isCollapsed
<1>2. QED
  BY <1>1, PageInvariance, PTL

(* A start that fails is always told where it can be seen, and never beside a *)
(* session shown as live.                                                     *)
THEOREM FailuresShown == Spec => StartFailureShown
<1>1. ASSUME PageInv, PageInv', Next, submitting # 0, submitting' = 0, ~sessionActive'
      PROVE  \/ backendError' = "start" /\ ~isCollapsed'
             \/ answer[submitting] = "ok"
  <2>1. ~isCollapsed'
    BY <1>1 DEF PageInv, FoldedWhenLive, isCollapsed, sessionActive
  <2>2. CASE StartAnswered
    BY <2>1, <2>2, <1>1, StartAnsweredKeepsPage
  <2>3. CASE AnswerLost
    BY <2>1, <2>3, <1>1 DEF AnswerLost
  <2>4. ASSUME NEW r \in Ids, Submit(r) \/ ClickStop(r) \/ HandleStart(r) \/ HandleStop(r)
        PROVE  submitting' # 0
    <3>1. r # 0
      BY DEF Ids, DashboardAssumption
    <3>2. QED
      BY <1>1, <2>4, <3>1 DEF Submit, ClickStop, HandleStart, HandleStop, ui
  <2>5. QED
    BY <1>1, <2>2, <2>3, <2>4
       DEF Next, AutoCollapse, ToggleForm, EditForm, WsChanges, StopAnswered
<1>2. PageInv /\ PageInv' /\ [Next]_vars =>
        [ /\ submitting # 0 /\ submitting' = 0 /\ ~sessionActive' =>
              \/ backendError' = "start" /\ ~isCollapsed'
              \/ answer[submitting] = "ok"
          /\ backendError' = "start" => ~sessionActive' ]_vars
  BY <1>1 DEF PageInv, StartWhenNotLive, sessionActive
<1>3. QED
  BY <1>2, PageInvariance, PTL DEF Spec, StartFailureShown

-----------------------------------------------------------------------------
(* The badge *)

(* A new request is one that neither the badge nor the controller is about.   *)
LEMMA NewRequestKeepsBadge ==
  ASSUME IInv, NEW r \in Ids, NEW k \in {"start", "stop"}, kind[r] = "none",
         kind' = [kind EXCEPT ![r] = k],
         UNCHANGED <<sessionStatus, answer, active, touched, told>>
  PROVE  /\ \A q \in Ids : /\ kind'[q] = "none" => answer'[q] = "none"
                           /\ kind'[q] = "stop" => answer'[q] \in {"none", "ok"}
         /\ ActiveAsTouched' /\ BadgeAsTold'
<1> USE DEF IInv, PageInv
<1>1. answer[r] = "none" /\ kind'[r] = k /\ \A q \in Ids : q # r => kind'[q] = kind[q]
  BY DEF Awaited, Typed
<1>2. /\ touched # 0 => touched \in Ids /\ touched # r
      /\ told # 0 => told \in Ids /\ told # r
  BY <1>1 DEF Typed, ActiveAsTouched, BadgeAsTold
<1>3. /\ touched # 0 => (Opened(touched)' <=> Opened(touched))
      /\ told # 0 => (Opened(told)' <=> Opened(told))
  BY <1>1, <1>2 DEF Opened
<1>4. ActiveAsTouched' /\ BadgeAsTold'
  BY <1>3 DEF ActiveAsTouched, BadgeAsTold
<1>5. QED
  BY <1>1, <1>4 DEF Awaited

LEMMA SubmitKeepsBadge ==
  ASSUME IInv, NEW r \in Ids, Submit(r)
  PROVE  Awaited' /\ ActiveAsTouched' /\ BadgeAsTold'
<1>1. /\ submitting' = r /\ kind[r] = "none" /\ kind' = [kind EXCEPT ![r] = "start"]
      /\ UNCHANGED <<sessionStatus, stopping, answer, active, touched, told>>
  BY DEF Submit, Send
<1>2. /\ \A q \in Ids : /\ kind'[q] = "none" => answer'[q] = "none"
                        /\ kind'[q] = "stop" => answer'[q] \in {"none", "ok"}
      /\ ActiveAsTouched' /\ BadgeAsTold'
  BY <1>1, NewRequestKeepsBadge
<1>3. kind'[submitting'] = "start" /\ (stopping' # 0 => kind'[stopping'] = "stop")
  BY <1>1 DEF IInv, PageInv, Typed, Awaited
<1>4. QED
  BY <1>2, <1>3 DEF Awaited

LEMMA ClickStopKeepsBadge ==
  ASSUME IInv, NEW r \in Ids, ClickStop(r)
  PROVE  Awaited' /\ ActiveAsTouched' /\ BadgeAsTold'
<1>1. /\ stopping' = r /\ kind[r] = "none" /\ kind' = [kind EXCEPT ![r] = "stop"]
      /\ UNCHANGED <<sessionStatus, submitting, answer, active, touched, told>>
  BY DEF ClickStop, Send
<1>2. /\ \A q \in Ids : /\ kind'[q] = "none" => answer'[q] = "none"
                        /\ kind'[q] = "stop" => answer'[q] \in {"none", "ok"}
      /\ ActiveAsTouched' /\ BadgeAsTold'
  BY <1>1, NewRequestKeepsBadge
<1>3. kind'[stopping'] = "stop" /\ (submitting' # 0 => kind'[submitting'] = "start")
  BY <1>1 DEF IInv, PageInv, Typed, Awaited
<1>4. QED
  BY <1>2, <1>3 DEF Awaited

(* The controller answers a request that the page cannot have been told of,   *)
(* and the one it touches it for is from then on what it has.                 *)
LEMMA HandlersKeepBadge ==
  ASSUME IInv, NEW r \in Ids, HandleStart(r) \/ HandleStop(r)
  PROVE  Awaited' /\ ActiveAsTouched' /\ BadgeAsTold'
<1> USE DEF IInv, PageInv
<1>1. /\ UNCHANGED <<sessionStatus, submitting, stopping, kind, told>> /\ answer[r] = "none"
  BY HandlersKeepPage DEF ui
<1>2. \/ /\ kind[r] = "start" /\ answer' = [answer EXCEPT ![r] = "ok"]
         /\ active' /\ touched' = r
      \/ /\ kind[r] = "start" /\ answer' = [answer EXCEPT ![r] = "failed"]
         /\ ~active' /\ touched' = r
      \/ /\ kind[r] = "start" /\ answer' = [answer EXCEPT ![r] = "refused"]
         /\ UNCHANGED <<active, touched>>
      \/ /\ kind[r] = "stop" /\ answer' = [answer EXCEPT ![r] = "ok"]
         /\ ~active' /\ touched' = r
  BY HandlersKeepPage
<1>3. r # 0 /\ kind[r] # "none"
  BY <1>2 DEF Ids
<1>4. \A q \in Ids : q # r => answer'[q] = answer[q]
  BY <1>2 DEF Typed
<1>5. \/ kind[r] = "start" /\ answer'[r] = "ok" /\ active' /\ touched' = r
      \/ kind[r] = "start" /\ answer'[r] = "failed" /\ ~active' /\ touched' = r
      \/ kind[r] = "start" /\ answer'[r] = "refused" /\ UNCHANGED <<active, touched>>
      \/ kind[r] = "stop" /\ answer'[r] = "ok" /\ ~active' /\ touched' = r
  BY <1>2 DEF Typed
<1>6. Awaited'
  BY <1>1, <1>3, <1>4, <1>5 DEF Awaited
<1>7. ActiveAsTouched'
  <2>1. CASE touched' = r
    BY <1>1, <1>3, <1>5, <2>1 DEF ActiveAsTouched, Opened
  <2>2. CASE UNCHANGED <<active, touched>>
    <3>1. touched # 0 => touched \in Ids /\ touched # r
      BY <1>1 DEF ActiveAsTouched, Typed
    <3>2. QED
      BY <1>1, <1>4, <2>2, <3>1 DEF ActiveAsTouched, Opened
  <2>3. QED
    BY <1>5, <2>1, <2>2
<1>8. BadgeAsTold'
  <2>1. told # 0 => told \in Ids /\ told # r
    BY <1>1 DEF BadgeAsTold, Typed
  <2>2. QED
    BY <1>1, <1>4, <2>1 DEF BadgeAsTold, Opened
<1>9. QED
  BY <1>6, <1>7, <1>8

LEMMA AnswersKeepBadge ==
  ASSUME IInv, StartAnswered \/ StopAnswered \/ AnswerLost
  PROVE  Awaited' /\ ActiveAsTouched' /\ BadgeAsTold'
<1> USE DEF IInv, PageInv
<1>1. UNCHANGED <<kind, answer, active, touched>>
  BY DEF StartAnswered, StopAnswered, AnswerLost, backend
<1>2. ActiveAsTouched'
  BY <1>1 DEF ActiveAsTouched, Opened
<1>3. submitting' \in {submitting, 0} /\ stopping' \in {stopping, 0}
  BY DEF StartAnswered, StopAnswered, AnswerLost
<1>4. Awaited'
  BY <1>1, <1>3 DEF Awaited
<1>5. CASE StartAnswered
  <2>1. /\ submitting # 0 /\ answer[submitting] # "none" /\ sessionStatus # "live"
        /\ told' = IF answer[submitting] = "refused" THEN told ELSE submitting
    BY <1>5 DEF StartAnswered, Told, StartWhenNotLive
  <2>2. /\ answer[submitting] = "ok" => sessionStatus' \in {"live", "error"}
        /\ answer[submitting] # "ok" => sessionStatus' = sessionStatus
    BY <1>5, StartAnsweredKeepsPage
  <2>3. kind[submitting] = "start"
    BY <2>1 DEF Awaited
  <2>4. CASE answer[submitting] = "ok"
    BY <1>1, <1>2, <1>4, <2>1, <2>2, <2>3, <2>4 DEF BadgeAsTold, Opened
  <2>5. CASE answer[submitting] # "ok"
    BY <1>1, <1>2, <1>4, <2>1, <2>2, <2>5 DEF BadgeAsTold, Opened
  <2>6. QED
    BY <2>4, <2>5
<1>6. CASE StopAnswered
  <2>1. stopping # 0 /\ answer[stopping] # "none" /\ told' = stopping
    BY <1>6 DEF StopAnswered
  <2>2. sessionStatus' = "stopped"
    BY <1>6, StopAnsweredKeepsPage
  <2>3. kind[stopping] = "stop"
    BY <2>1 DEF Awaited
  <2>4. BadgeAsTold'
    BY <1>1, <2>1, <2>2, <2>3 DEF BadgeAsTold, Opened
  <2>5. QED
    BY <1>2, <1>4, <2>4
<1>7. CASE AnswerLost
  <2>1. UNCHANGED <<sessionStatus, told>>
    BY <1>7 DEF AnswerLost
  <2>2. QED
    BY <1>1, <1>2, <1>4, <2>1 DEF BadgeAsTold, Opened
<1>8. QED
  BY <1>5, <1>6, <1>7

LEMMA BadgeInductive == IInv /\ [Next]_vars => IInv'
<1> SUFFICES ASSUME IInv, [Next]_vars PROVE IInv'
  OBVIOUS
<1> USE DEF IInv
<1>1. PageInv'
  BY PageInductive
<1>2. CASE AutoCollapse \/ ToggleForm \/ EditForm
  BY <1>1, <1>2, FormStepsKeepPage DEF backend, Awaited, ActiveAsTouched, BadgeAsTold, Opened
<1>3. ASSUME NEW ws, WsChanges(ws) PROVE Awaited' /\ ActiveAsTouched' /\ BadgeAsTold'
  BY <1>3, WsChangesKeepsPage DEF backend, Awaited, ActiveAsTouched, BadgeAsTold, Opened
<1>4. CASE UNCHANGED vars
  BY <1>1, <1>4 DEF vars, ui, backend, Awaited, ActiveAsTouched, BadgeAsTold, Opened
<1>5. QED
  BY <1>1, <1>2, <1>3, <1>4, SubmitKeepsBadge, ClickStopKeepsBadge, HandlersKeepBadge,
     AnswersKeepBadge DEF Next

LEMMA BadgeInitially == Init => IInv
  BY PageInitially DEF Init, IInv, Awaited, ActiveAsTouched, BadgeAsTold

(* However requests, answers and the WebSocket's changes interleave, and      *)
(* whichever answers are lost: when the last request that touched the         *)
(* controller is the last of those the page was told of, the badge tells the  *)
(* truth about the session.                                                   *)
THEOREM BadgeTellsTruth == Spec => []BadgeTruthful
<1>1. IInv => BadgeTruthful
  BY DEF IInv, ActiveAsTouched, BadgeAsTold, BadgeTruthful
<1>2. QED
  BY <1>1, BadgeInitially, BadgeInductive, PTL DEF Spec

-----------------------------------------------------------------------------
(* The ledger *)

LedgerTyped ==
    /\ history \in Seq(Kinds) /\ waiting \in Seq(Kinds)
    /\ filter \in Filters /\ effectDue \in BOOLEAN /\ countable \in BOOLEAN
    /\ previousLength \in Nat /\ pendingNew \in Nat /\ missed \in Nat

(* Once the effect has run, it has seen the length of the list. *)
LengthSeen == ~effectDue => previousLength = count

(* What an effect that is due will add makes up for what the pill lacks.     *)
EffectMakesUp ==
    effectDue /\ countable =>
        pendingNew + Minus(count, previousLength)
            >= Smaller(missed, PILL_MAX)

LedgerInv == LedgerTyped /\ LengthSeen /\ EffectMakesUp /\ PillNeverShort

-----------------------------------------------------------------------------
(* Rows *)

Places(h, f) == {i \in DOMAIN h : passesFilter(h[i], f)}

LEMMA RowsCount ==
  ASSUME NEW S, NEW h \in Seq(S), NEW f
  PROVE  /\ Rows(h, f) = Cardinality(Places(h, f))
         /\ IsFiniteSet(Places(h, f))
         /\ Places(h, f) \subseteq 1..Len(h)
         /\ Rows(h, f) \in Nat
<1>1. Places(h, f) \subseteq 1..Len(h)
  BY DEF Places
<1>2. IsFiniteSet(Places(h, f)) /\ Cardinality(Places(h, f)) \in Nat
  <2>1. IsFiniteSet(1..Len(h))
    BY LenProperties, FS_Interval
  <2>2. IsFiniteSet(Places(h, f))
    BY <1>1, <2>1, FS_Subset
  <2>3. QED
    BY <2>2, FS_CardinalityType
<1>3. Rows(h, f) = Cardinality(Places(h, f))
  BY DEF Places, Rows, Cardinality
<1>4. QED
  BY <1>1, <1>2, <1>3

(* The rows of a list and of what follows it add up. *)
LEMMA RowsConcat ==
  ASSUME NEW S, NEW h \in Seq(S), NEW w \in Seq(S), NEW f
  PROVE  Rows(h \o w, f) = Rows(h, f) + Rows(w, f)
<1> DEFINE n == Len(h)
           A == Places(h, f)
           B == Places(w, f)
           C == {i \in n + 1 .. n + Len(w) : i - n \in B}
           shift == [j \in B |-> j + n]
<1>1. /\ h \o w \in Seq(S) /\ n \in Nat /\ Len(w) \in Nat /\ DOMAIN h = 1..n /\ DOMAIN w = 1..Len(w)
      /\ DOMAIN (h \o w) = 1 .. n + Len(w)
      /\ \A i \in 1 .. n + Len(w) : (h \o w)[i] = IF i <= n THEN h[i] ELSE w[i - n]
  BY ConcatProperties, LenProperties
<1>2. /\ A \subseteq 1..n /\ IsFiniteSet(A) /\ Cardinality(A) = Rows(h, f)
      /\ B \subseteq 1..Len(w) /\ IsFiniteSet(B) /\ Cardinality(B) = Rows(w, f)
      /\ Cardinality(A) \in Nat /\ Cardinality(B) \in Nat
  BY RowsCount
<1>3. Places(h \o w, f) = A \cup C
  <2>1. \A i \in 1..n : i \in Places(h \o w, f) <=> i \in A
    BY <1>1 DEF Places
  <2>2. \A i \in n + 1 .. n + Len(w) : i \in Places(h \o w, f) <=> i \in C
    BY <1>1 DEF Places
  <2>3. Places(h \o w, f) \subseteq 1 .. n + Len(w)
    BY <1>1 DEF Places
  <2>4. C \subseteq n + 1 .. n + Len(w)
    OBVIOUS
  <2> HIDE DEF A, B, C
  <2>5. \A i \in 1 .. n + Len(w) : i \in 1..n \/ i \in n + 1 .. n + Len(w)
    BY <1>1
  <2>6. QED
    BY <1>1, <1>2, <2>1, <2>2, <2>3, <2>4, <2>5
<1>4. A \cap C = {}
  BY <1>1, <1>2
<1>5. IsFiniteSet(C) /\ Cardinality(C) = Cardinality(B)
  <2>1. shift \in Bijection(B, C)
    <3>1. shift \in [B -> C]
      BY <1>1, <1>2
    <3>2. \A j, k \in B : shift[j] = shift[k] => j = k
      BY <1>1, <1>2
    <3>3. \A i \in C : \E j \in B : shift[j] = i
      BY <1>1, <1>2
    <3> HIDE DEF shift, B, C
    <3>4. QED
      BY <3>1, <3>2, <3>3, Fun_IsBij
  <2>2. QED
    BY <1>2, <2>1, FS_Bijection DEF ExistsBijection
<1> HIDE DEF A, B, C
<1>6. Cardinality(A \cup C) = Cardinality(A) + Cardinality(C)
  <2>1. Cardinality(A \cup C) = Cardinality(A) + Cardinality(C) - Cardinality(A \cap C)
    BY <1>2, <1>5, FS_Union
  <2>2. Cardinality(A \cap C) = 0
    BY <1>4, FS_EmptySet
  <2>3. QED
    BY <1>2, <1>5, <2>1, <2>2
<1>7. Rows(h \o w, f) = Cardinality(A \cup C)
  BY <1>1, <1>3, RowsCount
<1>8. QED
  BY <1>2, <1>5, <1>6, <1>7

-----------------------------------------------------------------------------
(* The steps *)

(* What has been counted, up to the cap, stays counted when more is added.   *)
LEMMA SmallerGrows ==
  ASSUME NEW m \in Nat, NEW n \in Nat, NEW p \in Nat, NEW cap \in Nat,
         p >= Smaller(m, cap)
  PROVE  p + n >= Smaller(m + n, cap)
  BY DEF Smaller

LEMMA RowsNat ==
  ASSUME LedgerTyped, NEW f
  PROVE  Rows(history, f) \in Nat /\ count \in Nat
<1>1. history \in Seq(Kinds)
  BY DEF LedgerTyped
<1>2. Rows(history, f) \in Nat /\ Rows(history, filter) \in Nat
  BY <1>1, RowsCount
<1>3. QED
  BY <1>2 DEF count

(* A batch is cut in two: what the full ring drops and what it keeps.        *)
LEMMA CommitKeepsLedger ==
  ASSUME LedgerInv, CommitBatch
  PROVE  LedgerInv'
<1> DEFINE all == history \o waiting
           over == Minus(Len(all), MAX_HISTORY)
           kept == SubSeq(all, over + 1, Len(all))
           first == SubSeq(all, 1, over)
           gone == Rows(first, filter)
           rows == Rows(kept, filter)
           new == Rows(waiting, filter)
<1>1. /\ history' = kept /\ waiting' = <<>> /\ (effectDue' <=> rows # count)
      /\ effectDue' \in BOOLEAN
      /\ missed' = missed + new /\ countable' = (countable /\ gone = 0) /\ ~effectDue
      /\ UNCHANGED <<filter, previousLength, pendingNew>>
  BY DEF CommitBatch
<1>2. /\ all \in Seq(Kinds) /\ Len(all) \in Nat /\ over \in 0..Len(all)
  BY ConcatProperties, LenProperties, LedgerAssumption
     DEF LedgerInv, LedgerTyped, Minus
<1>3. /\ all = first \o kept
      /\ first \in Seq(Kinds) /\ kept \in Seq(Kinds)
  <2> HIDE DEF all, over
  <2>1. SubSeq(all, 1, over) \o SubSeq(all, over + 1, Len(all)) = SubSeq(all, 1, Len(all))
    <3>1. /\ 1 \in 1..Len(all) + 1 /\ over \in 1 - 1..Len(all) /\ Len(all) \in over..Len(all)
      BY <1>2
    <3>2. QED
      BY <1>2, <3>1, ConcatAdjacentSubSeq
  <2>2. SubSeq(all, 1, Len(all)) = all
    BY <1>2, SubSeqFull
  <2>3. \A i \in 1..Len(all) : all[i] \in Kinds
    BY <1>2, ElementOfSeq
  <2>4. first \in Seq(Kinds)
    <3>1. \A i \in 1..over : all[i] \in Kinds
      BY <1>2, <2>3
    <3>2. QED
      BY <1>2, <3>1, SubSeqProperties
  <2>5. kept \in Seq(Kinds)
    <3>1. \A i \in over + 1..Len(all) : all[i] \in Kinds
      BY <1>2, <2>3
    <3>2. QED
      BY <1>2, <3>1, SubSeqProperties
  <2>6. QED
    BY <2>1, <2>2, <2>4, <2>5
<1>4. /\ gone \in Nat /\ rows \in Nat /\ new \in Nat /\ count \in Nat
      /\ gone + rows = count + new
  <2>1. Rows(all, filter) = count + new
    BY RowsConcat DEF LedgerInv, LedgerTyped, count
  <2>2. Rows(all, filter) = gone + rows
    <3> HIDE DEF all, first, kept
    <3>1. QED
      BY <1>3, RowsConcat
  <2>3. gone \in Nat /\ rows \in Nat
    <3> HIDE DEF first, kept
    <3>1. QED
      BY <1>3, RowsCount
  <2>4. new \in Nat /\ count \in Nat
    BY RowsCount DEF LedgerInv, LedgerTyped, count
  <2>5. QED
    BY <2>1, <2>2, <2>3, <2>4
<1>5. count' = rows
  BY <1>1 DEF count
<1>6. LedgerTyped'
  <2> HIDE DEF new, rows, gone, kept
  <2>1. waiting' \in Seq(Kinds)
    BY <1>1
  <2>2. QED
    BY <1>1, <1>3, <1>4, <2>1 DEF LedgerInv, LedgerTyped, Kinds, Filters
<1> HIDE DEF new, rows, gone, kept
<1>7. LengthSeen'
  BY <1>1, <1>5 DEF LedgerInv, LengthSeen
<1>8. /\ previousLength = count
      /\ countable => pendingNew >= Smaller(missed, PILL_MAX)
      /\ missed \in Nat /\ pendingNew \in Nat /\ PILL_MAX \in Nat
  <2>1. ~effectDue
    BY <1>1
  <2>2. QED
    BY <2>1, LedgerAssumption DEF LedgerInv, LedgerTyped, LengthSeen, PillNeverShort
<1>9. countable' =>
        /\ rows = count + new
        /\ pendingNew + new >= Smaller(missed + new, PILL_MAX)
  <2>1. countable' => countable /\ gone = 0
    BY <1>1
  <2>2. countable' => rows = count + new
    BY <1>4, <2>1
  <2>3. countable => pendingNew + new >= Smaller(missed + new, PILL_MAX)
    BY <1>4, <1>8, SmallerGrows
  <2>4. QED
    BY <2>1, <2>2, <2>3
<1>10. EffectMakesUp'
  BY <1>1, <1>4, <1>5, <1>8, <1>9 DEF EffectMakesUp, Minus, Smaller
<1>11. PillNeverShort'
  <2>1. ~effectDue' /\ countable' => new = 0 /\ countable
    BY <1>1, <1>4, <1>9
  <2>2. ~effectDue' /\ countable' => missed' = missed /\ pendingNew' = pendingNew
    BY <1>1, <1>8, <2>1
  <2>3. QED
    BY <1>8, <2>1, <2>2 DEF PillNeverShort, Smaller
<1>12. QED
  BY <1>6, <1>7, <1>10, <1>11 DEF LedgerInv

(* The effect counts what it has not seen, unless the list shows it.         *)
LEMMA EffectKeepsLedger ==
  ASSUME LedgerInv, Effect
  PROVE  LedgerInv'
<1>1. /\ effectDue /\ effectDue' = FALSE /\ UNCHANGED <<waiting, history, filter, countable>>
      /\ previousLength' = count
      /\ pendingNew' = IF count <= previousLength \/ isPinnedToBottom
                         THEN pendingNew
                       ELSE Smaller(PILL_MAX,
                              pendingNew + (count - previousLength))
      /\ missed' = IF isPinnedToBottom THEN 0 ELSE missed
  BY DEF Effect, CountNew, list
<1>2. count \in Nat
  BY RowsNat DEF LedgerInv
<1>3. count' = count
  BY <1>1 DEF count
<1>4. LedgerTyped'
  <2>1. pendingNew' \in Nat
    BY <1>1, <1>2, LedgerAssumption DEF LedgerInv, LedgerTyped, Smaller
  <2>2. missed' \in Nat /\ previousLength' \in Nat
    BY <1>1, <1>2 DEF LedgerInv, LedgerTyped
  <2>3. QED
    BY <1>1, <2>1, <2>2 DEF LedgerInv, LedgerTyped
<1>5. LengthSeen' /\ EffectMakesUp'
  BY <1>1, <1>3 DEF LengthSeen, EffectMakesUp
<1>6. PillNeverShort'
  BY <1>1, <1>2, LedgerAssumption DEF LedgerInv, LedgerTyped, EffectMakesUp, PillNeverShort,
     Smaller, Minus
<1>7. QED
  BY <1>4, <1>5, <1>6 DEF LedgerInv

LEMMA SetFilterKeepsLedger ==
  ASSUME LedgerInv,
         NEW f \in Filters, SetFilter(f)
  PROVE  LedgerInv'
<1>1. /\ ~effectDue /\ filter' = f /\ missed' = 0 /\ countable' = FALSE
      /\ UNCHANGED <<waiting, history, effectDue>>
      /\ previousLength' = Rows(history, f)
      /\ \/ pendingNew' = pendingNew
         \/ Rows(history, f) > previousLength
              /\ pendingNew' = Smaller(PILL_MAX,
                   pendingNew + (Rows(history, f) - previousLength))
  <2>1. Rows(history, f) \in Nat /\ previousLength \in Nat
    BY RowsNat DEF LedgerInv, LedgerTyped
  <2>2. QED
    BY <2>1 DEF SetFilter, CountNew, MoveTo
<1>2. Rows(history, f) \in Nat
  BY RowsNat DEF LedgerInv
<1>3. count' = Rows(history, f)
  BY <1>1 DEF count
<1>4. LedgerTyped'
  <2>1. pendingNew' \in Nat
    BY <1>1, <1>2, LedgerAssumption DEF LedgerInv, LedgerTyped, Smaller
  <2>2. missed' \in Nat /\ previousLength' \in Nat
    BY <1>1, <1>2 DEF LedgerInv, LedgerTyped
  <2>3. QED
    BY <1>1, <2>1, <2>2 DEF LedgerInv, LedgerTyped
<1>5. QED
  BY <1>1, <1>3, <1>4 DEF LedgerInv, LengthSeen, EffectMakesUp, PillNeverShort

(* What is scrolled or rendered leaves the list alone, and sets the pill to  *)
(* nothing only where nothing is missed.                                     *)
LEMMA OthersKeepLedger ==
  ASSUME LedgerInv,
         \/ \E result \in Kinds : Receive(result)
         \/ RenderPill
         \/ \E t \in 0..MAX_HISTORY : UserScrolls(t)
         \/ Glide
         \/ scrollToBottom
         \/ onScroll
         \/ UNCHANGED ledgerVars
  PROVE  LedgerInv'
<1> DEFINE Left ==
             /\ UNCHANGED <<history, filter, effectDue, previousLength>>
             /\ waiting' \in Seq(Kinds) /\ countable' \in BOOLEAN
             /\ \/ UNCHANGED <<pendingNew, missed, countable>>
                \/ pendingNew' \in {0, pendingNew} /\ missed' = 0
<1>1. Left
  <2>1. ASSUME NEW result \in Kinds, Receive(result) PROVE Left
    BY <2>1 DEF Receive, LedgerInv, LedgerTyped, list, notice,
       seen
  <2>2. CASE RenderPill
    BY <2>2 DEF RenderPill, LedgerInv, LedgerTyped, list, seen
  <2>3. ASSUME NEW t \in 0..MAX_HISTORY, UserScrolls(t) PROVE Left
    BY <2>3 DEF UserScrolls, LedgerInv, LedgerTyped, list, notice,
       seen
  <2>4. CASE Glide
    BY <2>4 DEF Glide, LedgerInv, LedgerTyped, list, notice,
       seen
  <2>5. CASE scrollToBottom
    BY <2>5 DEF scrollToBottom, LedgerInv, LedgerTyped, list
  <2>6. CASE onScroll
    <3>1. CASE isPinnedToBottom
      BY <2>6, <3>1 DEF onScroll, LedgerInv, LedgerTyped, list
    <3>2. CASE ~isPinnedToBottom
      BY <2>6, <3>2 DEF onScroll, LedgerInv, LedgerTyped, list
    <3>3. QED
      BY <3>1, <3>2
  <2>7. CASE UNCHANGED ledgerVars
    BY <2>7 DEF ledgerVars, LedgerInv, LedgerTyped, list, notice,
       seen
  <2>8. QED
    BY <2>1, <2>2, <2>3, <2>4, <2>5, <2>6, <2>7
<1>2. count' = count /\ count \in Nat
  BY <1>1, RowsCount DEF LedgerInv, LedgerTyped, count
<1>3. LedgerTyped'
  BY <1>1 DEF LedgerInv, LedgerTyped, Kinds, Filters
<1>4. LengthSeen'
  BY <1>1, <1>2 DEF LedgerInv, LengthSeen
<1>5. EffectMakesUp' /\ PillNeverShort'
  <2>1. CASE UNCHANGED <<pendingNew, missed, countable>>
    BY <1>1, <1>2, <2>1 DEF LedgerInv, EffectMakesUp, PillNeverShort
  <2>2. CASE pendingNew' \in {0, pendingNew} /\ missed' = 0
    <3>1. Smaller(missed', PILL_MAX) = 0
      BY <2>2, LedgerAssumption DEF Smaller
    <3>2. /\ pendingNew' \in Nat
          /\ Minus(count', previousLength') \in Nat
      BY <1>1, <1>2, <1>3 DEF LedgerInv, LedgerTyped, Minus
    <3>3. QED
      BY <3>1, <3>2 DEF EffectMakesUp, PillNeverShort
  <2>3. QED
    BY <1>1, <1>2, <2>1, <2>2 DEF LedgerInv, LedgerTyped, EffectMakesUp, PillNeverShort
<1>6. QED
  BY <1>3, <1>4, <1>5 DEF LedgerInv

LEMMA LedgerInitially == LedgerInit => LedgerInv
<1> SUFFICES ASSUME LedgerInit PROVE LedgerInv
  OBVIOUS
<1>1. LedgerTyped
  <2>1. <<>> \in Seq(Kinds)
    OBVIOUS
  <2>2. QED
    BY <2>1 DEF LedgerInit, LedgerTyped, Filters
<1>2. count = 0
  <2>1. Places(history, filter) = {}
    BY DEF LedgerInit, Places
  <2>2. Rows(history, filter) = Cardinality(Places(history, filter))
    BY <1>1, RowsCount DEF LedgerTyped
  <2>3. QED
    BY <2>1, <2>2, FS_EmptySet DEF count
<1>3. QED
  BY <1>1, <1>2, LedgerAssumption DEF LedgerInit, LedgerInv, LengthSeen, EffectMakesUp,
     PillNeverShort, Smaller

LEMMA LedgerInductive ==
  LedgerInv /\ [LedgerNext]_ledgerVars => LedgerInv'
  BY CommitKeepsLedger, EffectKeepsLedger, SetFilterKeepsLedger, OthersKeepLedger
     DEF LedgerNext

(* The pill counts at least the rows the user has not been shown, whatever   *)
(* the length of the ring, the view and the batches.                         *)
THEOREM PillCountsAll ==
  LedgerSpec => []PillNeverShort
<1>1. LedgerInit => LedgerInv
  BY LedgerInitially
<1>2. LedgerInv /\ [LedgerNext]_ledgerVars => LedgerInv'
  BY LedgerInductive
<1>3. LedgerInv => PillNeverShort
  BY DEF LedgerInv
<1>4. QED
  BY <1>1, <1>2, <1>3, PTL DEF LedgerSpec

-----------------------------------------------------------------------------
(* The layout *)

Stored ==
    localStorage \in [prefs : StoredPrefs \cup Preferences,
                      ledgerWidth : StoredWidths \cup (MIN_LEDGER_WIDTH..MAX_LEDGER_WIDTH),
                      hasSeenOnboarding : {Absent, "1"}]

Remembered ==
    /\ Stored
    /\ preferences \in Preferences
    /\ ledgerWidth \in Widths /\ leftWidth \in Widths
    /\ showOnboarding \in BOOLEAN /\ draggingRef \in BOOLEAN /\ hurried \in BOOLEAN

(* A reload would read what the page has.                                    *)
PrefsSaved ==
    storage = "works" /\ "prefs" \notin foreign => loadPreferences = preferences

TipSaved ==
    storage = "works" /\ "hasSeenOnboarding" \notin foreign =>
        (showOnboarding <=> ~hasSeenOnboarding)

WidthSaved ==
    storage = "works" /\ "ledgerWidth" \notin foreign /\ ~draggingRef /\ ~hurried =>
        loadLedgerWidth = 2 * Rounded(ledgerWidth)

LayoutInv == Remembered /\ PrefsSaved /\ TipSaved /\ WidthSaved

(* While the button is pressed, the popover is as it was at the press, or as *)
(* Esc or a key left it since.                                               *)
ButtonRemembers ==
    /\ open \in BOOLEAN /\ openAtPress \in BOOLEAN
    /\ pressed = "button" => open = openAtPress

-----------------------------------------------------------------------------
(* Widths and preferences *)

LEMMA ClampedWidth ==
  ASSUME NEW w \in Int
  PROVE  /\ clampLedgerWidth(w) \in Widths
         /\ w \in Widths => clampLedgerWidth(w) = w
<1>1. /\ MIN_LEDGER_WIDTH \in Nat /\ MAX_LEDGER_WIDTH \in Nat
      /\ MIN_LEDGER_WIDTH <= MAX_LEDGER_WIDTH
  BY LayoutAssumption
<1>2. QED
  BY <1>1 DEF clampLedgerWidth, Widths

(* A width of the page is saved as a whole one that a reload takes as it is. *)
LEMMA RoundedWidth ==
  ASSUME NEW w \in Widths
  PROVE  /\ Rounded(w) \in MIN_LEDGER_WIDTH..MAX_LEDGER_WIDTH
         /\ clampLedgerWidth(2 * Rounded(w)) = 2 * Rounded(w)
<1>1. /\ MIN_LEDGER_WIDTH \in Nat /\ MAX_LEDGER_WIDTH \in Nat
      /\ w \in Int /\ 2 * MIN_LEDGER_WIDTH <= w /\ w <= 2 * MAX_LEDGER_WIDTH
  BY LayoutAssumption DEF Widths
<1>2. Rounded(w) \in MIN_LEDGER_WIDTH..MAX_LEDGER_WIDTH
  BY <1>1 DEF Rounded
<1>3. 2 * Rounded(w) \in Widths
  BY <1>1, <1>2 DEF Widths
<1>4. 2 * Rounded(w) \in Int
  BY <1>1, <1>2
<1>5. QED
  BY <1>2, <1>3, <1>4, ClampedWidth

LEMMA EvenWidth == \A n \in Int : Rounded(2 * n) = n
  BY DEF Rounded

(* Whatever the storage holds, a load gives a whole width within the limits. *)
LEMMA LoadedWidth ==
  ASSUME Stored
  PROVE  /\ loadLedgerWidth \in Widths
         /\ 2 * Rounded(loadLedgerWidth) = loadLedgerWidth
<1>1. /\ MIN_LEDGER_WIDTH \in Nat /\ MAX_LEDGER_WIDTH \in Nat /\ DEFAULT_LEDGER_WIDTH \in Nat
      /\ MIN_LEDGER_WIDTH <= DEFAULT_LEDGER_WIDTH /\ DEFAULT_LEDGER_WIDTH <= MAX_LEDGER_WIDTH
  BY LayoutAssumption
<1>2. PICK n \in MIN_LEDGER_WIDTH..MAX_LEDGER_WIDTH : loadLedgerWidth = 2 * n
  <2>1. CASE loadLedgerWidth = 2 * DEFAULT_LEDGER_WIDTH
    BY <1>1, <2>1
  <2>2. CASE /\ localStorage.ledgerWidth \notin {Absent, Garbage}
             /\ loadLedgerWidth =
                  clampLedgerWidth(2 * localStorage.ledgerWidth)
    <3>1. localStorage.ledgerWidth \in Int
      BY <1>1, <2>2, LayoutAssumption DEF Stored
    <3>2. \E n \in MIN_LEDGER_WIDTH..MAX_LEDGER_WIDTH :
             clampLedgerWidth(2 * localStorage.ledgerWidth) = 2 * n
      BY <1>1, <3>1 DEF clampLedgerWidth
    <3>3. QED
      BY <2>2, <3>2
  <2>3. QED
    BY <2>1, <2>2 DEF loadLedgerWidth
<1>3. loadLedgerWidth \in Widths
  BY <1>1, <1>2 DEF Widths
<1>4. Rounded(loadLedgerWidth) = n
  BY <1>1, <1>2, EvenWidth
<1>5. QED
  BY <1>2, <1>3, <1>4

LEMMA LoadedPreferences ==
  ASSUME Stored
  PROVE  loadPreferences \in Preferences
<1>1. DEFAULT_PREFS \in Preferences
  BY DEF DEFAULT_PREFS, Preferences
<1>2. CASE localStorage.prefs \notin {Absent, Garbage}
  <2>1. \A f \in DOMAIN localStorage.prefs :
           f \in {"compact", "showEventType"} => localStorage.prefs[f] \in BOOLEAN
    BY <1>2, LayoutAssumption DEF Stored, Preferences
  <2>2. QED
    BY <1>1, <1>2, <2>1 DEF loadPreferences, DEFAULT_PREFS,
       Preferences
<1>3. QED
  BY <1>1, <1>2 DEF loadPreferences

(* What was saved is what is read.                                           *)
LEMMA SavedIsRead ==
  ASSUME Remembered', storage' = "works"
  PROVE  /\ \A prefs \in Preferences :
              localStorage'.prefs = prefs => loadPreferences' = prefs
         /\ \A w \in Widths :
              localStorage'.ledgerWidth = Rounded(w) =>
                loadLedgerWidth' = 2 * Rounded(w)
         /\ localStorage'.hasSeenOnboarding = "1" => hasSeenOnboarding'
<1>1. ASSUME NEW prefs \in Preferences, localStorage'.prefs = prefs
      PROVE  loadPreferences' = prefs
  <2>1. /\ localStorage'.prefs \notin {Absent, Garbage}
        /\ DOMAIN prefs = {"compact", "showEventType"}
        /\ prefs = [f \in {"compact", "showEventType"} |-> prefs[f]]
    BY <1>1, LayoutAssumption DEF Preferences
  <2>2. QED
    BY <1>1, <2>1 DEF loadPreferences, DEFAULT_PREFS, Readable
<1>2. ASSUME NEW w \in Widths, localStorage'.ledgerWidth = Rounded(w)
      PROVE  loadLedgerWidth' = 2 * Rounded(w)
  <2>1. Rounded(w) \in Nat
    BY RoundedWidth, LayoutAssumption
  <2>2. Rounded(w) \notin {Absent, Garbage}
    BY <2>1, LayoutAssumption
  <2>3. loadLedgerWidth' = clampLedgerWidth(2 * Rounded(w))
    BY <1>2, <2>2 DEF loadLedgerWidth, Readable
  <2>4. QED
    BY <2>3, RoundedWidth
<1>3. localStorage'.hasSeenOnboarding = "1" => hasSeenOnboarding'
  BY LayoutAssumption DEF hasSeenOnboarding
<1>4. QED
  BY <1>1, <1>2, <1>3

(* A save changes one key, and makes it the page's own.                      *)
LEMMA SaveChanges ==
  ASSUME Remembered, NEW key \in Keys, NEW value,
         Save(key, value), storage' = storage
  PROVE  /\ localStorage' \in {localStorage, [localStorage EXCEPT ![key] = value]}
         /\ storage = "works" =>
              /\ localStorage'[key] = value
              /\ \A other \in Keys \ {key} : localStorage'[other] = localStorage[other]
         /\ \A other \in Keys \ {key} : other \in foreign' <=> other \in foreign
<1>1. DOMAIN localStorage = Keys
  BY DEF Remembered, Stored, Keys
<1>2. QED
  BY <1>1 DEF Save

(* A load depends on its own key.                                            *)
LEMMA LoadsTheirKey ==
  ASSUME storage' = storage
  PROVE  /\ localStorage'.prefs = localStorage.prefs =>
              loadPreferences' = loadPreferences
         /\ localStorage'.ledgerWidth = localStorage.ledgerWidth =>
              loadLedgerWidth' = loadLedgerWidth
         /\ localStorage'.hasSeenOnboarding = localStorage.hasSeenOnboarding =>
              (hasSeenOnboarding' <=> hasSeenOnboarding)
<1>1. Readable' <=> Readable
  BY DEF Readable
<1>2. QED
  BY <1>1 DEF loadPreferences, loadLedgerWidth,
     hasSeenOnboarding, clampLedgerWidth, DEFAULT_PREFS

-----------------------------------------------------------------------------
(* The steps *)

LEMMA LoadKeepsLayout ==
  ASSUME LayoutInv, Reload
  PROVE  LayoutInv'
<1>1. /\ localStorage' = localStorage /\ storage' = storage
      /\ preferences' = loadPreferences
      /\ ledgerWidth' = loadLedgerWidth /\ leftWidth' = loadLedgerWidth
      /\ showOnboarding' = ~hasSeenOnboarding
      /\ draggingRef' = FALSE /\ hurried' = FALSE
  BY DEF Reload
<1>2. /\ loadPreferences' = loadPreferences
      /\ loadLedgerWidth' = loadLedgerWidth
      /\ hasSeenOnboarding' <=> hasSeenOnboarding
  BY <1>1, LoadsTheirKey
<1>3. /\ loadPreferences \in Preferences
      /\ loadLedgerWidth \in Widths
      /\ 2 * Rounded(loadLedgerWidth) = loadLedgerWidth
  BY LoadedWidth, LoadedPreferences DEF LayoutInv, Remembered
<1>4. Remembered'
  BY <1>1, <1>3 DEF LayoutInv, Remembered, Stored, hasSeenOnboarding
<1>5. PrefsSaved' /\ TipSaved'
  BY <1>1, <1>2 DEF PrefsSaved, TipSaved
<1>6. Rounded(ledgerWidth)' = Rounded(loadLedgerWidth)
  BY <1>1 DEF Rounded
<1>7. WidthSaved'
  BY <1>2, <1>3, <1>6 DEF WidthSaved
<1>8. QED
  BY <1>4, <1>5, <1>7 DEF LayoutInv

LEMMA OtherTabKeepsLayout ==
  ASSUME LayoutInv, OtherTab
  PROVE  LayoutInv'
<1>1. PICK key \in Keys :
        \E value \in CASE key = "prefs" -> Preferences
                       [] key = "ledgerWidth" -> MIN_LEDGER_WIDTH..MAX_LEDGER_WIDTH
                       [] key = "hasSeenOnboarding" -> {"1"} :
            /\ localStorage' = [localStorage EXCEPT ![key] = value]
            /\ foreign' = foreign \cup {key}
  BY DEF OtherTab
<1>2. PICK value \in CASE key = "prefs" -> Preferences
                       [] key = "ledgerWidth" -> MIN_LEDGER_WIDTH..MAX_LEDGER_WIDTH
                       [] key = "hasSeenOnboarding" -> {"1"} :
            /\ localStorage' = [localStorage EXCEPT ![key] = value]
            /\ foreign' = foreign \cup {key}
  BY <1>1
<1>3. /\ storage' = storage
      /\ UNCHANGED <<preferences, ledgerWidth, showOnboarding, leftWidth, draggingRef, hurried>>
  BY DEF OtherTab, shown, pointer
<1>4. Remembered'
  <2>1. CASE key = "prefs"
    BY <1>2, <1>3, <2>1 DEF LayoutInv, Remembered, Stored
  <2>2. CASE key = "ledgerWidth"
    BY <1>2, <1>3, <2>2 DEF LayoutInv, Remembered, Stored
  <2>3. CASE key = "hasSeenOnboarding"
    BY <1>2, <1>3, <2>3 DEF LayoutInv, Remembered, Stored
  <2>4. QED
    BY <2>1, <2>2, <2>3 DEF Keys
<1>5. /\ key \in foreign' /\ foreign \subseteq foreign'
      /\ \A other \in Keys \ {key} : localStorage'[other] = localStorage[other]
  BY <1>2 DEF LayoutInv, Remembered, Stored, Keys
<1>6. PrefsSaved'
  BY <1>3, <1>5, LoadsTheirKey DEF LayoutInv, PrefsSaved, Keys
<1>7. TipSaved'
  BY <1>3, <1>5, LoadsTheirKey DEF LayoutInv, TipSaved, Keys
<1>8. WidthSaved'
  BY <1>3, <1>5, LoadsTheirKey DEF LayoutInv, WidthSaved, Keys, Rounded
<1>9. QED
  BY <1>4, <1>6, <1>7, <1>8 DEF LayoutInv

(* The width as rendered is saved; only a move that was not rendered differs. *)
LEMMA DividerKeepsLayout ==
  ASSUME LayoutInv,
         \/ onPointerUp
         \/ \E step \in {KeyStep, -KeyStep} : onKeyDown(step)
  PROVE  LayoutInv'
<1> DEFINE Saves(w) ==
             /\ Save("ledgerWidth", Rounded(w))
             /\ w \in Widths
             /\ UNCHANGED <<storage, preferences, showOnboarding>>
             /\ ledgerWidth' \in Widths /\ leftWidth' \in Widths
             /\ draggingRef' \in BOOLEAN /\ hurried' \in BOOLEAN
             /\ ~hurried' => ledgerWidth' = w
<1>1. PICK w \in Widths : Saves(w)
  <2>1. CASE onPointerUp
    <3>1. Saves(leftWidth)
      BY <2>1 DEF onPointerUp, endDrag, saveLedgerWidth,
         LayoutInv, Remembered, shown
    <3>2. QED
      BY <3>1 DEF LayoutInv, Remembered, Stored
  <2>2. ASSUME NEW step \in {KeyStep, -KeyStep}, onKeyDown(step)
        PROVE  \E w \in Widths : Saves(w)
    <3> DEFINE next == clampLedgerWidth(leftWidth + 2 * step)
    <3>1. leftWidth + 2 * step \in Int
      BY LayoutAssumption DEF LayoutInv, Remembered, Stored, Widths
    <3>2. next \in Widths
      BY <3>1, ClampedWidth
    <3>3. Saves(next)
      BY <2>2, <3>2 DEF onKeyDown, setLedgerWidth,
         saveLedgerWidth, LayoutInv, Remembered, pointer
    <3>4. QED
      BY <3>2, <3>3
  <2>3. QED
    BY <2>1, <2>2
<1>2. /\ localStorage' \in {localStorage, [localStorage EXCEPT !["ledgerWidth"] = Rounded(w)]}
      /\ storage = "works" =>
           /\ localStorage'.ledgerWidth = Rounded(w)
           /\ localStorage'.prefs = localStorage.prefs
           /\ localStorage'.hasSeenOnboarding = localStorage.hasSeenOnboarding
      /\ "prefs" \in foreign' <=> "prefs" \in foreign
      /\ "hasSeenOnboarding" \in foreign' <=> "hasSeenOnboarding" \in foreign
  BY <1>1, SaveChanges DEF LayoutInv, Keys
<1>3. Remembered'
  BY <1>1, <1>2, RoundedWidth DEF LayoutInv, Remembered, Stored
<1>4. PrefsSaved' /\ TipSaved'
  BY <1>1, <1>2, LoadsTheirKey DEF LayoutInv, PrefsSaved, TipSaved
<1>5. WidthSaved'
  <2>1. SUFFICES ASSUME storage' = "works", ~hurried'
                 PROVE  loadLedgerWidth' = 2 * Rounded(ledgerWidth)'
    BY DEF WidthSaved
  <2>2. loadLedgerWidth' = 2 * Rounded(w)
    BY <1>1, <1>2, <1>3, <2>1, SavedIsRead
  <2>3. QED
    BY <1>1, <2>1, <2>2 DEF Rounded
<1>6. QED
  BY <1>3, <1>4, <1>5 DEF LayoutInv

LEMMA SettingsKeepLayout ==
  ASSUME LayoutInv,
         \/ \E field \in {"compact", "showEventType"} : update(field)
         \/ dismissOnboarding
  PROVE  LayoutInv'
<1>1. CASE \E field \in {"compact", "showEventType"} : update(field)
  <2>1. /\ Save("prefs", preferences') /\ preferences' \in Preferences
        /\ UNCHANGED <<storage, ledgerWidth, showOnboarding, leftWidth, draggingRef, hurried>>
    BY <1>1 DEF update, savePreferences, pointer, LayoutInv,
       Remembered, Preferences
  <2>2. /\ localStorage' \in {localStorage, [localStorage EXCEPT !["prefs"] = preferences']}
        /\ storage = "works" =>
             /\ localStorage'.prefs = preferences'
             /\ localStorage'.ledgerWidth = localStorage.ledgerWidth
             /\ localStorage'.hasSeenOnboarding = localStorage.hasSeenOnboarding
        /\ "ledgerWidth" \in foreign' <=> "ledgerWidth" \in foreign
        /\ "hasSeenOnboarding" \in foreign' <=> "hasSeenOnboarding" \in foreign
    BY <2>1, SaveChanges DEF LayoutInv, Keys
  <2>3. Remembered'
    BY <2>1, <2>2 DEF LayoutInv, Remembered, Stored
  <2>4. PrefsSaved'
    BY <2>1, <2>2, <2>3, SavedIsRead DEF PrefsSaved
  <2>5. TipSaved' /\ WidthSaved'
    BY <2>1, <2>2, LoadsTheirKey DEF LayoutInv, TipSaved, WidthSaved, Rounded
  <2>6. QED
    BY <2>3, <2>4, <2>5 DEF LayoutInv
<1>2. CASE dismissOnboarding
  <2>1. /\ Save("hasSeenOnboarding", "1") /\ showOnboarding' = FALSE
        /\ UNCHANGED <<storage, preferences, ledgerWidth, leftWidth, draggingRef, hurried>>
    BY <1>2 DEF dismissOnboarding, markOnboardingSeen, pointer
  <2>2. /\ localStorage' \in {localStorage, [localStorage EXCEPT !["hasSeenOnboarding"] = "1"]}
        /\ storage = "works" =>
             /\ localStorage'.hasSeenOnboarding = "1"
             /\ localStorage'.ledgerWidth = localStorage.ledgerWidth
             /\ localStorage'.prefs = localStorage.prefs
        /\ "ledgerWidth" \in foreign' <=> "ledgerWidth" \in foreign
        /\ "prefs" \in foreign' <=> "prefs" \in foreign
    BY <2>1, SaveChanges DEF LayoutInv, Keys
  <2>3. Remembered'
    BY <2>1, <2>2 DEF LayoutInv, Remembered, Stored
  <2>4. TipSaved'
    BY <2>1, <2>2, <2>3, SavedIsRead DEF TipSaved
  <2>5. PrefsSaved' /\ WidthSaved'
    BY <2>1, <2>2, LoadsTheirKey DEF LayoutInv, PrefsSaved, WidthSaved, Rounded
  <2>6. QED
    BY <2>3, <2>4, <2>5 DEF LayoutInv
<1>3. QED
  BY <1>1, <1>2

(* The rest leaves the storage alone, and changes a width only in a drag.    *)
LEMMA OthersKeepLayout ==
  ASSUME LayoutInv,
         \/ RenderMove
         \/ PointerCancelled
         \/ \E x \in 0..2 * MAX_LEDGER_WIDTH + HandleWidth : onPointerMove(x)
         \/ \E target \in {"divider", "button", "panel", "elsewhere"} : MouseDown(target)
         \/ Release
         \/ ClickButton
         \/ KeyOnButton
         \/ onEsc
         \/ UNCHANGED layoutVars
  PROVE  LayoutInv'
<1> DEFINE Same ==
             /\ UNCHANGED <<localStorage, storage, preferences, showOnboarding, hurried, foreign>>
             /\ ledgerWidth' \in Widths /\ leftWidth' \in Widths
             /\ draggingRef' \in BOOLEAN
             /\ ~draggingRef' => ~draggingRef /\ ledgerWidth' = ledgerWidth
<1> USE DEF LayoutInv, Remembered, Stored, shown, pointer
<1>1. Same
  <2>1. CASE RenderMove
    BY <2>1 DEF RenderMove
  <2>2. CASE PointerCancelled
    BY <2>2 DEF PointerCancelled
  <2>3. ASSUME NEW x \in 0..2 * MAX_LEDGER_WIDTH + HandleWidth, onPointerMove(x)
        PROVE  Same
    <3>1. x \in Int
      BY LayoutAssumption
    <3>2. clampLedgerWidth(x) \in Widths
      BY <3>1, ClampedWidth
    <3>3. QED
      BY <2>3, <3>2 DEF onPointerMove, setLedgerWidth
  <2>4. ASSUME NEW target, MouseDown(target) PROVE Same
    BY <2>4 DEF MouseDown
  <2>5. CASE Release
    BY <2>5 DEF Release
  <2>6. CASE ClickButton
    BY <2>6 DEF ClickButton
  <2>7. CASE KeyOnButton
    BY <2>7 DEF KeyOnButton
  <2>8. CASE onEsc
    BY <2>8 DEF onEsc
  <2>9. CASE UNCHANGED layoutVars
    BY <2>9 DEF layoutVars
  <2>10. QED
    BY <2>1, <2>2, <2>3, <2>4, <2>5, <2>6, <2>7, <2>8, <2>9
<1>2. Remembered'
  BY <1>1
<1>3. PrefsSaved' /\ TipSaved' /\ WidthSaved'
  BY <1>1, LoadsTheirKey DEF PrefsSaved, TipSaved, WidthSaved, Rounded
<1>4. QED
  BY <1>2, <1>3

LEMMA LayoutInitially == LayoutInit => LayoutInv
<1> SUFFICES ASSUME LayoutInit PROVE LayoutInv
  OBVIOUS
<1>1. Stored
  BY DEF LayoutInit, Stored
<1>2. /\ loadPreferences \in Preferences
      /\ loadLedgerWidth \in Widths
      /\ 2 * Rounded(loadLedgerWidth) = loadLedgerWidth
  BY <1>1, LoadedWidth, LoadedPreferences
<1>3. QED
  BY <1>1, <1>2 DEF LayoutInit, LayoutInv, Remembered, Stored, PrefsSaved, TipSaved, WidthSaved,
     hasSeenOnboarding

LEMMA LayoutInductive ==
  LayoutInv /\ [LayoutNext]_layoutVars => LayoutInv'
  BY LoadKeepsLayout, OtherTabKeepsLayout, DividerKeepsLayout, SettingsKeepLayout, OthersKeepLayout
     DEF LayoutNext

LEMMA ButtonInductive ==
  ButtonRemembers /\ [LayoutNext]_layoutVars => ButtonRemembers'
<1> SUFFICES ASSUME ButtonRemembers, [LayoutNext]_layoutVars PROVE ButtonRemembers'
  OBVIOUS
<1> USE DEF ButtonRemembers, pointer
<1>1. CASE Reload
  BY <1>1 DEF Reload
<1>2. CASE OtherTab \/ RenderMove
  BY <1>2 DEF OtherTab, RenderMove
<1>3. CASE onPointerUp
  BY <1>3 DEF onPointerUp
<1>4. CASE PointerCancelled
  BY <1>4 DEF PointerCancelled
<1>5. ASSUME NEW x, onPointerMove(x) PROVE ButtonRemembers'
  BY <1>5 DEF onPointerMove
<1>6. ASSUME NEW step, onKeyDown(step) PROVE ButtonRemembers'
  BY <1>6 DEF onKeyDown
<1>7. ASSUME NEW target, MouseDown(target) PROVE ButtonRemembers'
  BY <1>7 DEF MouseDown, Closes
<1>8. CASE Release
  BY <1>8 DEF Release
<1>9. CASE ClickButton
  BY <1>9 DEF ClickButton
<1>10. CASE KeyOnButton
  BY <1>10 DEF KeyOnButton
<1>11. CASE onEsc
  BY <1>11 DEF onEsc
<1>12. ASSUME NEW field, update(field) PROVE ButtonRemembers'
  BY <1>12 DEF update
<1>13. CASE dismissOnboarding
  BY <1>13 DEF dismissOnboarding
<1>14. CASE UNCHANGED layoutVars
  BY <1>14 DEF layoutVars
<1>15. QED
  BY <1>1, <1>2, <1>3, <1>4, <1>5, <1>6, <1>7, <1>8, <1>9, <1>10, <1>11, <1>12, <1>13, <1>14
     DEF LayoutNext

(* Whatever the limits of the width and the contents of the storage at       *)
(* first, a reload shows the page as it was.                                 *)
THEOREM ReloadShowsTheSame ==
  LayoutSpec => ReloadKeepsLayout
<1> DEFINE Kept ==
             Reload /\ storage = "works" =>
               /\ "prefs" \notin foreign => preferences' = preferences
               /\ "hasSeenOnboarding" \notin foreign => showOnboarding' = showOnboarding
               /\ "ledgerWidth" \notin foreign /\ ~draggingRef /\ ~hurried =>
                     ledgerWidth' = 2 * Rounded(ledgerWidth)
<1>1. LayoutInit => LayoutInv
  BY LayoutInitially
<1>2. LayoutInv /\ [LayoutNext]_layoutVars => LayoutInv'
  BY LayoutInductive
<1>3. LayoutInv /\ [LayoutNext]_layoutVars => [Kept]_layoutVars
  BY DEF LayoutInv, Remembered, Stored, PrefsSaved, TipSaved, WidthSaved, Reload
<1>4. QED
  BY <1>1, <1>2, <1>3, PTL DEF LayoutSpec, ReloadKeepsLayout

(* A click on the settings button always does the opposite of what the       *)
(* popover was at the press, or as Esc or a key left it since.               *)
THEOREM ButtonToggles == LayoutSpec => PopoverToggles
<1>1. LayoutInit => ButtonRemembers
  BY DEF LayoutInit, ButtonRemembers
<1>2. ButtonRemembers /\ [LayoutNext]_layoutVars => ButtonRemembers'
  BY ButtonInductive
<1>3. ButtonRemembers /\ [LayoutNext]_layoutVars =>
        [ClickButton => open' = ~openAtPress]_layoutVars
  BY DEF ButtonRemembers, ClickButton
<1>4. QED
  BY <1>1, <1>2, <1>3, PTL DEF LayoutSpec, PopoverToggles

=============================================================================
