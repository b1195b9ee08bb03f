--------------------------- MODULE AssessmentPanel ---------------------------
(***************************************************************************)
(* The assessment page of one browser                                      *)
(* (apps/web/components/assessment/assessment-panel.tsx) over the API of   *)
(* Assessments.  The page shows a copy of one assessment.  Every edit of   *)
(* the questionnaire sends a request at once and the fields stay enabled   *)
(* meanwhile, so several requests may be on their way, and their answers   *)
(* come back in any order; each replaces the copy.  The questionnaire can  *)
(* be validated when the page is not busy, but the first answer of several *)
(* already clears that mark.                                               *)
(***************************************************************************)
EXTENDS Assessments

CONSTANTS
    FieldEdits,     \* the patches that one field of the page may send
    Slides,         \* the positions a maturity slider may be dragged to
    StatusChoices   \* the statuses a control may be given

ASSUME PanelAssumption ==
    /\ FieldEdits \subseteq Answers
    /\ Slides \subseteq [domain: DOMAINS, value: 0 .. 100]
    /\ StatusChoices \subseteq ControlStatuses

VARIABLES
    panel,      \* the state of the component
    overlap,    \* history: requests overlapped since none was pending
    doubt       \* history: the copy on the page may be out of date

vars == <<stored, request, panel, overlap, doubt>>

Views == {"mount", "loading", "empty", "draft", "result", "gap", "error"}

\* id and shown: the assessment on the page.  "mount": nothing sent yet.
PanelStates == [view: Views, id: Assessments \cup {Null},
                shown: AssessmentRows \cup {Null}, busy: BOOLEAN, ack: BOOLEAN]

Init ==
    /\ ApiInit
    /\ panel = [view |-> "mount", id |-> Null, shown |-> Null,
                busy |-> FALSE, ack |-> FALSE]
    /\ overlap = FALSE
    /\ doubt = FALSE

\* What is rendered: the questionnaire and a gap need an assessment, and the
\* results are what is left.
Page ==
    IF panel.view \in {"draft", "gap"} /\ panel.shown = Null THEN "result"
    ELSE panel.view

-----------------------------------------------------------------------------
(* What the user does. *)

Sends(state) ==
    /\ panel' = state
    /\ overlap' = (\E r \in Requests : ~At(r, "idle"))
    /\ UNCHANGED doubt

Stays(state) ==
    /\ panel' = state
    /\ UNCHANGED <<stored, request, overlap, doubt>>

\* The effect of the first rendering, and the button of the error view.
Refresh(r) ==
    /\ panel.view \in {"mount", "error"}
    /\ List(r)
    /\ Sends([panel EXCEPT !.view = IF @ = "mount" THEN "loading" ELSE @])

\* What a new assessment starts with.
FirstAnswers ==
    [sector |-> "industrie", headcountBand |-> "50_249",
     digitalActivities |-> TRUE, criticalDependencies |-> TRUE,
     domainMaturity |->
         [d \in DOMAINS |->
             CASE d = "gouvernance" -> 70 [] d = "risques" -> 55
               [] d = "continuite" -> 48 [] d = "incidents" -> 72
               [] d = "supply_chain" -> 40 [] d = "formation" -> 60]]

\* One browser does not start two in one millisecond: the id is new.
StartAssessment(r) ==
    /\ Page \in {"empty", "result"}
    /\ ~panel.busy
    /\ \E i \in {x \in Assessments : stored[x] = Null} :
           Create(r, i, FirstAnswers)
    /\ Sends([panel EXCEPT !.view = "loading", !.busy = TRUE])

\* A slider sends the maturities of the copy with its own replaced.
SlidePatch(slide) ==
    LET known == panel.shown.answers.domainMaturity IN
    [NoAnswers EXCEPT !.domainMaturity =
        [d \in DOMAINS |-> IF d = slide.domain THEN slide.value
                           ELSE IF known = Null THEN Null ELSE known[d]]]

\* patchAnswers: the fields are not disabled while the page is busy.
PatchAnswers(r) ==
    /\ Page = "draft"
    /\ panel.shown.status = "draft"
    /\ \E patch \in FieldEdits \cup {SlidePatch(s) : s \in Slides} :
           Update(r, panel.id, patch)
    /\ Sends([panel EXCEPT !.busy = TRUE])

ToggleAck ==
    /\ Page = "draft"
    /\ Stays([panel EXCEPT !.ack = ~@])

Finish(r) ==
    /\ Page = "draft"
    /\ panel.ack /\ ~panel.busy
    /\ Complete(r, panel.id)
    /\ Sends([panel EXCEPT !.view = "loading", !.busy = TRUE])

\* The results list the controls, each with its status.
OnControlStatus(r) ==
    /\ Page = "result"
    /\ \E c \in Controls, s \in StatusChoices :
           UpdateControl(r, c, [status |-> s, owner |-> Null, dueAt |-> Null])
    /\ Sends(panel)

OpenGap ==
    /\ Page = "result"
    /\ panel.shown # Null /\ panel.shown.result # Null
    /\ panel.shown.result.gaps # <<>>
    /\ Stays([panel EXCEPT !.view = "gap"])

BackToResults ==
    /\ Page = "gap"
    /\ Stays([panel EXCEPT !.view = "result"])

-----------------------------------------------------------------------------
(* What the page does with an answer, in whatever order they arrive. *)

Shows(q, view) ==
    [panel EXCEPT !.id = q.id, !.shown = q.row, !.view = view]

ViewOf(row) ==
    IF row = Null THEN "empty"
    ELSE IF row.status = "draft" THEN "draft" ELSE "result"

\* Fault: a failed validation leaves the skeleton on the page.
AfterFailureStuck(q) ==
    CASE q.op = "list" -> [panel EXCEPT !.view = "error"]
      [] q.op = "create" -> [panel EXCEPT !.view = "error", !.busy = FALSE]
      [] q.op \in {"update", "complete"} -> [panel EXCEPT !.busy = FALSE]
      [] OTHER -> panel

AfterFailure(q) ==
    CASE q.op = "list" -> [panel EXCEPT !.view = "error"]
      [] q.op = "create" -> [panel EXCEPT !.view = "error", !.busy = FALSE]
      [] q.op = "update" -> [panel EXCEPT !.busy = FALSE]
      [] q.op = "complete" -> [panel EXCEPT !.view = "draft", !.busy = FALSE]
      [] OTHER -> panel

AfterSuccess(q) ==
    CASE q.op = "list" -> Shows(q, ViewOf(q.row))
      [] q.op = "create" -> [Shows(q, "draft") EXCEPT !.busy = FALSE]
      [] q.op = "update" -> [Shows(q, panel.view) EXCEPT !.busy = FALSE]
      [] q.op = "complete" -> [Shows(q, "result") EXCEPT !.busy = FALSE]
      [] OTHER -> panel

Answer(r) ==
    /\ Hand(r)
    /\ panel' = IF request[r].pc = "ok" THEN AfterSuccess(request[r])
                ELSE AfterFailure(request[r])
    /\ doubt' = IF request[r].op = "control" THEN doubt
                ELSE overlap \/ request[r].pc = "failed"
    /\ UNCHANGED overlap

Next ==
    \/ \E r \in Requests :
           Refresh(r) \/ StartAssessment(r) \/ PatchAnswers(r) \/ Finish(r)
           \/ OnControlStatus(r) \/ Answer(r)
    \/ ToggleAck \/ OpenGap \/ BackToResults
    \/ /\ Crash \/ \E r \in Requests : Serve(r) \/ QueryFails(r)
       /\ UNCHANGED <<panel, overlap, doubt>>

\* The page is rendered, and the process answers what it received.
Fairness ==
    /\ WF_vars(panel.view = "mount" /\ \E r \in Requests : Refresh(r))
    /\ \A r \in Requests :
           WF_vars(\/ Answer(r)
                   \/ Serve(r) /\ UNCHANGED <<panel, overlap, doubt>>)

Spec == Init /\ [][Next]_vars /\ Fairness

-----------------------------------------------------------------------------
(* Properties. *)

TypeOK ==
    /\ stored \in [Ids -> AssessmentRows \cup ControlRows \cup {Null}]
    /\ \A i \in Assessments : stored[i] \in AssessmentRows \cup {Null}
    /\ \A r \in Requests : request[r].pc \in Pcs
    /\ panel \in PanelStates
    /\ overlap \in BOOLEAN /\ doubt \in BOOLEAN

\* As long as the user waits for one answer before the next request, the
\* page ends up showing what the table holds: the row an answer carries is
\* the one that its request left, and no earlier one.
ShownIsStored ==
    (\A r \in Requests : At(r, "idle")) /\ ~doubt /\ panel.shown # Null
    => stored[panel.id] = panel.shown

\* As long as requests do not overlap, each save is exactly its operation
\* applied to the row as it stands: nothing is lost, and an assessment once
\* completed is never written again (assessments.service.ts:62).
SerialSavesExact ==
    [][\A r \in Requests :
           At(r, "save") /\ request'[r].pc = "reread" /\ ~overlap =>
           LET q == request[r] IN
           /\ q.id \in Assessments => stored[q.id].status = "draft"
           /\ stored' = [stored EXCEPT ![q.id] = Effect(q.op, @, q.patch)]]_vars

\* The page never stays on its skeleton: whatever fails, the user gets the
\* questionnaire, the results, or an error with a button to try again.
PanelSettles == panel.view \in {"mount", "loading"}
                ~> panel.view \notin {"mount", "loading"}

=============================================================================
