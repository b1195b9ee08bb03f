----------------------------- MODULE Assessments -----------------------------
(***************************************************************************)
(* Assessments and controls of an organisation                             *)
(* (apps/api/src/assessments, apps/api/src/controls) over the Postgres     *)
(* store.  Every operation but the insertion loads a row, decides, writes  *)
(* all its columns back with one UPDATE, reads the row again, appends an   *)
(* audit event and answers with the row.  Requests interleave at every     *)
(* await, and no query compares what it overwrites with what was loaded.   *)
(* The audit events are rows that nothing here reads: appending one is     *)
(* part of the last step, and its failure one of the failures of it.       *)
(***************************************************************************)
EXTENDS AssessmentScoring

CONSTANTS
    Assessments,    \* assessment ids the clock may produce (asmt_<ms>)
    Controls,       \* ids of the seeded controls
    Patches,        \* answers that a client may send
    ControlPatches, \* control changes that a client may send
    Requests,       \* requests served at the same time
    Texts           \* owners and due dates, "" when there is none

ControlStatuses == {"not_started", "in_progress", "implemented",
                    "not_applicable"}

ControlRows == [status: ControlStatuses, owner: Texts, dueAt: Texts]

\* What a change to a control may name.
ControlChanges == [status: ControlStatuses \cup {Null},
                   owner: Texts \cup {Null}, dueAt: Texts \cup {Null}]

ASSUME AssessmentsAssumption ==
    /\ Assessments \cap Controls = {}
    /\ Null \notin Assessments \cup Controls \cup ControlStatuses
    /\ "" \in Texts
    /\ Patches \subseteq Answers
    /\ ControlPatches \subseteq ControlChanges

VARIABLES
    stored,     \* tables nis2_assessments and controls, Null without a row
    request     \* the requests in progress, each in the hands of one client

apiVars == <<stored, request>>

Ids == Assessments \cup Controls

\* result: scope_status, maturity_score, domain_scores, gaps, disclaimer_ack
\* and completed_at, which are only ever written together.
AssessmentRows == [status: {"draft", "completed"}, answers: Answers,
                   result: Results \cup {Null}, version: Nat]

ASSUME RowAssumption == Null \notin AssessmentRows \cup ControlRows

Ops == {"create", "update", "complete", "control", "list"}

\* "ok" and "failed": the answer is on its way to the client.
Pcs == {"idle", "insert", "load", "save", "reread", "list", "ok", "failed"}

Idle == [pc |-> "idle", op |-> Null, id |-> Null, patch |-> Null,
         row |-> Null]

NewAssessment(answers) ==
    [status |-> "draft", answers |-> answers, result |-> Null, version |-> 1]

NewControl == [status |-> "not_started", owner |-> "", dueAt |-> ""]

ApiInit ==
    /\ stored = [i \in Ids |-> IF i \in Controls THEN NewControl ELSE Null]
    /\ request = [r \in Requests |-> Idle]

-----------------------------------------------------------------------------
(* What an operation makes of a row. *)

\* { ...row, ...patch }: the fields that the patch names are replaced.
Patched(row, patch) ==
    [f \in DOMAIN row |-> IF patch[f] = Null THEN row[f] ELSE patch[f]]

\* Fault: the assessment is completed before its results are computed.
CompletedLater(row) ==
    [row EXCEPT !.status = "completed", !.version = @ + 1]

Completed(row) ==
    [row EXCEPT !.status = "completed", !.result = ResultOf(row.answers),
                !.version = @ + 1]

\* Fault: the change to a control replaces all of its columns.
EffectReplaces(op, row, patch) ==
    CASE op = "update" -> [row EXCEPT !.answers = Patched(@, patch)]
      [] op = "complete" -> Completed(row)
      [] op = "control" -> patch

Effect(op, row, patch) ==
    CASE op = "update" -> [row EXCEPT !.answers = Patched(@, patch)]
      [] op = "complete" -> Completed(row)
      [] op = "control" -> Patched(row, patch)

\* Fault: only completing an assessment again is refused.
RefusedTwice(op, row) ==
    row = Null \/ (op = "complete" /\ row.status = "completed")

\* 404, or 400 for an assessment that is completed.
Refused(op, row) ==
    row = Null \/ (op \in {"update", "complete"} /\ row.status = "completed")

-----------------------------------------------------------------------------
(* Steps of a request. *)

At(r, pc) == request[r].pc = pc

Becomes(r, state) ==
    /\ request' = [request EXCEPT ![r] = state]
    /\ UNCHANGED stored

Create(r, i, answers) ==
    /\ At(r, "idle")
    /\ Becomes(r, [Idle EXCEPT !.pc = "insert", !.op = "create", !.id = i,
                               !.patch = answers])

Update(r, i, patch) ==
    /\ At(r, "idle")
    /\ Becomes(r, [Idle EXCEPT !.pc = "load", !.op = "update", !.id = i,
                               !.patch = patch])

Complete(r, i) ==
    /\ At(r, "idle")
    /\ Becomes(r, [Idle EXCEPT !.pc = "load", !.op = "complete", !.id = i])

UpdateControl(r, c, patch) ==
    /\ At(r, "idle")
    /\ Becomes(r, [Idle EXCEPT !.pc = "load", !.op = "control", !.id = c,
                               !.patch = patch])

List(r) ==
    /\ At(r, "idle")
    /\ Becomes(r, [Idle EXCEPT !.pc = "list", !.op = "list"])

\* createAssessment: the primary key refuses an id that is taken.
Insert(r) ==
    LET i == request[r].id IN
    /\ At(r, "insert")
    /\ IF stored[i] = Null
       THEN /\ stored' = [stored EXCEPT ![i] = NewAssessment(request[r].patch)]
            /\ request' = [request EXCEPT ![r].pc = "reread"]
       ELSE Becomes(r, [request[r] EXCEPT !.pc = "failed"])

\* The row is read; refusals and changes are decided before the next await.
Load(r) ==
    LET q == request[r]
        row == stored[q.id]
    IN
    /\ At(r, "load")
    /\ Becomes(r, IF Refused(q.op, row) THEN [q EXCEPT !.pc = "failed"]
                  ELSE [q EXCEPT !.pc = "save",
                                 !.row = Effect(q.op, row, q.patch)])

Save(r) ==
    /\ At(r, "save")
    /\ stored' = [stored EXCEPT ![request[r].id] = request[r].row]
    /\ request' = [request EXCEPT ![r].pc = "reread"]

\* Fault: the answer carries what the client sent, not what is stored.
AnswerPatch(r) ==
    /\ At(r, "reread")
    /\ Becomes(r, [request[r] EXCEPT
           !.pc = "ok",
           !.row = IF request[r].op = "update"
                   THEN NewAssessment(request[r].patch)
                   ELSE stored[request[r].id]])

\* The row that is answered is read again, since another request may have
\* saved; then the audit event is appended.
Reread(r) ==
    /\ At(r, "reread")
    /\ Becomes(r, [request[r] EXCEPT !.pc = "ok",
                                     !.row = stored[request[r].id]])

\* listAssessments, of which a client takes the first.  The order of their
\* updated_at is left open: any of them may come first.
ReadLatest(r) ==
    LET existing == {i \in Assessments : stored[i] # Null} IN
    /\ At(r, "list")
    /\ \E i \in IF existing = {} THEN {Null} ELSE existing :
           Becomes(r, [request[r] EXCEPT
               !.pc = "ok", !.id = i,
               !.row = IF i = Null THEN Null ELSE stored[i]])

\* A query fails, and the answer is a 500.
QueryFails(r) ==
    /\ request[r].pc \in {"insert", "load", "save", "reread", "list"}
    /\ Becomes(r, [request[r] EXCEPT !.pc = "failed"])

\* The process dies: the client of every request sees it fail.
Crash ==
    /\ request' = [r \in Requests |-> IF At(r, "idle") THEN Idle
                                      ELSE [request[r] EXCEPT !.pc = "failed"]]
    /\ UNCHANGED stored

Serve(r) ==
    Insert(r) \/ Load(r) \/ Save(r) \/ Reread(r) \/ ReadLatest(r)

Answered(r) == request[r].pc \in {"ok", "failed"}

\* The client has the answer.
Hand(r) == Answered(r) /\ Becomes(r, Idle)

\* What any number of clients may ask for.
Receive(r) ==
    \/ \E i \in Assessments, a \in Patches : Create(r, i, a) \/ Update(r, i, a)
    \/ \E i \in Assessments : Complete(r, i)
    \/ \E c \in Controls, p \in ControlPatches : UpdateControl(r, c, p)
    \/ List(r)

ApiNext ==
    \/ \E r \in Requests : Receive(r) \/ Serve(r) \/ QueryFails(r) \/ Hand(r)
    \/ Crash

ApiSpec == ApiInit /\ [][ApiNext]_apiVars

-----------------------------------------------------------------------------
(* Properties. *)

\* The columns of a row always belong together, although UPDATEs of several
\* requests overwrite each other: a completed assessment carries the scores
\* of the very answers stored with it, and a draft carries none.
ResultsMatchAnswers ==
    \A i \in Assessments : stored[i] # Null =>
        \/ /\ stored[i].status = "draft"
           /\ stored[i].result = Null /\ stored[i].version = 1
        \/ /\ stored[i].status = "completed"
           /\ stored[i].result = ResultOf(stored[i].answers)
           /\ stored[i].version = 2

\* The gaps of a completed assessment are those of the domains under their
\* thresholds, each once, the most urgent first ("gaps prioritaires",
\* assessment-scoring.ts:19).
GapsPrioritised ==
    \A i \in Assessments : stored[i] # Null /\ stored[i].result # Null =>
        LET gaps == stored[i].result.gaps
            scores == stored[i].result.domainScores
        IN
        /\ {gaps[n].domain : n \in DOMAIN gaps}
             = {g.domain : g \in {GapCatalog[n] : n \in {x \in 1 .. 6 :
                    scores[GapCatalog[x].domain] < GapCatalog[x].threshold}}}
        /\ \A m, n \in DOMAIN gaps : m < n =>
               /\ gaps[m].domain # gaps[n].domain
               /\ gaps[m].priority >= gaps[n].priority

=============================================================================
