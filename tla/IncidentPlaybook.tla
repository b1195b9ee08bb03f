-------------------------- MODULE IncidentPlaybook --------------------------
(***************************************************************************)
(* Incidents and their playbook steps (apps/api/src/incidents) over the    *)
(* Postgres store.  A request loads an incident with several queries,      *)
(* decides, then saves the whole incident in one transaction: the status   *)
(* of the incident and of every step are overwritten with the loaded ones, *)
(* the evidence links are only inserted.  Requests interleave at every     *)
(* await.  The evidence registry lives in the memory of the process.       *)
(***************************************************************************)
EXTENDS Naturals

CONSTANTS
    Incidents,       \* incident ids the clock may produce (inc_<ms>)
    Steps,           \* steps of the playbook template
    RequiresEvidence,\* the ones with requiresEvidence
    Orgs,
    Evidence,        \* evidence ids
    EvidenceOrg,     \* the organisation of each evidence
    SeedEvidence,    \* registered when the process starts
    Requests,        \* requests served at the same time
    MayFail,         \* whether queries may fail and the process may crash
    Null

ASSUME PlaybookAssumption ==
    /\ RequiresEvidence \subseteq Steps
    /\ EvidenceOrg \in [Evidence -> Orgs]
    /\ SeedEvidence \subseteq Evidence
    /\ MayFail \in BOOLEAN
    /\ Null \notin Incidents \cup Steps \cup Orgs \cup Evidence

VARIABLES
    status,     \* incidents.status, "absent" without a row
    org,        \* incidents.org_id
    step,       \* incident_steps.status
    links,      \* incident_step_evidence
    registry,   \* evidenceItems, in memory
    audit,      \* audit_events of the incidents
    request,    \* the requests in progress
    committed,  \* history: the audit events that committed changes call for
    untold,     \* history: the ones whose request ended before it wrote them
    seen        \* history: the statuses and the step statuses that the
                \* incident of a request has had since it was received

vars == <<status, org, step, links, registry, audit, request, committed,
          untold, seen>>

tables == <<status, org, step, links>>
trail == <<audit, committed, untold>>

Statuses == {"absent", "open", "closed"}
StepStatuses == {"pending", "done"}

\* What a request does next: open, check before completing, link evidence,
\* reload and complete, close.
Phases == {"open", "check", "link", "done", "close"}
Pcs == {"idle", "row", "steps", "links", "save", "audit"}

Snapshot == [status: Statuses, step: [Steps -> StepStatuses],
             links: [Steps -> SUBSET Evidence]]

NoSnapshot == [status |-> "absent", step |-> [s \in Steps |-> "pending"],
               links |-> [s \in Steps |-> {}]]

\* todo: the evidence a completion has still to link, before "evidence" too.
Request ==
    [pc: Pcs, phase: Phases \cup {Null}, incident: Incidents \cup {Null},
     step: Steps \cup {Null}, evidence: Evidence \cup {Null},
     completing: BOOLEAN, todo: SUBSET Evidence, org: Orgs \cup {Null},
     snap: Snapshot]

Idle == [pc |-> "idle", phase |-> Null, incident |-> Null, step |-> Null,
         evidence |-> Null, completing |-> FALSE, todo |-> {}, org |-> Null,
         snap |-> NoSnapshot]

AuditEvent == [action: {"opened", "evidence_linked",
                        "step.completed", "closed"},
               incident: Incidents, step: Steps \cup {Null},
               evidence: Evidence \cup {Null}]

Sight == [statuses: SUBSET Statuses, steps: SUBSET [Steps -> StepStatuses]]

Unseen == [statuses |-> {}, steps |-> {}]

Init ==
    /\ status = [i \in Incidents |-> "absent"]
    /\ org = [i \in Incidents |-> Null]
    /\ step = [i \in Incidents |-> [s \in Steps |-> "pending"]]
    /\ links = [i \in Incidents |-> [s \in Steps |-> {}]]
    /\ registry = SeedEvidence
    /\ audit = {}
    /\ request = [r \in Requests |-> Idle]
    /\ committed = {} /\ untold = {}
    /\ seen = [r \in Requests |-> Unseen]

-----------------------------------------------------------------------------
(* Steps of a request. *)

At(r, pc, phase) == request[r].pc = pc /\ request[r].phase = phase

\* Received, and still to save: a completion saves once for each evidence it
\* links, and then once more.
Pending(q) ==
    \/ q.pc \in {"row", "steps", "links", "save"}
    \/ q.pc = "audit" /\ q.phase = "link" /\ q.completing

Turns(r, state) ==
    /\ request' = [request EXCEPT ![r] = state]
    /\ seen' = [seen EXCEPT ![r] = IF Pending(state) THEN @ ELSE Unseen]

Becomes(r, state) ==
    Turns(r, state) /\ UNCHANGED <<tables, registry, trail>>

Start(r, state) ==
    /\ request[r].pc = "idle"
    /\ request' = [request EXCEPT ![r] = state]
    /\ seen' = [seen EXCEPT ![r] = [statuses |-> {status[state.incident]},
                                    steps |-> {step[state.incident]}]]
    /\ UNCHANGED <<tables, registry, trail>>

\* Every pending request on incident i sees what it becomes.
Shown(i, st, v) ==
    seen' = [q \in Requests |->
                IF ~Pending(request'[q]) THEN Unseen
                ELSE IF request[q].incident = i
                THEN [statuses |-> seen[q].statuses \cup {st},
                      steps |-> seen[q].steps \cup {v}]
                ELSE seen[q]]

\* Fault: the name of the action is not one the trail knows.
EventOfPhase(r) ==
    [action |-> request[r].phase, incident |-> request[r].incident,
     step |-> request[r].step, evidence |-> request[r].evidence]

\* The audit event of a change, appended once the change is committed.
EventOf(r) ==
    [action |-> CASE request[r].phase = "open" -> "opened"
                  [] request[r].phase = "link" -> "evidence_linked"
                  [] request[r].phase = "done" -> "step.completed"
                  [] OTHER -> "closed",
     incident |-> request[r].incident, step |-> request[r].step,
     evidence |-> request[r].evidence]

\* evidence.create: one synchronous handler.
RegisterEvidence(e) ==
    /\ e \notin registry
    /\ registry' = registry \cup {e}
    /\ UNCHANGED <<tables, request, trail, seen>>

OpenIncident(r, i, o) ==
    Start(r, [Idle EXCEPT !.pc = "save", !.phase = "open", !.incident = i,
                          !.org = o])

LinkEvidence(r, i, s, e) ==
    Start(r, [Idle EXCEPT !.pc = "row", !.phase = "link", !.incident = i,
                          !.step = s, !.evidence = e])

CompleteStep(r, i, s, evidenceIds) ==
    Start(r, [Idle EXCEPT !.pc = "row", !.phase = "check", !.incident = i,
                          !.step = s, !.completing = TRUE,
                          !.todo = evidenceIds])

CloseIncident(r, i) ==
    Start(r, [Idle EXCEPT !.pc = "row", !.phase = "close", !.incident = i])

\* createIncident inserts the incident and its pending steps, or the
\* primary key is taken and the transaction is rolled back.
CreateIncident(r) ==
    LET i == request[r].incident IN
    /\ At(r, "save", "open")
    /\ status[i] = "absent"
    /\ status' = [status EXCEPT ![i] = "open"]
    /\ org' = [org EXCEPT ![i] = request[r].org]
    /\ request' = [request EXCEPT ![r] = [@ EXCEPT !.pc = "audit"]]
    /\ Shown(i, "open", step[i])
    /\ committed' = committed \cup {EventOf(r)}
    /\ UNCHANGED <<step, links, registry, audit, untold>>

IncidentExists(r) ==
    /\ At(r, "save", "open")
    /\ status[request[r].incident] # "absent"
    /\ Becomes(r, Idle)

\* getIncident, first query: the incident, or 404.
ReadRow(r) ==
    LET i == request[r].incident IN
    /\ request[r].pc = "row"
    /\ Becomes(r, IF status[i] = "absent" THEN Idle
                  ELSE [request[r] EXCEPT !.pc = "steps",
                                          !.snap.status = status[i]])

\* Its second query, and the others, one for each step, read together: the
\* links only grow.  What follows up to the next await is done at once.
ReadSteps(r) ==
    /\ request[r].pc = "steps"
    /\ Becomes(r, [request[r] EXCEPT !.pc = "links",
                                     !.snap.step = step[request[r].incident]])

Loaded(r) == [request[r].snap EXCEPT !.links = links[request[r].incident]]

\* The rest of a completion once its next evidence, if any, is linked.
Continue(r) ==
    IF request[r].todo = {}
    THEN {[request[r] EXCEPT !.pc = "row", !.phase = "done",
                             !.evidence = Null, !.snap = NoSnapshot]}
    ELSE {[request[r] EXCEPT !.pc = "row", !.phase = "link", !.evidence = e,
                             !.todo = @ \ {e}, !.snap = NoSnapshot]
              : e \in request[r].todo}

AfterLink(r) == IF request[r].completing THEN Continue(r) ELSE {Idle}

\* Fault: the organisation of the evidence is not compared.
LinkableAnywhere(r) ==
    Loaded(r).status = "open" /\ request[r].evidence \in registry

\* linkEvidence: the incident is open, the evidence known, of the same org.
Linkable(r) ==
    /\ Loaded(r).status = "open"
    /\ request[r].evidence \in registry
    /\ EvidenceOrg[request[r].evidence] = org[request[r].incident]

LinkRefused(r) ==
    /\ At(r, "links", "link")
    /\ ~Linkable(r)
    /\ Becomes(r, Idle)

AlreadyLinked(r) ==
    /\ At(r, "links", "link")
    /\ Linkable(r)
    /\ request[r].evidence \in Loaded(r).links[request[r].step]
    /\ \E next \in AfterLink(r) : Becomes(r, next)

LinkPrepared(r) ==
    /\ At(r, "links", "link")
    /\ Linkable(r)
    /\ request[r].evidence \notin Loaded(r).links[request[r].step]
    /\ Becomes(r, [request[r] EXCEPT
           !.pc = "save",
           !.snap = [Loaded(r) EXCEPT !.links[request[r].step] =
                                          @ \cup {request[r].evidence}]])

\* Fault: a closed incident is not refused.
CompletableClosed(r) == Loaded(r).step[request[r].step] # "done"

\* completeStep, before the links: the incident is open, the step pending.
Completable(r) ==
    Loaded(r).status = "open" /\ Loaded(r).step[request[r].step] # "done"

CompletionChecked(r) ==
    /\ At(r, "links", "check")
    /\ IF Completable(r)
       THEN \E next \in Continue(r) : Becomes(r, next)
       ELSE Becomes(r, Idle)

\* Fault: evidence linked to any step counts.
NoEvidenceAtAll(r) ==
    /\ request[r].step \in RequiresEvidence
    /\ \A s \in Steps : Loaded(r).links[s] = {}

\* completeStep, after the reload: only the evidence is checked again.
EvidenceMissing(r) ==
    /\ request[r].step \in RequiresEvidence
    /\ Loaded(r).links[request[r].step] = {}

CompletionPrepared(r) ==
    /\ At(r, "links", "done")
    /\ IF EvidenceMissing(r)
       THEN Becomes(r, Idle)
       ELSE Becomes(r, [request[r] EXCEPT
                !.pc = "save",
                !.snap = [Loaded(r) EXCEPT !.step[request[r].step] = "done"]])

ClosePrepared(r) ==
    /\ At(r, "links", "close")
    /\ IF Loaded(r).status = "closed"
       THEN Becomes(r, Idle)
       ELSE Becomes(r, [request[r] EXCEPT
                !.pc = "save", !.snap = [Loaded(r) EXCEPT !.status = "closed"]])

\* Fault: the links are replaced by the loaded ones.
ReplacedLinks(i, snap) == snap.links

\* INSERT ... ON CONFLICT DO NOTHING: links are only added.
SavedLinks(i, snap) == [s \in Steps |-> links[i][s] \cup snap.links[s]]

\* One transaction: the row of the incident is locked first, so two saves
\* never mix; a reader sees it entirely or not at all in each of its queries.
SaveIncident(r) ==
    LET i == request[r].incident
        snap == request[r].snap
    IN
    /\ request[r].pc = "save"
    /\ request[r].phase # "open"
    /\ status' = [status EXCEPT ![i] = snap.status]
    /\ step' = [step EXCEPT ![i] = snap.step]
    /\ links' = [links EXCEPT ![i] = SavedLinks(i, snap)]
    /\ request' = [request EXCEPT ![r] = [@ EXCEPT !.pc = "audit",
                                                  !.snap = NoSnapshot]]
    /\ Shown(i, snap.status, snap.step)
    /\ committed' = committed \cup {EventOf(r)}
    /\ UNCHANGED <<org, registry, audit, untold>>

\* Fault: the answer is sent without an audit event.
AuditSkipped(r) ==
    /\ request[r].pc = "audit"
    /\ \E next \in IF request[r].phase = "link" THEN AfterLink(r) ELSE {Idle} :
           Becomes(r, next)

AppendAudit(r) ==
    /\ request[r].pc = "audit"
    /\ audit' = audit \cup {EventOf(r)}
    /\ \E next \in IF request[r].phase = "link" THEN AfterLink(r) ELSE {Idle} :
           Turns(r, next)
    /\ UNCHANGED <<tables, registry, committed, untold>>

\* Committed, and not told yet.
Owed(rs) == {EventOf(r) : r \in {q \in rs : request[q].pc = "audit"}}

\* A query fails: a transaction in progress is rolled back, the ones that
\* were committed before stay.
QueryFails(r) ==
    /\ MayFail
    /\ request[r].pc # "idle"
    /\ Turns(r, Idle)
    /\ untold' = untold \cup Owed({r})
    /\ UNCHANGED <<tables, registry, audit, committed>>

\* The tables survive a crash; the requests and the registry do not.
Crash ==
    /\ MayFail
    /\ request' = [r \in Requests |-> Idle]
    /\ registry' = SeedEvidence
    /\ untold' = untold \cup Owed(Requests)
    /\ seen' = [r \in Requests |-> Unseen]
    /\ UNCHANGED <<tables, audit, committed>>

Receive(r) ==
    \E i \in Incidents :
        \/ \E o \in Orgs : OpenIncident(r, i, o)
        \/ \E s \in Steps, e \in Evidence : LinkEvidence(r, i, s, e)
        \/ \E s \in Steps, ids \in SUBSET Evidence : CompleteStep(r, i, s, ids)
        \/ CloseIncident(r, i)

Serve(r) ==
    \/ CreateIncident(r) \/ IncidentExists(r)
    \/ ReadRow(r) \/ ReadSteps(r)
    \/ LinkRefused(r) \/ AlreadyLinked(r) \/ LinkPrepared(r)
    \/ CompletionChecked(r) \/ CompletionPrepared(r)
    \/ ClosePrepared(r)
    \/ SaveIncident(r) \/ AppendAudit(r)

Next ==
    \/ \E e \in Evidence : RegisterEvidence(e)
    \/ \E r \in Requests : Receive(r) \/ Serve(r) \/ QueryFails(r)
    \/ Crash

Spec == Init /\ [][Next]_vars

-----------------------------------------------------------------------------
(* Properties. *)

TypeOK ==
    /\ status \in [Incidents -> Statuses]
    /\ org \in [Incidents -> Orgs \cup {Null}]
    /\ step \in [Incidents -> [Steps -> StepStatuses]]
    /\ links \in [Incidents -> [Steps -> SUBSET Evidence]]
    /\ registry \subseteq Evidence
    /\ request \in [Requests -> Request]
    /\ audit \subseteq AuditEvent
    /\ committed \subseteq AuditEvent /\ untold \subseteq AuditEvent
    /\ seen \in [Requests -> Sight]

\* A step that requires evidence is never done without a linked evidence
\* (RG-05), although the check and the save are apart, saves overwrite each
\* other's step statuses, and the process may die in between.
EvidenceBacked ==
    \A i \in Incidents, s \in RequiresEvidence :
        step[i][s] = "done" => links[i][s] # {}

\* Evidence of one organisation is never linked to an incident of another.
LinksSameOrg ==
    \A i \in Incidents, s \in Steps, e \in Evidence :
        e \in links[i][s] => EvidenceOrg[e] = org[i]

\* A stale save never takes back a link that another request made.
LinksKept ==
    [][\A i \in Incidents, s \in Steps :
           links[i][s] \subseteq links'[i][s]]_vars

\* What the client of request q has asked for.
OperationOf(q) ==
    IF q.phase \in {"open", "close"} THEN q.phase
    ELSE IF q.completing THEN "complete" ELSE "link"

\* No committed change goes missing from the audit trail (RG-15) but those of
\* the requests that ended, by a failed query or a crash, right between the
\* transaction and the append: each is in the trail, or still to be told by a
\* request in progress, or was cut off there.
CommitsAccounted ==
    committed = audit \cup Owed(Requests) \cup untold

\* The API as its clients understand it, however many call it at once.  Not
\* that a closed incident stays closed: a request that saw it open saves it
\* as open.
Lifecycle ==
    INSTANCE IncidentLifecycle WITH
        Clients <- Requests,
        call <- [r \in Requests |->
                    IF Pending(request[r])
                    THEN [op |-> OperationOf(request[r]),
                          incident |-> request[r].incident,
                          step |-> request[r].step, org |-> request[r].org,
                          statuses |-> seen[r].statuses,
                          steps |-> seen[r].steps]
                    ELSE [op |-> "none"]]

LifecycleSpec == Lifecycle!Spec

=============================================================================
