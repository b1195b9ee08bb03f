---------------------- MODULE IncidentPlaybook_proofs ----------------------
(***************************************************************************)
(* For any number of requests, incidents, steps and evidence, with failed  *)
(* queries and crashes: a step that requires evidence is never done        *)
(* without a linked evidence, links stay within an organisation and are    *)
(* never taken back, every committed change is told by the audit trail or  *)
(* accounted for, and the requests implement IncidentLifecycle.            *)
(***************************************************************************)
EXTENDS IncidentPlaybook, TLAPS

\* A request that is not idle works on an incident; except to open or close
\* it, on one of its steps; to link, with an evidence.
WellFormed(q) ==
    /\ q.pc # "idle" => q.incident \in Incidents /\ q.phase \in Phases
    /\ q.pc # "idle" /\ q.phase = "open"
           => q.org \in Orgs /\ q.pc \in {"save", "audit"}
    /\ q.pc # "idle" /\ q.phase \in {"check", "link", "done"}
           => q.step \in Steps
    /\ q.pc # "idle" /\ q.phase = "link" => q.evidence \in Evidence
    /\ q.pc # "idle" /\ q.phase \in {"check", "done"} => q.completing
    /\ q.completing => q.step \in Steps /\ q.incident \in Incidents

TypeInv ==
    /\ TypeOK
    /\ \A r \in Requests : WellFormed(request[r])

LEMMA IdleType ==
    /\ NoSnapshot \in Snapshot /\ Idle \in Request /\ WellFormed(Idle)
    /\ Unseen \in Sight
  BY DEF NoSnapshot, Snapshot, Idle, Request, Statuses, StepStatuses, Pcs,
         WellFormed, Unseen, Sight

\* The frame of every step that leaves the tables alone, but to move one
\* request and to write the trail.
LEMMA MovedType ==
    ASSUME TypeInv, NEW r \in Requests, NEW state \in Request,
           WellFormed(state), request' = [request EXCEPT ![r] = state],
           seen' \in [Requests -> Sight], UNCHANGED <<tables, registry>>,
           audit' \subseteq AuditEvent, committed' \subseteq AuditEvent,
           untold' \subseteq AuditEvent
    PROVE  TypeInv'
  <1>1. UNCHANGED <<status, org, step, links, registry>>
    BY DEF tables
  <1>2. request' \in [Requests -> Request]
    BY DEF TypeInv, TypeOK
  <1>3. \A q \in Requests : WellFormed(request'[q])
    BY DEF TypeInv, TypeOK
  <1>4. TypeOK'
    BY <1>1, <1>2 DEF TypeInv, TypeOK
  <1> QED
    BY <1>3, <1>4 DEF TypeInv, WellFormed

LEMMA TurnsType ==
    ASSUME TypeInv, NEW r \in Requests, NEW state, Turns(r, state)
    PROVE  /\ request' = [request EXCEPT ![r] = state]
           /\ seen' \in [Requests -> Sight]
  BY IdleType DEF Turns, TypeInv, TypeOK

LEMMA BecomesType ==
    ASSUME TypeInv, NEW r \in Requests, NEW state \in Request,
           WellFormed(state), Becomes(r, state)
    PROVE  TypeInv'
  <1>1. /\ Turns(r, state) /\ UNCHANGED <<tables, registry>>
        /\ audit' = audit /\ committed' = committed /\ untold' = untold
    BY DEF Becomes, trail
  <1> QED
    BY <1>1, TurnsType, MovedType DEF TypeInv, TypeOK

LEMMA StartType ==
    ASSUME TypeInv, NEW r \in Requests, NEW state \in Request,
           WellFormed(state), state.incident \in Incidents, Start(r, state)
    PROVE  TypeInv'
  <1> DEFINE sight == [statuses |-> {status[state.incident]},
                       steps |-> {step[state.incident]}]
  <1>1. sight \in Sight
    BY DEF TypeInv, TypeOK, Sight
  <1>2. /\ request' = [request EXCEPT ![r] = state]
        /\ seen' = [seen EXCEPT ![r] = sight]
        /\ UNCHANGED <<tables, registry>>
        /\ audit' = audit /\ committed' = committed /\ untold' = untold
    BY DEF Start, trail
  <1> HIDE DEF sight
  <1>3. seen' \in [Requests -> Sight]
    BY <1>1, <1>2 DEF TypeInv, TypeOK
  <1> QED
    BY <1>2, <1>3, MovedType DEF TypeInv, TypeOK

\* A change of the incident is one more status and one more vector of steps.
LEMMA ShownType ==
    ASSUME TypeInv, NEW i, NEW st \in Statuses,
           NEW v \in [Steps -> StepStatuses], Shown(i, st, v)
    PROVE  seen' \in [Requests -> Sight]
  <1>1. ASSUME NEW q \in Requests
        PROVE  /\ seen[q] \in Sight
               /\ [statuses |-> seen[q].statuses \cup {st},
                   steps |-> seen[q].steps \cup {v}] \in Sight
    BY DEF TypeInv, TypeOK, Sight
  <1> QED
    BY <1>1, IdleType DEF Shown

LEMMA LoadedType ==
    ASSUME TypeInv, NEW r \in Requests, request[r].pc # "idle"
    PROVE  Loaded(r) \in Snapshot
  <1>1. request[r] \in Request /\ request[r].incident \in Incidents
    BY DEF TypeInv, TypeOK, WellFormed
  <1>2. links[request[r].incident] \in [Steps -> SUBSET Evidence]
    BY <1>1 DEF TypeInv, TypeOK
  <1> QED
    BY <1>1, <1>2 DEF Loaded, Snapshot, Request

\* What a completion does after the check, or after linking an evidence.
LEMMA ContinueType ==
    ASSUME TypeInv, NEW r \in Requests, request[r].completing,
           NEW next \in Continue(r)
    PROVE  next \in Request /\ WellFormed(next)
  <1>1. request[r] \in Request /\ WellFormed(request[r])
    BY DEF TypeInv, TypeOK
  <1>2. CASE request[r].todo = {}
    <2>1. next = [request[r] EXCEPT !.pc = "row", !.phase = "done",
                             !.evidence = Null, !.snap = NoSnapshot]
      BY <1>2 DEF Continue
    <2> QED
      BY <1>1, <2>1, IdleType DEF Request, Pcs, Phases, WellFormed
  <1>3. CASE request[r].todo # {}
    <2>1. PICK e \in request[r].todo :
              next = [request[r] EXCEPT !.pc = "row", !.phase = "link",
                             !.evidence = e, !.todo = @ \ {e},
                             !.snap = NoSnapshot]
      BY <1>3 DEF Continue
    <2>2. e \in Evidence
      BY <1>1, <2>1 DEF Request
    <2> QED
      BY <1>1, <2>1, <2>2, IdleType DEF Request, Pcs, Phases, WellFormed
  <1> QED
    BY <1>2, <1>3

LEMMA AfterLinkType ==
    ASSUME TypeInv, NEW r \in Requests, NEW next \in AfterLink(r)
    PROVE  next \in Request /\ WellFormed(next)
  BY ContinueType, IdleType DEF AfterLink

\* A request whose snapshot is replaced, as the three preparations do.
LEMMA PreparedType ==
    ASSUME TypeInv, NEW r \in Requests, request[r].pc = "links",
           NEW snap \in Snapshot
    PROVE  LET state == [request[r] EXCEPT !.pc = "save", !.snap = snap]
           IN  state \in Request /\ WellFormed(state)
  <1>1. request[r] \in Request /\ WellFormed(request[r])
    BY DEF TypeInv, TypeOK
  <1> QED
    BY <1>1 DEF Request, Pcs, WellFormed

LEMMA EventType ==
    ASSUME TypeInv, NEW r \in Requests, request[r].pc # "idle"
    PROVE  EventOf(r) \in AuditEvent
  <1>1. request[r] \in Request /\ WellFormed(request[r])
    BY DEF TypeInv, TypeOK
  <1> QED
    BY <1>1 DEF Request, WellFormed, EventOf, AuditEvent

LEMMA TypeStep ==
    ASSUME TypeInv, [Next]_vars
    PROVE  TypeInv'
  <1> USE PlaybookAssumption
  <1>1. ASSUME NEW e \in Evidence, RegisterEvidence(e)
        PROVE  TypeInv'
    BY <1>1 DEF RegisterEvidence, TypeInv, TypeOK, tables, trail, WellFormed
  <1>2. ASSUME NEW r \in Requests, Receive(r)
        PROVE  TypeInv'
    <2>1. ASSUME NEW i \in Incidents, NEW o \in Orgs, OpenIncident(r, i, o)
          PROVE  TypeInv'
      <3> DEFINE state == [Idle EXCEPT !.pc = "save", !.phase = "open",
                                       !.incident = i, !.org = o]
      <3>1. /\ state \in Request /\ WellFormed(state)
            /\ state.incident \in Incidents
        BY IdleType DEF Idle, Request, WellFormed, Pcs, Phases
      <3> QED
        BY <2>1, <3>1, StartType DEF OpenIncident
    <2>2. ASSUME NEW i \in Incidents, NEW s \in Steps, NEW e \in Evidence,
                 LinkEvidence(r, i, s, e)
          PROVE  TypeInv'
      <3> DEFINE state == [Idle EXCEPT !.pc = "row", !.phase = "link",
                               !.incident = i, !.step = s, !.evidence = e]
      <3>1. /\ state \in Request /\ WellFormed(state)
            /\ state.incident \in Incidents
        BY IdleType DEF Idle, Request, WellFormed, Pcs, Phases
      <3> QED
        BY <2>2, <3>1, StartType DEF LinkEvidence
    <2>3. ASSUME NEW i \in Incidents, NEW s \in Steps,
                 NEW ids \in SUBSET Evidence, CompleteStep(r, i, s, ids)
          PROVE  TypeInv'
      <3> DEFINE state == [Idle EXCEPT !.pc = "row", !.phase = "check",
                               !.incident = i, !.step = s,
                               !.completing = TRUE, !.todo = ids]
      <3>1. /\ state \in Request /\ WellFormed(state)
            /\ state.incident \in Incidents
        BY IdleType DEF Idle, Request, WellFormed, Pcs, Phases
      <3> QED
        BY <2>3, <3>1, StartType DEF CompleteStep
    <2>4. ASSUME NEW i \in Incidents, CloseIncident(r, i)
          PROVE  TypeInv'
      <3> DEFINE state == [Idle EXCEPT !.pc = "row", !.phase = "close",
                                       !.incident = i]
      <3>1. /\ state \in Request /\ WellFormed(state)
            /\ state.incident \in Incidents
        BY IdleType DEF Idle, Request, WellFormed, Pcs, Phases
      <3> QED
        BY <2>4, <3>1, StartType DEF CloseIncident
    <2> QED
      BY <1>2, <2>1, <2>2, <2>3, <2>4 DEF Receive
  <1>3. ASSUME NEW r \in Requests, CreateIncident(r)
        PROVE  TypeInv'
    <2>1. request[r] \in Request /\ WellFormed(request[r])
          /\ request[r].pc = "save" /\ request[r].phase = "open"
      BY <1>3 DEF CreateIncident, At, TypeInv, TypeOK
    <2>2. request[r].incident \in Incidents /\ request[r].org \in Orgs
      BY <2>1 DEF WellFormed
    <2> DEFINE state == [request[r] EXCEPT !.pc = "audit"]
    <2>3. state \in Request /\ WellFormed(state)
      BY <2>1 DEF Request, Pcs, WellFormed
    <2>4. request' = [request EXCEPT ![r] = state]
      BY <1>3 DEF CreateIncident
    <2>5. request' \in [Requests -> Request]
          /\ \A q \in Requests : WellFormed(request'[q])
      BY <2>3, <2>4 DEF TypeInv, TypeOK
    <2>6. /\ status' \in [Incidents -> Statuses]
          /\ org' \in [Incidents -> Orgs \cup {Null}]
          /\ UNCHANGED <<step, links, registry, audit, untold>>
      BY <1>3, <2>2 DEF CreateIncident, TypeInv, TypeOK, Statuses
    <2>7. committed' \subseteq AuditEvent
      BY <1>3, <2>1, EventType DEF CreateIncident, TypeInv, TypeOK
    <2>8. seen' \in [Requests -> Sight]
      BY <1>3, <2>2, ShownType
         DEF CreateIncident, TypeInv, TypeOK, Statuses
    <2> QED
      BY <2>5, <2>6, <2>7, <2>8 DEF TypeInv, TypeOK, WellFormed
  <1>4. ASSUME NEW r \in Requests, IncidentExists(r) \/ LinkRefused(r)
        PROVE  TypeInv'
    BY <1>4, IdleType, BecomesType DEF IncidentExists, LinkRefused
  <1>16. ASSUME NEW r \in Requests, QueryFails(r)
         PROVE  TypeInv'
    <2>1. untold' \subseteq AuditEvent
      BY <1>16, EventType DEF QueryFails, Owed, TypeInv, TypeOK
    <2>2. /\ Turns(r, Idle) /\ UNCHANGED <<tables, registry>>
          /\ audit' = audit /\ committed' = committed
      BY <1>16 DEF QueryFails
    <2> QED
      BY <2>1, <2>2, IdleType, TurnsType, MovedType DEF TypeInv, TypeOK
  <1>5. ASSUME NEW r \in Requests, ReadRow(r)
        PROVE  TypeInv'
    <2> DEFINE row == status[request[r].incident]
               snap == [request[r].snap EXCEPT !.status = row]
               state == [request[r] EXCEPT !.pc = "steps", !.snap = snap]
    <2>1. request[r] \in Request /\ WellFormed(request[r])
          /\ request[r].pc = "row"
      BY <1>5 DEF ReadRow, TypeInv, TypeOK
    <2>2. row \in Statuses
      BY <2>1 DEF WellFormed, TypeInv, TypeOK
    <2>3. snap \in Snapshot
      BY <2>1, <2>2 DEF Request, Snapshot
    <2>4. state \in Request /\ WellFormed(state)
      BY <2>1, <2>3 DEF Request, Pcs, WellFormed
    <2>5. Becomes(r, IF row = "absent" THEN Idle ELSE state)
      BY <1>5 DEF ReadRow
    <2> QED
      BY <2>4, <2>5, IdleType, BecomesType
  <1>15. ASSUME NEW r \in Requests, ReadSteps(r)
         PROVE  TypeInv'
    <2> DEFINE snap == [request[r].snap EXCEPT
                            !.step = step[request[r].incident]]
               state == [request[r] EXCEPT !.pc = "links", !.snap = snap]
    <2>1. request[r] \in Request /\ WellFormed(request[r])
          /\ request[r].pc = "steps"
      BY <1>15 DEF ReadSteps, TypeInv, TypeOK
    <2>2. snap \in Snapshot
      BY <2>1 DEF WellFormed, TypeInv, TypeOK, Request, Snapshot
    <2>3. state \in Request /\ WellFormed(state)
      BY <2>1, <2>2 DEF Request, Pcs, WellFormed
    <2>4. Becomes(r, state)
      BY <1>15 DEF ReadSteps
    <2> QED
      BY <2>3, <2>4, BecomesType
  <1>6. ASSUME NEW r \in Requests, AlreadyLinked(r)
        PROVE  TypeInv'
    BY <1>6, AfterLinkType, BecomesType DEF AlreadyLinked
  <1>7. ASSUME NEW r \in Requests, LinkPrepared(r)
        PROVE  TypeInv'
    <2> DEFINE snap == [Loaded(r) EXCEPT !.links[request[r].step] =
                                             @ \cup {request[r].evidence}]
    <2>1. request[r].pc = "links" /\ request[r].evidence \in Evidence
      BY <1>7 DEF LinkPrepared, At, TypeInv, WellFormed
    <2>2. snap \in Snapshot
      BY <2>1, LoadedType DEF Snapshot
    <2>3. Becomes(r, [request[r] EXCEPT !.pc = "save", !.snap = snap])
      BY <1>7 DEF LinkPrepared
    <2> HIDE DEF snap
    <2> QED
      BY <2>1, <2>2, <2>3, PreparedType, BecomesType
  <1>8. ASSUME NEW r \in Requests, CompletionChecked(r)
        PROVE  TypeInv'
    <2>1. request[r].completing
      BY <1>8 DEF CompletionChecked, At, TypeInv, WellFormed
    <2> QED
      BY <1>8, <2>1, ContinueType, IdleType, BecomesType DEF CompletionChecked
  <1>9. ASSUME NEW r \in Requests, CompletionPrepared(r)
        PROVE  TypeInv'
    <2> DEFINE snap == [Loaded(r) EXCEPT !.step[request[r].step] = "done"]
    <2>1. request[r].pc = "links"
      BY <1>9 DEF CompletionPrepared, At
    <2>2. snap \in Snapshot
      BY <2>1, LoadedType DEF Snapshot, StepStatuses
    <2>3. Becomes(r, Idle)
          \/ Becomes(r, [request[r] EXCEPT !.pc = "save", !.snap = snap])
      BY <1>9 DEF CompletionPrepared
    <2> HIDE DEF snap
    <2> QED
      BY <2>1, <2>2, <2>3, PreparedType, IdleType, BecomesType
  <1>10. ASSUME NEW r \in Requests, ClosePrepared(r)
         PROVE  TypeInv'
    <2> DEFINE snap == [Loaded(r) EXCEPT !.status = "closed"]
    <2>1. request[r].pc = "links"
      BY <1>10 DEF ClosePrepared, At
    <2>2. snap \in Snapshot
      BY <2>1, LoadedType DEF Snapshot, Statuses
    <2>3. Becomes(r, Idle)
          \/ Becomes(r, [request[r] EXCEPT !.pc = "save", !.snap = snap])
      BY <1>10 DEF ClosePrepared
    <2> HIDE DEF snap
    <2> QED
      BY <2>1, <2>2, <2>3, PreparedType, IdleType, BecomesType
  <1>11. ASSUME NEW r \in Requests, SaveIncident(r)
         PROVE  TypeInv'
    <2> DEFINE i == request[r].incident
               snap == request[r].snap
               state == [request[r] EXCEPT !.pc = "audit", !.snap = NoSnapshot]
    <2>1. request[r] \in Request /\ WellFormed(request[r])
          /\ request[r].pc = "save" /\ request[r].phase # "open"
      BY <1>11 DEF SaveIncident, TypeInv, TypeOK
    <2>2. i \in Incidents /\ snap \in Snapshot
      BY <2>1 DEF WellFormed, Request
    <2>3. state \in Request /\ WellFormed(state)
      BY <2>1, IdleType DEF Request, Pcs, WellFormed
    <2>4. request' = [request EXCEPT ![r] = state]
      BY <1>11 DEF SaveIncident
    <2>5. request' \in [Requests -> Request]
          /\ \A q \in Requests : WellFormed(request'[q])
      BY <2>3, <2>4 DEF TypeInv, TypeOK
    <2>6. /\ status' \in [Incidents -> Statuses]
          /\ step' \in [Incidents -> [Steps -> StepStatuses]]
          /\ links' \in [Incidents -> [Steps -> SUBSET Evidence]]
          /\ UNCHANGED <<org, registry, audit, untold>>
      BY <1>11, <2>2 DEF SaveIncident, SavedLinks, TypeInv, TypeOK, Snapshot
    <2>7. committed' \subseteq AuditEvent
      BY <1>11, <2>1, EventType DEF SaveIncident, TypeInv, TypeOK
    <2>8. seen' \in [Requests -> Sight]
      BY <1>11, <2>2, ShownType DEF SaveIncident, Snapshot
    <2> QED
      BY <2>5, <2>6, <2>7, <2>8 DEF TypeInv, TypeOK, WellFormed
  <1>12. ASSUME NEW r \in Requests, AppendAudit(r)
         PROVE  TypeInv'
    <2>1. PICK next \in IF request[r].phase = "link" THEN AfterLink(r)
                        ELSE {Idle} : Turns(r, next)
      BY <1>12 DEF AppendAudit
    <2>2. next \in Request /\ WellFormed(next)
      BY <2>1, AfterLinkType, IdleType
    <2>3. audit' \subseteq AuditEvent
      BY <1>12, EventType DEF AppendAudit, TypeInv, TypeOK
    <2>4. /\ UNCHANGED <<tables, registry>>
          /\ committed' = committed /\ untold' = untold
      BY <1>12 DEF AppendAudit
    <2> QED
      BY <2>1, <2>2, <2>3, <2>4, TurnsType, MovedType DEF TypeInv, TypeOK
  <1>13. CASE Crash
    <2>1. request' \in [Requests -> Request]
          /\ \A q \in Requests : WellFormed(request'[q])
      BY <1>13, IdleType DEF Crash
    <2>2. untold' \subseteq AuditEvent
      BY <1>13, EventType DEF Crash, Owed, TypeInv, TypeOK
    <2>3. seen' \in [Requests -> Sight]
      BY <1>13, IdleType DEF Crash
    <2> QED
      BY <1>13, <2>1, <2>2, <2>3
         DEF Crash, tables, TypeInv, TypeOK, WellFormed
  <1>14. CASE UNCHANGED vars
    BY <1>14 DEF vars, tables, TypeInv, TypeOK, WellFormed
  <1> QED
    BY <1>1, <1>2, <1>3, <1>4, <1>5, <1>6, <1>7, <1>8, <1>9, <1>10, <1>11,
       <1>12, <1>13, <1>14, <1>15, <1>16 DEF Next, Serve

LEMMA TypeInvariant == Spec => []TypeInv
  <1>1. Init => TypeInv
    BY IdleType, PlaybookAssumption
       DEF Init, TypeInv, TypeOK, Statuses, StepStatuses
  <1>2. TypeInv /\ [Next]_vars => TypeInv'
    BY TypeStep
  <1> QED
    BY <1>1, <1>2, PTL DEF Spec

\* Every variable keeps its type.
THEOREM TypeCorrect == Spec => []TypeOK
  BY TypeInvariant, PTL DEF TypeInv

-----------------------------------------------------------------------------
(* The inductive invariant.  EvidenceBacked alone is not inductive: a save  *)
(* writes step statuses read earlier.  What makes it hold is that links     *)
(* only grow: a step that was done when it was loaded had a link then, and  *)
(* has it still.  LinksSameOrg needs that a row never changes organisation. *)

Loading(q) == q.pc \in {"steps", "links", "save"} /\ q.phase # "open"

\* What a request has loaded may be stale, but saving it is harmless.
Sound(q) ==
    /\ q.pc = "row" => q.snap = NoSnapshot
    /\ q.pc \in {"steps", "links"} => q.snap.links = NoSnapshot.links
    /\ Loading(q) =>
           /\ status[q.incident] # "absent" /\ q.snap.status # "absent"
           /\ \A s \in RequiresEvidence : q.snap.step[s] = "done"
                  => links[q.incident][s] \cup q.snap.links[s] # {}
           /\ \A s \in Steps : \A e \in q.snap.links[s] :
                  EvidenceOrg[e] = org[q.incident]

AbsentIsBare ==
    \A i \in Incidents, s \in Steps : status[i] = "absent" => links[i][s] = {}

SafeInv ==
    /\ EvidenceBacked
    /\ LinksSameOrg
    /\ AbsentIsBare
    /\ \A r \in Requests : Sound(request[r])

LEMMA IdleSound == Sound(Idle)
  BY DEF Idle, Sound, Loading

\* Every step that leaves the tables alone and moves one request.
LEMMA MovedSafe ==
    ASSUME TypeInv, SafeInv, NEW r \in Requests, NEW state, Sound(state),
           request' = [request EXCEPT ![r] = state], UNCHANGED tables
    PROVE  SafeInv'
  <1>1. UNCHANGED <<status, org, step, links>>
    BY DEF tables
  <1>2. (EvidenceBacked /\ LinksSameOrg /\ AbsentIsBare)'
    BY <1>1 DEF SafeInv, EvidenceBacked, LinksSameOrg, AbsentIsBare
  <1>3. \A q \in Requests : Sound(request'[q])
    BY DEF SafeInv, TypeInv, TypeOK
  <1>4. \A q \in Requests : Sound(request[q])'
    BY <1>1, <1>3 DEF Sound, Loading
  <1> QED
    BY <1>2, <1>4 DEF SafeInv

LEMMA BecomesSafe ==
    ASSUME TypeInv, SafeInv, NEW r \in Requests, NEW state, Sound(state),
           Becomes(r, state)
    PROVE  SafeInv'
  BY MovedSafe DEF Becomes, Turns

LEMMA AfterLinkSound ==
    ASSUME TypeInv, NEW r \in Requests
    PROVE  /\ \A next \in Continue(r) : Sound(next)
           /\ \A next \in AfterLink(r) : Sound(next)
  <1>1. request[r] \in Request
    BY DEF TypeInv, TypeOK
  <1>2. \A next \in Continue(r) : next.pc = "row" /\ next.snap = NoSnapshot
    BY <1>1 DEF Continue, Request
  <1>3. \A next \in Continue(r) : Sound(next)
    BY <1>2 DEF Sound, Loading
  <1> QED
    BY <1>3, IdleSound DEF AfterLink

\* The steps that keep links growing and rows in their organisation.
LEMMA Growing ==
    ASSUME TypeInv, SafeInv, NEW q \in Requests,
           \A i \in Incidents : status[i] # "absent"
               => status'[i] # "absent" /\ org'[i] = org[i],
           \A i \in Incidents, s \in Steps : links[i][s] \subseteq links'[i][s]
    PROVE  request'[q] = request[q] => Sound(request[q])'
  <1>1. CASE Loading(request[q])
    <2>1. request[q].incident \in Incidents /\ request[q].snap \in Snapshot
      BY <1>1 DEF Loading, TypeInv, TypeOK, WellFormed, Request
    <2> QED
      BY <1>1, <2>1, PlaybookAssumption DEF SafeInv, Sound, Loading
  <1>2. CASE ~Loading(request[q])
    BY <1>2 DEF SafeInv, Sound, Loading
  <1> QED
    BY <1>1, <1>2

\* Loading the links adds what the table holds to a sound snapshot.
LEMMA LoadedSound ==
    ASSUME TypeInv, SafeInv, NEW r \in Requests, request[r].pc = "links",
           request[r].phase # "open"
    PROVE  LET i == request[r].incident IN
           /\ i \in Incidents /\ Loaded(r) \in Snapshot
           /\ status[i] # "absent" /\ Loaded(r).status # "absent"
           /\ Loaded(r).links = links[i]
           /\ \A s \in RequiresEvidence : Loaded(r).step[s] = "done"
                  => links[i][s] # {}
           /\ \A s \in Steps : \A e \in links[i][s] : EvidenceOrg[e] = org[i]
  <1> DEFINE i == request[r].incident
  <1>1. request[r] \in Request /\ i \in Incidents /\ Loaded(r) \in Snapshot
    BY LoadedType DEF TypeInv, TypeOK, WellFormed
  <1>2. /\ Loaded(r).status = request[r].snap.status
        /\ Loaded(r).step = request[r].snap.step
        /\ Loaded(r).links = links[i]
    BY <1>1 DEF Loaded, Request, Snapshot
  <1>3. /\ status[i] # "absent" /\ request[r].snap.status # "absent"
        /\ \A s \in RequiresEvidence : request[r].snap.step[s] = "done"
               => links[i][s] \cup request[r].snap.links[s] # {}
        /\ request[r].snap.links = NoSnapshot.links
    BY DEF SafeInv, Sound, Loading
  <1>5. \A s \in RequiresEvidence : request[r].snap.step[s] = "done"
               => links[i][s] # {}
    BY <1>3, PlaybookAssumption DEF NoSnapshot
  <1>4. \A s \in Steps : \A e \in links[i][s] : EvidenceOrg[e] = org[i]
    BY <1>1 DEF SafeInv, LinksSameOrg, TypeInv, TypeOK
  <1> QED
    BY <1>1, <1>2, <1>3, <1>4, <1>5

\* Preparing a save keeps the snapshot sound.
LEMMA PreparedSafe ==
    ASSUME TypeInv, SafeInv, NEW r \in Requests, request[r].pc = "links",
           NEW snap \in Snapshot, snap.status # "absent",
           request[r].phase # "open" =>
               /\ \A s \in RequiresEvidence : snap.step[s] = "done"
                      => links[request[r].incident][s] \cup snap.links[s] # {}
               /\ \A s \in Steps : \A e \in snap.links[s] :
                      EvidenceOrg[e] = org[request[r].incident],
           Becomes(r, [request[r] EXCEPT !.pc = "save", !.snap = snap])
    PROVE  SafeInv'
  <1> DEFINE state == [request[r] EXCEPT !.pc = "save", !.snap = snap]
  <1>1. request[r] \in Request
    BY DEF TypeInv, TypeOK
  <1>2. /\ state.pc = "save" /\ state.phase = request[r].phase
        /\ state.incident = request[r].incident /\ state.snap = snap
    BY <1>1 DEF Request
  <1>3. request[r].phase # "open" => status[request[r].incident] # "absent"
    BY DEF SafeInv, Sound, Loading
  <1>4. Sound(state)
    BY <1>2, <1>3 DEF Sound, Loading
  <1> QED
    BY <1>4, BecomesSafe

LEMMA PreparationsSafe ==
    ASSUME TypeInv, SafeInv, NEW r \in Requests,
           LinkPrepared(r) \/ CompletionPrepared(r) \/ ClosePrepared(r)
    PROVE  SafeInv'
  <1> DEFINE i == request[r].incident
  <1>1. request[r] \in Request /\ request[r].pc = "links"
        /\ request[r].phase # "open"
    BY DEF LinkPrepared, CompletionPrepared, ClosePrepared, At, TypeInv, TypeOK
  <1>2. /\ i \in Incidents /\ Loaded(r) \in Snapshot
        /\ Loaded(r).status # "absent" /\ Loaded(r).links = links[i]
        /\ \A s \in RequiresEvidence : Loaded(r).step[s] = "done"
               => links[i][s] # {}
        /\ \A s \in Steps : \A e \in links[i][s] : EvidenceOrg[e] = org[i]
    BY <1>1, LoadedSound
  <1>3. Becomes(r, Idle) => SafeInv'
    BY IdleSound, BecomesSafe
  <1>4. CASE LinkPrepared(r)
    <2> DEFINE snap == [Loaded(r) EXCEPT !.links[request[r].step] =
                                             @ \cup {request[r].evidence}]
    <2>1. request[r].evidence \in Evidence /\ request[r].step \in Steps
          /\ EvidenceOrg[request[r].evidence] = org[i]
      BY <1>4 DEF LinkPrepared, At, Linkable, TypeInv, WellFormed
    <2>2. /\ snap \in Snapshot /\ snap.status # "absent"
          /\ snap.step = Loaded(r).step
          /\ \A s \in Steps : snap.links[s] =
                 IF s = request[r].step
                 THEN links[i][s] \cup {request[r].evidence} ELSE links[i][s]
      BY <1>2, <2>1 DEF Snapshot
    <2>3. Becomes(r, [request[r] EXCEPT !.pc = "save", !.snap = snap])
      BY <1>4 DEF LinkPrepared
    <2>4. /\ \A s \in RequiresEvidence : snap.step[s] = "done"
                 => links[i][s] \cup snap.links[s] # {}
          /\ \A s \in Steps : \A e \in snap.links[s] : EvidenceOrg[e] = org[i]
      BY <1>2, <2>1, <2>2
    <2> HIDE DEF snap
    <2> QED
      BY <1>1, <2>2, <2>3, <2>4, PreparedSafe
  <1>5. CASE CompletionPrepared(r)
    <2> DEFINE snap == [Loaded(r) EXCEPT !.step[request[r].step] = "done"]
    <2>1. request[r].step \in Steps
      BY <1>5 DEF CompletionPrepared, At, TypeInv, WellFormed
    <2>2. /\ snap \in Snapshot /\ snap.status # "absent"
          /\ snap.links = links[i]
          /\ \A s \in Steps \ {request[r].step} :
                 snap.step[s] = Loaded(r).step[s]
      BY <1>2, <2>1 DEF Snapshot, StepStatuses
    <2>3. CASE EvidenceMissing(r)
      BY <1>3, <1>5, <2>3 DEF CompletionPrepared
    <2>4. CASE ~EvidenceMissing(r)
      <3>1. Becomes(r, [request[r] EXCEPT !.pc = "save", !.snap = snap])
        BY <1>5, <2>4 DEF CompletionPrepared
      <3>2. request[r].step \in RequiresEvidence
                => links[i][request[r].step] # {}
        BY <1>2, <2>4 DEF EvidenceMissing
      <3>3. /\ \A s \in RequiresEvidence : snap.step[s] = "done"
                   => links[i][s] \cup snap.links[s] # {}
            /\ \A s \in Steps : \A e \in snap.links[s] :
                   EvidenceOrg[e] = org[i]
        BY <1>2, <2>2, <3>2, PlaybookAssumption
      <3> HIDE DEF snap
      <3> QED
        BY <1>1, <2>2, <3>1, <3>3, PreparedSafe
    <2> QED
      BY <2>3, <2>4
  <1>6. CASE ClosePrepared(r)
    <2> DEFINE snap == [Loaded(r) EXCEPT !.status = "closed"]
    <2>1. /\ snap \in Snapshot /\ snap.status # "absent"
          /\ snap.links = links[i] /\ snap.step = Loaded(r).step
      BY <1>2 DEF Snapshot, Statuses
    <2>2. Becomes(r, Idle)
          \/ Becomes(r, [request[r] EXCEPT !.pc = "save", !.snap = snap])
      BY <1>6 DEF ClosePrepared
    <2>3. /\ \A s \in RequiresEvidence : snap.step[s] = "done"
                 => links[i][s] \cup snap.links[s] # {}
          /\ \A s \in Steps : \A e \in snap.links[s] : EvidenceOrg[e] = org[i]
      BY <1>2, <2>1
    <2> HIDE DEF snap
    <2> QED
      BY <1>1, <1>3, <2>1, <2>2, <2>3, PreparedSafe
  <1> QED
    BY <1>4, <1>5, <1>6

\* One save: the tables change for one incident, the links of which grow.
LEMMA SaveSafe ==
    ASSUME TypeInv, SafeInv, NEW r \in Requests, SaveIncident(r)
    PROVE  SafeInv' /\ \A i \in Incidents, s \in Steps :
                           links[i][s] \subseteq links'[i][s]
  <1> DEFINE i == request[r].incident
             snap == request[r].snap
             state == [request[r] EXCEPT !.pc = "audit", !.snap = NoSnapshot]
  <1>1. /\ request[r] \in Request /\ request[r].pc = "save"
        /\ request[r].phase # "open" /\ i \in Incidents /\ snap \in Snapshot
    BY DEF SaveIncident, TypeInv, TypeOK, WellFormed, Request
  <1>2. /\ status[i] # "absent" /\ snap.status # "absent"
        /\ \A s \in RequiresEvidence : snap.step[s] = "done"
               => links[i][s] \cup snap.links[s] # {}
        /\ \A s \in Steps : \A e \in snap.links[s] : EvidenceOrg[e] = org[i]
    BY <1>1 DEF SafeInv, Sound, Loading
  <1>3. /\ status' = [status EXCEPT ![i] = snap.status]
        /\ step' = [step EXCEPT ![i] = snap.step]
        /\ links' = [links EXCEPT ![i] =
                         [s \in Steps |-> links[i][s] \cup snap.links[s]]]
        /\ org' = org
        /\ request' = [request EXCEPT ![r] = state]
    BY DEF SaveIncident, SavedLinks
  <1>4. \A j \in Incidents, s \in Steps :
            links'[j][s] = IF j = i THEN links[i][s] \cup snap.links[s]
                           ELSE links[j][s]
    BY <1>1, <1>3 DEF TypeInv, TypeOK
  <1>5. EvidenceBacked'
    <2> SUFFICES ASSUME NEW j \in Incidents, NEW s \in RequiresEvidence,
                        step'[j][s] = "done"
                 PROVE  links'[j][s] # {}
      BY DEF EvidenceBacked
    <2>1. s \in Steps
      BY PlaybookAssumption
    <2>2. step'[j] = IF j = i THEN snap.step ELSE step[j]
      BY <1>1, <1>3 DEF TypeInv, TypeOK
    <2>3. CASE j = i
      BY <1>2, <1>4, <2>1, <2>2, <2>3
    <2>4. CASE j # i
      <3>1. step'[j][s] = step[j][s] /\ links'[j][s] = links[j][s]
        BY <1>4, <2>1, <2>2, <2>4
      <3>2. step[j][s] = "done" => links[j][s] # {}
        BY DEF SafeInv, EvidenceBacked
      <3> QED
        BY <3>1, <3>2
    <2> QED
      BY <2>3, <2>4
  <1>6. LinksSameOrg'
    BY <1>1, <1>2, <1>3, <1>4 DEF SafeInv, LinksSameOrg, TypeInv, TypeOK
  <1>7. AbsentIsBare'
    BY <1>1, <1>2, <1>3, <1>4 DEF SafeInv, AbsentIsBare, TypeInv, TypeOK
  <1>8. ASSUME NEW q \in Requests
        PROVE  Sound(request[q])'
    <2>1. CASE q = r
      <3>1. request'[q] = state /\ state.pc = "audit"
        BY <1>1, <1>3, <2>1 DEF TypeInv, TypeOK, Request
      <3> QED
        BY <3>1 DEF Sound, Loading
    <2>2. CASE q # r
      <3>1. request'[q] = request[q]
        BY <1>3, <2>2 DEF TypeInv, TypeOK
      <3>2. \A j \in Incidents : status[j] # "absent"
                => status'[j] # "absent" /\ org'[j] = org[j]
        BY <1>1, <1>2, <1>3 DEF TypeInv, TypeOK
      <3> QED
        BY <1>4, <3>1, <3>2, Growing
    <2> QED
      BY <2>1, <2>2
  <1> QED
    BY <1>4, <1>5, <1>6, <1>7, <1>8 DEF SafeInv

LEMMA CreateSafe ==
    ASSUME TypeInv, SafeInv, NEW r \in Requests, CreateIncident(r)
    PROVE  SafeInv'
  <1> DEFINE i == request[r].incident
             state == [request[r] EXCEPT !.pc = "audit"]
  <1>1. request[r] \in Request /\ i \in Incidents
    BY DEF CreateIncident, At, TypeInv, TypeOK, WellFormed
  <1>2. /\ status[i] = "absent"
        /\ status' = [status EXCEPT ![i] = "open"]
        /\ org' = [org EXCEPT ![i] = request[r].org]
        /\ request' = [request EXCEPT ![r] = state]
        /\ UNCHANGED <<step, links>>
    BY DEF CreateIncident
  <1>3. \A s \in Steps : links[i][s] = {}
    BY <1>1, <1>2 DEF SafeInv, AbsentIsBare
  <1>4. EvidenceBacked'
    BY <1>2 DEF SafeInv, EvidenceBacked
  <1>5. LinksSameOrg'
    BY <1>1, <1>2, <1>3 DEF SafeInv, LinksSameOrg, TypeInv, TypeOK
  <1>6. AbsentIsBare'
    BY <1>1, <1>2 DEF SafeInv, AbsentIsBare, TypeInv, TypeOK
  <1>7. ASSUME NEW q \in Requests
        PROVE  Sound(request[q])'
    <2>1. CASE q = r
      <3>1. request'[q] = state /\ state.pc = "audit"
        BY <1>1, <1>2, <2>1 DEF TypeInv, TypeOK, Request
      <3> QED
        BY <3>1 DEF Sound, Loading
    <2>2. CASE q # r
      <3>1. request'[q] = request[q]
        BY <1>2, <2>2 DEF TypeInv, TypeOK
      <3>2. \A j \in Incidents : status[j] # "absent"
                => status'[j] # "absent" /\ org'[j] = org[j]
        BY <1>1, <1>2 DEF TypeInv, TypeOK
      <3> QED
        BY <1>2, <3>1, <3>2, Growing
    <2> QED
      BY <2>1, <2>2
  <1> QED
    BY <1>4, <1>5, <1>6, <1>7 DEF SafeInv

LEMMA SafeStep ==
    ASSUME TypeInv, SafeInv, [Next]_vars
    PROVE  SafeInv'
  <1>1. ASSUME NEW e \in Evidence, RegisterEvidence(e)
        PROVE  SafeInv'
    BY <1>1 DEF RegisterEvidence, tables, SafeInv, EvidenceBacked,
                LinksSameOrg, AbsentIsBare, Sound, Loading
  <1>2. ASSUME NEW r \in Requests, Receive(r)
        PROVE  SafeInv'
    <2>1. ASSUME NEW i \in Incidents, NEW o \in Orgs, OpenIncident(r, i, o)
          PROVE  SafeInv'
      <3> DEFINE state == [Idle EXCEPT !.pc = "save", !.phase = "open",
                                       !.incident = i, !.org = o]
      <3>1. Sound(state)
        BY DEF Idle, Sound, Loading
      <3> QED
        BY <2>1, <3>1, MovedSafe DEF OpenIncident, Start
    <2>2. ASSUME NEW i \in Incidents, NEW s \in Steps, NEW e \in Evidence,
                 LinkEvidence(r, i, s, e)
          PROVE  SafeInv'
      <3> DEFINE state == [Idle EXCEPT !.pc = "row", !.phase = "link",
                               !.incident = i, !.step = s, !.evidence = e]
      <3>1. Sound(state)
        BY DEF Idle, Sound, Loading
      <3> QED
        BY <2>2, <3>1, MovedSafe DEF LinkEvidence, Start
    <2>3. ASSUME NEW i \in Incidents, NEW s \in Steps,
                 NEW ids \in SUBSET Evidence, CompleteStep(r, i, s, ids)
          PROVE  SafeInv'
      <3> DEFINE state == [Idle EXCEPT !.pc = "row", !.phase = "check",
                               !.incident = i, !.step = s,
                               !.completing = TRUE, !.todo = ids]
      <3>1. Sound(state)
        BY DEF Idle, Sound, Loading
      <3> QED
        BY <2>3, <3>1, MovedSafe DEF CompleteStep, Start
    <2>4. ASSUME NEW i \in Incidents, CloseIncident(r, i)
          PROVE  SafeInv'
      <3> DEFINE state == [Idle EXCEPT !.pc = "row", !.phase = "close",
                                       !.incident = i]
      <3>1. Sound(state)
        BY DEF Idle, Sound, Loading
      <3> QED
        BY <2>4, <3>1, MovedSafe DEF CloseIncident, Start
    <2> QED
      BY <1>2, <2>1, <2>2, <2>3, <2>4 DEF Receive
  <1>3. ASSUME NEW r \in Requests,
               IncidentExists(r) \/ LinkRefused(r) \/ QueryFails(r)
        PROVE  SafeInv'
    BY <1>3, IdleSound, BecomesSafe, MovedSafe
       DEF IncidentExists, LinkRefused, QueryFails, Turns
  <1>4. ASSUME NEW r \in Requests, ReadRow(r)
        PROVE  SafeInv'
    <2> DEFINE i == request[r].incident
               state == [request[r] EXCEPT !.pc = "steps",
                                           !.snap.status = status[i]]
    <2>1. request[r] \in Request /\ request[r].snap = NoSnapshot
      BY <1>4 DEF ReadRow, TypeInv, TypeOK, SafeInv, Sound
    <2>2. /\ state.pc = "steps" /\ state.incident = i
          /\ state.snap.status = status[i]
          /\ state.snap.step = NoSnapshot.step
          /\ state.snap.links = NoSnapshot.links
      BY <2>1 DEF Request, NoSnapshot
    <2>3. status[i] # "absent" => Sound(state)
      BY <2>2, PlaybookAssumption DEF Sound, Loading, NoSnapshot
    <2>4. Becomes(r, IF status[i] = "absent" THEN Idle ELSE state)
      BY <1>4 DEF ReadRow
    <2> QED
      BY <2>3, <2>4, IdleSound, BecomesSafe
  <1>5. ASSUME NEW r \in Requests, ReadSteps(r)
        PROVE  SafeInv'
    <2> DEFINE i == request[r].incident
               state == [request[r] EXCEPT !.pc = "links",
                                           !.snap.step = step[i]]
    <2>1. /\ request[r] \in Request /\ request[r].pc = "steps"
          /\ i \in Incidents
      BY <1>5 DEF ReadSteps, TypeInv, TypeOK, WellFormed
    <2>2. /\ state.pc = "links" /\ state.incident = i
          /\ state.phase = request[r].phase
          /\ state.snap.status = request[r].snap.status
          /\ state.snap.step = step[i]
          /\ state.snap.links = request[r].snap.links
      BY <2>1 DEF Request, Snapshot
    <2>3. \A s \in RequiresEvidence : step[i][s] = "done"
              => links[i][s] \cup state.snap.links[s] # {}
      BY <2>1 DEF SafeInv, EvidenceBacked
    <2>4. Sound(state)
      BY <2>1, <2>2, <2>3 DEF SafeInv, Sound, Loading
    <2> QED
      BY <1>5, <2>4, BecomesSafe DEF ReadSteps
  <1>6. ASSUME NEW r \in Requests, AlreadyLinked(r) \/ CompletionChecked(r)
        PROVE  SafeInv'
    BY <1>6, IdleSound, AfterLinkSound, BecomesSafe
       DEF AlreadyLinked, CompletionChecked
  <1>7. ASSUME NEW r \in Requests, AppendAudit(r)
        PROVE  SafeInv'
    <2>1. PICK next \in IF request[r].phase = "link" THEN AfterLink(r)
                        ELSE {Idle} :
              request' = [request EXCEPT ![r] = next]
      BY <1>7 DEF AppendAudit, Turns
    <2>2. Sound(next)
      BY <2>1, IdleSound, AfterLinkSound
    <2> QED
      BY <1>7, <2>1, <2>2, MovedSafe DEF AppendAudit
  <1>8. CASE Crash
    <2>1. \A q \in Requests : request'[q] = Idle
      BY <1>8 DEF Crash
    <2>2. (EvidenceBacked /\ LinksSameOrg /\ AbsentIsBare)'
      BY <1>8 DEF Crash, tables, SafeInv, EvidenceBacked, LinksSameOrg,
                  AbsentIsBare
    <2> QED
      BY <2>1, <2>2 DEF Idle, SafeInv, Sound, Loading
  <1>9. CASE UNCHANGED vars
    BY <1>9 DEF vars, tables, SafeInv, EvidenceBacked, LinksSameOrg,
                AbsentIsBare, Sound, Loading
  <1> QED
    BY <1>1, <1>2, <1>3, <1>4, <1>5, <1>6, <1>7, <1>8, <1>9, SaveSafe,
       CreateSafe, PreparationsSafe DEF Next, Serve

LEMMA SafeInvariant == Spec => [](TypeInv /\ SafeInv)
  <1>1. Init => TypeInv /\ SafeInv
    <2> SUFFICES ASSUME Init PROVE TypeInv /\ SafeInv
      OBVIOUS
    <2>1. TypeInv
      BY IdleType, PlaybookAssumption
         DEF Init, TypeInv, TypeOK, Statuses, StepStatuses
    <2>2. EvidenceBacked /\ LinksSameOrg /\ AbsentIsBare
      BY PlaybookAssumption DEF Init, EvidenceBacked, LinksSameOrg, AbsentIsBare
    <2> QED
      BY <2>1, <2>2, IdleSound DEF Init, SafeInv
  <1>2. TypeInv /\ SafeInv /\ [Next]_vars => (TypeInv /\ SafeInv)'
    BY TypeStep, SafeStep
  <1> QED
    BY <1>1, <1>2, PTL DEF Spec

\* RG-05, EVIDENCE_REQUIRED in completeStep: a step that requires evidence is
\* never done without one, for any number of overlapping requests.
THEOREM DoneStepsHaveEvidence == Spec => []EvidenceBacked
  BY SafeInvariant, PTL DEF SafeInv

\* "Preuve hors organisation": no link crosses organisations.
THEOREM LinksWithinOrg == Spec => []LinksSameOrg
  BY SafeInvariant, PTL DEF SafeInv

-----------------------------------------------------------------------------
(* The steps by what they write. *)

\* The steps of a request in progress that write neither the tables nor the
\* trail.
Plain(r) ==
    \/ IncidentExists(r) \/ ReadRow(r) \/ ReadSteps(r)
    \/ LinkRefused(r) \/ AlreadyLinked(r) \/ LinkPrepared(r)
    \/ CompletionChecked(r) \/ CompletionPrepared(r) \/ ClosePrepared(r)

LEMMA StepKinds ==
    ASSUME [Next]_vars
    PROVE  \/ \E r \in Requests : \/ Receive(r) \/ Plain(r)
                                  \/ CreateIncident(r) \/ SaveIncident(r)
                                  \/ AppendAudit(r) \/ QueryFails(r)
           \/ \E e \in Evidence : RegisterEvidence(e)
           \/ Crash
           \/ UNCHANGED vars
  BY DEF Next, Serve, Plain

\* What the four handlers start with: the operation and what it is called on.
Begins(state) ==
    /\ state.incident \in Incidents /\ state.pc \in {"row", "save"}
    /\ state.pc = "save" => state.phase = "open"
    /\ \/ /\ state.phase = "open" /\ ~state.completing
          /\ state.org \in Orgs /\ state.step = Null
       \/ /\ state.phase = "link" /\ ~state.completing
          /\ state.org = Null /\ state.step \in Steps
       \/ /\ state.phase = "check" /\ state.completing
          /\ state.org = Null /\ state.step \in Steps
       \/ /\ state.phase = "close" /\ ~state.completing
          /\ state.org = Null /\ state.step = Null

LEMMA ReceiveStarts ==
    ASSUME NEW r \in Requests, Receive(r)
    PROVE  \E state : Start(r, state) /\ Begins(state)
  <1>1. ASSUME NEW i \in Incidents, NEW o \in Orgs, OpenIncident(r, i, o)
        PROVE  \E state : Start(r, state) /\ Begins(state)
    <2> DEFINE state == [Idle EXCEPT !.pc = "save", !.phase = "open",
                                     !.incident = i, !.org = o]
    <2>1. Begins(state)
      BY DEF Idle, Begins
    <2> QED
      BY <1>1, <2>1 DEF OpenIncident
  <1>2. ASSUME NEW i \in Incidents, NEW s \in Steps, NEW e \in Evidence,
               LinkEvidence(r, i, s, e)
        PROVE  \E state : Start(r, state) /\ Begins(state)
    <2> DEFINE state == [Idle EXCEPT !.pc = "row", !.phase = "link",
                             !.incident = i, !.step = s, !.evidence = e]
    <2>1. Begins(state)
      BY DEF Idle, Begins
    <2> QED
      BY <1>2, <2>1 DEF LinkEvidence
  <1>3. ASSUME NEW i \in Incidents, NEW s \in Steps,
               NEW ids \in SUBSET Evidence, CompleteStep(r, i, s, ids)
        PROVE  \E state : Start(r, state) /\ Begins(state)
    <2> DEFINE state == [Idle EXCEPT !.pc = "row", !.phase = "check",
                             !.incident = i, !.step = s,
                             !.completing = TRUE, !.todo = ids]
    <2>1. Begins(state)
      BY DEF Idle, Begins
    <2> QED
      BY <1>3, <2>1 DEF CompleteStep
  <1>4. ASSUME NEW i \in Incidents, CloseIncident(r, i)
        PROVE  \E state : Start(r, state) /\ Begins(state)
    <2> DEFINE state == [Idle EXCEPT !.pc = "row", !.phase = "close",
                                     !.incident = i]
    <2>1. Begins(state)
      BY DEF Idle, Begins
    <2> QED
      BY <1>4, <2>1 DEF CloseIncident
  <1> QED
    BY <1>1, <1>2, <1>3, <1>4 DEF Receive

\* Two states of a request work for the same call of the client.
SameCall(q, p) ==
    /\ q.incident = p.incident /\ q.step = p.step /\ q.org = p.org
    /\ OperationOf(q) = OperationOf(p)

LEMMA ContinueFacts ==
    ASSUME TypeInv, NEW r \in Requests, request[r].completing,
           request[r].phase \in {"check", "link"}, NEW next \in Continue(r)
    PROVE  /\ next.pc = "row" /\ next.phase \in {"link", "done"}
           /\ next.completing /\ SameCall(next, request[r])
  <1>1. request[r] \in Request
    BY DEF TypeInv, TypeOK
  <1>2. /\ next.pc = "row" /\ next.phase \in {"link", "done"}
        /\ next.completing = request[r].completing
        /\ next.incident = request[r].incident
        /\ next.step = request[r].step /\ next.org = request[r].org
    BY <1>1 DEF Continue, Request
  <1> QED
    BY <1>2 DEF SameCall, OperationOf

\* A plain step ends the request, or leaves it pending for the same call.
LEMMA PlainMoves ==
    ASSUME TypeInv, NEW r \in Requests, Plain(r)
    PROVE  \E state :
               /\ Becomes(r, state)
               /\ Pending(request[r]) /\ request[r].pc # "audit"
               /\ \/ state = Idle
                  \/ /\ state.pc \in {"row", "steps", "links", "save"}
                     /\ SameCall(state, request[r])
  <1>1. request[r] \in Request /\ WellFormed(request[r])
    BY DEF TypeInv, TypeOK
  <1>2. CASE IncidentExists(r) \/ LinkRefused(r)
    BY <1>2 DEF IncidentExists, LinkRefused, At, Pending
  <1>3. CASE ReadRow(r)
    <2> DEFINE i == request[r].incident
               state == [request[r] EXCEPT !.pc = "steps",
                                           !.snap.status = status[i]]
    <2>1. state.pc = "steps" /\ SameCall(state, request[r])
      BY <1>1 DEF Request, SameCall, OperationOf
    <2>2. /\ Becomes(r, IF status[i] = "absent" THEN Idle ELSE state)
          /\ request[r].pc = "row"
      BY <1>3 DEF ReadRow
    <2> HIDE DEF state
    <2> QED
      BY <2>1, <2>2 DEF Pending
  <1>4. CASE ReadSteps(r)
    <2> DEFINE state == [request[r] EXCEPT !.pc = "links",
                             !.snap.step = step[request[r].incident]]
    <2>1. state.pc = "links" /\ SameCall(state, request[r])
      BY <1>1 DEF Request, SameCall, OperationOf
    <2>2. Becomes(r, state) /\ request[r].pc = "steps"
      BY <1>4 DEF ReadSteps
    <2> HIDE DEF state
    <2> QED
      BY <2>1, <2>2 DEF Pending
  <1>5. CASE AlreadyLinked(r) \/ CompletionChecked(r)
    <2>1. /\ request[r].pc = "links" /\ request[r].phase \in {"check", "link"}
          /\ request[r].phase = "check" => request[r].completing
      BY <1>1, <1>5 DEF AlreadyLinked, CompletionChecked, At, WellFormed
    <2>2. \/ Becomes(r, Idle)
          \/ request[r].completing /\ \E next \in Continue(r) : Becomes(r, next)
      BY <1>5, <2>1 DEF AlreadyLinked, CompletionChecked, AfterLink, At
    <2> QED
      BY <2>1, <2>2, ContinueFacts DEF Pending
  <1>6. CASE LinkPrepared(r) \/ CompletionPrepared(r) \/ ClosePrepared(r)
    <2> DEFINE Saving(snap) == [request[r] EXCEPT !.pc = "save",
                                                  !.snap = snap]
    <2>1. \A snap : Saving(snap).pc = "save"
                    /\ SameCall(Saving(snap), request[r])
      BY <1>1 DEF Request, SameCall, OperationOf
    <2>2. /\ request[r].pc = "links"
          /\ Becomes(r, Idle) \/ \E snap : Becomes(r, Saving(snap))
      BY <1>6 DEF LinkPrepared, CompletionPrepared, ClosePrepared, At
    <2> HIDE DEF Saving
    <2> QED
      BY <2>1, <2>2 DEF Pending
  <1> QED
    BY <1>2, <1>3, <1>4, <1>5, <1>6 DEF Plain

\* saveIncident only inserts links (ON CONFLICT DO NOTHING).
THEOREM LinksNeverTakenBack == Spec => LinksKept
  <1> DEFINE Grow == \A i \in Incidents, s \in Steps :
                         links[i][s] \subseteq links'[i][s]
  <1>1. ASSUME TypeInv, SafeInv, [Next]_vars
        PROVE  Grow
    <2>1. CASE UNCHANGED links
      BY <2>1
    <2>2. ASSUME NEW r \in Requests, SaveIncident(r)
          PROVE  Grow
      BY <1>1, <2>2, SaveSafe
    <2>3. ASSUME NEW r \in Requests, Receive(r) \/ Plain(r)
          PROVE  UNCHANGED links
      BY <1>1, <2>3, ReceiveStarts, PlainMoves DEF Start, Becomes, tables
    <2>4. ASSUME NEW r \in Requests,
                 CreateIncident(r) \/ AppendAudit(r) \/ QueryFails(r)
          PROVE  UNCHANGED links
      BY <2>4 DEF CreateIncident, AppendAudit, QueryFails, tables
    <2> QED
      BY <1>1, <2>1, <2>2, <2>3, <2>4, StepKinds
         DEF RegisterEvidence, Crash, vars, tables
  <1>2. TypeInv /\ SafeInv /\ [Next]_vars => [Grow]_vars
    BY <1>1
  <1> HIDE DEF Grow
  <1>3. Spec => [][Grow]_vars
    BY <1>2, SafeInvariant, PTL DEF Spec
  <1> QED
    BY <1>3 DEF LinksKept, Grow

-----------------------------------------------------------------------------
(* The audit trail (RG-15): each committed change is followed, in another   *)
(* query, by its event.                                                     *)

\* The events that are owed, one by one.
LEMMA OwedEvents ==
    ASSUME NEW rs \in SUBSET Requests, NEW event
    PROVE  event \in Owed(rs)
               <=> \E q \in rs : request[q].pc = "audit" /\ event = EventOf(q)
  BY DEF Owed

LEMMA OwedAfter ==
    ASSUME NEW event
    PROVE  event \in Owed(Requests)'
               <=> \E q \in Requests :
                       request'[q].pc = "audit" /\ event = EventOf(q)'
  BY DEF Owed

\* One request moves to a state in which it owes nothing.
LEMMA OwedByOthers ==
    ASSUME TypeInv, NEW r \in Requests, NEW state, state.pc # "audit",
           request' = [request EXCEPT ![r] = state]
    PROVE  /\ Owed(Requests)' \cup Owed({r}) = Owed(Requests)
           /\ request[r].pc # "audit" => Owed({r}) = {}
  <1>1. \A q \in Requests :
            request'[q] = IF q = r THEN state ELSE request[q]
    BY DEF TypeInv, TypeOK
  <1>2. \A q \in Requests \ {r} : EventOf(q)' = EventOf(q)
    BY <1>1 DEF EventOf
  <1>3. request'[r].pc # "audit"
    BY <1>1
  <1>4. ASSUME NEW event
        PROVE  /\ event \in Owed(Requests)'
                   <=> \E q \in Requests \ {r} :
                           request[q].pc = "audit" /\ event = EventOf(q)
               /\ event \in Owed(Requests)
                   <=> \E q \in Requests :
                           request[q].pc = "audit" /\ event = EventOf(q)
               /\ event \in Owed({r})
                   <=> request[r].pc = "audit" /\ event = EventOf(r)
    BY <1>1, <1>2, <1>3, OwedEvents, OwedAfter
  <1>5. Owed(Requests)' \cup Owed({r}) = Owed(Requests)
    BY <1>4
  <1>6. request[r].pc # "audit" => Owed({r}) = {}
    BY <1>4
  <1> QED
    BY <1>5, <1>6

LEMMA CommitAccounted ==
    ASSUME TypeInv, CommitsAccounted, NEW r \in Requests,
           CreateIncident(r) \/ SaveIncident(r)
    PROVE  CommitsAccounted'
  <1>1. request[r] \in Request /\ request[r].pc = "save"
    BY DEF CreateIncident, At, SaveIncident, TypeInv, TypeOK
  <1>2. PICK state :
            /\ request' = [request EXCEPT ![r] = state]
            /\ state.pc = "audit"
            /\ state.phase = request[r].phase
            /\ state.incident = request[r].incident
            /\ state.step = request[r].step
            /\ state.evidence = request[r].evidence
    <2> DEFINE created == [request[r] EXCEPT !.pc = "audit"]
               saved == [request[r] EXCEPT !.pc = "audit",
                                           !.snap = NoSnapshot]
               SameEvent(q) == /\ q.pc = "audit"
                               /\ q.phase = request[r].phase
                               /\ q.incident = request[r].incident
                               /\ q.step = request[r].step
                               /\ q.evidence = request[r].evidence
    <2>1. SameEvent(created) /\ SameEvent(saved)
      BY <1>1 DEF Request
    <2>2. \/ request' = [request EXCEPT ![r] = created]
          \/ request' = [request EXCEPT ![r] = saved]
      BY DEF CreateIncident, SaveIncident
    <2> HIDE DEF created, saved
    <2> QED
      BY <2>1, <2>2
  <1>3. \A q \in Requests :
            request'[q] = IF q = r THEN state ELSE request[q]
    BY <1>2 DEF TypeInv, TypeOK
  <1>4. \A q \in Requests : EventOf(q)' = EventOf(q)
    BY <1>2, <1>3 DEF EventOf
  <1>5. /\ committed' = committed \cup {EventOf(r)}
        /\ audit' = audit /\ untold' = untold
    BY DEF CreateIncident, SaveIncident
  <1>6. ASSUME NEW event
        PROVE  /\ event \in Owed(Requests)'
                   <=> \/ event = EventOf(r)
                       \/ \E q \in Requests :
                              request[q].pc = "audit" /\ event = EventOf(q)
               /\ event \in Owed(Requests)
                   <=> \E q \in Requests :
                           request[q].pc = "audit" /\ event = EventOf(q)
    BY <1>1, <1>2, <1>3, <1>4, OwedEvents, OwedAfter
  <1>7. Owed(Requests)' = Owed(Requests) \cup {EventOf(r)}
    BY <1>6
  <1> QED
    BY <1>5, <1>7 DEF CommitsAccounted

LEMMA AppendAccounted ==
    ASSUME TypeInv, CommitsAccounted, NEW r \in Requests, AppendAudit(r)
    PROVE  CommitsAccounted'
  <1>1. PICK next \in IF request[r].phase = "link" THEN AfterLink(r)
                      ELSE {Idle} :
            request' = [request EXCEPT ![r] = next]
    BY DEF AppendAudit, Turns
  <1>2. next.pc # "audit"
    BY <1>1, ContinueFacts DEF AfterLink, Idle
  <1>3. /\ request[r].pc = "audit" /\ audit' = audit \cup {EventOf(r)}
        /\ committed' = committed /\ untold' = untold
    BY DEF AppendAudit
  <1>4. Owed({r}) = {EventOf(r)}
    BY <1>3 DEF Owed
  <1> QED
    BY <1>1, <1>2, <1>3, <1>4, OwedByOthers DEF CommitsAccounted

LEMMA AccountedStep ==
    ASSUME TypeInv, CommitsAccounted, [Next]_vars
    PROVE  CommitsAccounted'
  <1>0. Idle.pc # "audit"
    BY DEF Idle
  <1>1. ASSUME NEW r \in Requests, Receive(r) \/ Plain(r)
        PROVE  CommitsAccounted'
    <2>1. PICK state :
              /\ request' = [request EXCEPT ![r] = state]
              /\ state.pc # "audit" /\ request[r].pc # "audit"
              /\ committed' = committed
              /\ audit' = audit /\ untold' = untold
      BY <1>0, <1>1, ReceiveStarts, PlainMoves
         DEF Start, Begins, Becomes, Turns, trail
    <2> QED
      BY <2>1, OwedByOthers DEF CommitsAccounted
  <1>2. ASSUME NEW r \in Requests, QueryFails(r)
        PROVE  CommitsAccounted'
    BY <1>0, <1>2, OwedByOthers DEF QueryFails, Turns, CommitsAccounted
  <1>3. CASE Crash
    <2>1. \A q \in Requests : request'[q].pc # "audit"
      BY <1>0, <1>3 DEF Crash
    <2>2. Owed(Requests)' = {}
      BY <2>1, OwedAfter
    <2> QED
      BY <1>3, <2>2 DEF Crash, CommitsAccounted
  <1>4. CASE (\E e \in Evidence : RegisterEvidence(e)) \/ UNCHANGED vars
    <2>1. UNCHANGED <<request, committed, audit, untold>>
      BY <1>4 DEF RegisterEvidence, vars, trail
    <2> QED
      BY <2>1 DEF CommitsAccounted, Owed, EventOf
  <1> QED
    BY <1>1, <1>2, <1>3, <1>4, CommitAccounted, AppendAccounted, StepKinds

\* RG-15, for any number of overlapping requests, failed queries and crashes:
\* the event of a change is appended in a query of its own after the commit
\* (incidents.service.ts), and the changes that the trail does not tell are
\* those of the requests that are between the two or were cut off there.
THEOREM CommitsAudited == Spec => []CommitsAccounted
  <1>1. Init => CommitsAccounted
    BY DEF Init, CommitsAccounted, Owed, Idle
  <1>2. TypeInv /\ CommitsAccounted /\ [Next]_vars => CommitsAccounted'
    BY AccountedStep
  <1> QED
    BY <1>1, <1>2, TypeInvariant, PTL DEF Spec

-----------------------------------------------------------------------------
(* What a request works with is what its incident has been since the        *)
(* request was received, not always what it is.                             *)

\* Of a request and of what it has seen; it stays true when more is seen.
Viewed(q, sight) ==
    /\ q.pc \in {"steps", "links"}
           => q.snap.status \in sight.statuses \ {"absent"}
    /\ q.pc = "links" => q.snap.step \in sight.steps
    /\ q.pc = "save" /\ q.phase = "link"
           => /\ "open" \in sight.statuses /\ q.snap.status = "open"
              /\ q.snap.step \in sight.steps
    /\ q.pc = "save" /\ q.phase = "done"
           => /\ q.snap.status \in sight.statuses \ {"absent"}
              /\ \E v \in sight.steps :
                     q.snap.step = [v EXCEPT ![q.step] = "done"]
    /\ q.pc = "save" /\ q.phase = "close"
           => /\ "open" \in sight.statuses /\ q.snap.status = "closed"
              /\ q.snap.step \in sight.steps
    /\ q.pc = "save" => q.phase \in {"open", "link", "done", "close"}
    /\ q.completing /\ Pending(q) /\ q.phase \in {"link", "done"}
           => /\ "open" \in sight.statuses
              /\ \E v \in sight.steps : v[q.step] # "done"

\* What it has seen includes what the incident is.
UpToDate(q, sight) ==
    Pending(q) => /\ status[q.incident] \in sight.statuses
                  /\ step[q.incident] \in sight.steps

\* The links that a save inserts are there already, but the one to be made.
LinksReady(q) ==
    q.pc = "save" /\ q.phase # "open" =>
        /\ status[q.incident] # "absent"
        /\ q.phase = "link" => EvidenceOrg[q.evidence] = org[q.incident]
        /\ q.phase = "done" /\ q.step \in RequiresEvidence
               => links[q.incident][q.step] # {}
        /\ \A s \in Steps : \A e \in q.snap.links[s] :
               \/ e \in links[q.incident][s]
               \/ q.phase = "link" /\ s = q.step /\ e = q.evidence
        /\ q.phase = "link" => q.evidence \in q.snap.links[q.step]

SeenInv ==
    \A r \in Requests :
        /\ Viewed(request[r], seen[r])
        /\ UpToDate(request[r], seen[r])
        /\ LinksReady(request[r])

LEMMA IdleSeen ==
    /\ ~Pending(Idle) /\ LinksReady(Idle)
    /\ \A sight : Viewed(Idle, sight) /\ UpToDate(Idle, sight)
  BY DEF Idle, Pending, Viewed, UpToDate, LinksReady

LEMMA ViewedMore ==
    ASSUME NEW q, NEW a, NEW b, Viewed(q, a),
           a.statuses \subseteq b.statuses, a.steps \subseteq b.steps
    PROVE  Viewed(q, b)
  BY DEF Viewed

\* Every step that leaves the tables alone and moves one request.
LEMMA MovedSeen ==
    ASSUME TypeInv, SeenInv, NEW r \in Requests, NEW state, NEW sight,
           request' = [request EXCEPT ![r] = state],
           seen' = [seen EXCEPT ![r] = sight],
           UNCHANGED tables,
           Viewed(state, sight), UpToDate(state, sight), LinksReady(state)
    PROVE  SeenInv'
  <1>1. UNCHANGED <<status, org, step, links>>
    BY DEF tables
  <1>2. ASSUME NEW q \in Requests
        PROVE  /\ Viewed(request'[q], seen'[q])
               /\ UpToDate(request'[q], seen'[q])
               /\ LinksReady(request'[q])
    <2>1. CASE q = r
      BY <2>1 DEF TypeInv, TypeOK
    <2>2. CASE q # r
      BY <2>2 DEF SeenInv, TypeInv, TypeOK
    <2> QED
      BY <2>1, <2>2
  <1>3. ASSUME NEW q \in Requests
        PROVE  /\ UpToDate(request[q], seen[q])'
               /\ LinksReady(request[q])'
               /\ Viewed(request[q], seen[q])'
    <2>1. UpToDate(request[q], seen[q])'
      BY <1>1, <1>2 DEF UpToDate, Pending
    <2>2. LinksReady(request[q])'
      BY <1>1, <1>2 DEF LinksReady
    <2>3. Viewed(request[q], seen[q])'
      BY <1>2 DEF Viewed, Pending
    <2> QED
      BY <2>1, <2>2, <2>3
  <1> QED
    BY <1>3 DEF SeenInv

LEMMA TurnsSeen ==
    ASSUME TypeInv, SeenInv, NEW r \in Requests, NEW state,
           Turns(r, state), UNCHANGED tables,
           Pending(state) => /\ Viewed(state, seen[r])
                             /\ UpToDate(state, seen[r]),
           state = Idle \/ Pending(state), LinksReady(state)
    PROVE  SeenInv'
  <1> DEFINE sight == IF Pending(state) THEN seen[r] ELSE Unseen
  <1>1. /\ request' = [request EXCEPT ![r] = state]
        /\ seen' = [seen EXCEPT ![r] = sight]
    BY DEF Turns
  <1>2. Viewed(state, sight) /\ UpToDate(state, sight)
    BY IdleSeen
  <1> HIDE DEF sight
  <1> QED
    BY <1>1, <1>2, MovedSeen

LEMMA EndsSeen ==
    ASSUME TypeInv, SeenInv, NEW r \in Requests, Turns(r, Idle),
           UNCHANGED tables
    PROVE  SeenInv'
  BY IdleSeen, TurnsSeen

LEMMA StartsSeen ==
    ASSUME TypeInv, SeenInv, NEW r \in Requests, Receive(r)
    PROVE  SeenInv'
  <1>1. PICK state : Start(r, state) /\ Begins(state)
    BY ReceiveStarts
  <1> DEFINE sight == [statuses |-> {status[state.incident]},
                       steps |-> {step[state.incident]}]
  <1>2. Viewed(state, sight)
    BY <1>1 DEF Begins, Viewed
  <1>3. UpToDate(state, sight) /\ LinksReady(state)
    BY <1>1 DEF Begins, UpToDate, LinksReady
  <1>4. /\ request' = [request EXCEPT ![r] = state]
        /\ seen' = [seen EXCEPT ![r] = sight] /\ UNCHANGED tables
    BY <1>1 DEF Start
  <1> HIDE DEF sight
  <1> QED
    BY <1>2, <1>3, <1>4, MovedSeen

\* A completion goes on when it saw the incident open and the step pending.
LEMMA ContinueSeen ==
    ASSUME TypeInv, SeenInv, NEW r \in Requests, request[r].completing,
           request[r].phase \in {"check", "link"}, Pending(request[r]),
           NEW next \in Continue(r),
           "open" \in seen[r].statuses,
           \E v \in seen[r].steps : v[request[r].step] # "done"
    PROVE  /\ Pending(next) /\ LinksReady(next)
           /\ Viewed(next, seen[r]) /\ UpToDate(next, seen[r])
  <1>1. /\ next.pc = "row" /\ next.step = request[r].step
        /\ next.incident = request[r].incident
    BY ContinueFacts DEF SameCall
  <1> QED
    BY <1>1 DEF SeenInv, Pending, LinksReady, Viewed, UpToDate

LEMMA AfterLinkSeen ==
    ASSUME TypeInv, SeenInv, NEW r \in Requests, request[r].phase = "link",
           request[r].pc \in {"links", "audit"},
           NEW next \in AfterLink(r), Turns(r, next), UNCHANGED tables
    PROVE  SeenInv'
  <1>1. CASE next = Idle
    BY <1>1, EndsSeen
  <1>2. CASE next # Idle
    <2>1. request[r].completing /\ next \in Continue(r)
      BY <1>2 DEF AfterLink
    <2>2. Pending(request[r])
      BY <2>1 DEF Pending
    <2>3. /\ "open" \in seen[r].statuses
          /\ \E v \in seen[r].steps : v[request[r].step] # "done"
      BY <2>1, <2>2 DEF SeenInv, Viewed
    <2> QED
      BY <2>1, <2>2, <2>3, ContinueSeen, TurnsSeen
  <1> QED
    BY <1>1, <1>2

\* What a request works with once it has loaded the incident.
LEMMA LoadedSeen ==
    ASSUME TypeInv, SafeInv, SeenInv, NEW r \in Requests,
           request[r].pc = "links"
    PROVE  LET i == request[r].incident IN
           /\ request[r] \in Request /\ Loaded(r) \in Snapshot
           /\ i \in Incidents /\ status[i] # "absent"
           /\ Loaded(r).status \in seen[r].statuses \ {"absent"}
           /\ Loaded(r).step \in seen[r].steps
           /\ Loaded(r).links = links[i]
  <1>1. /\ request[r] \in Request /\ request[r].phase # "open"
        /\ request[r].snap \in Snapshot
    BY DEF TypeInv, TypeOK, WellFormed, Request
  <1>2. /\ Loaded(r).status = request[r].snap.status
        /\ Loaded(r).step = request[r].snap.step
    BY <1>1 DEF Loaded, Snapshot
  <1>3. /\ request[r].snap.status \in seen[r].statuses \ {"absent"}
        /\ request[r].snap.step \in seen[r].steps
    BY DEF SeenInv, Viewed
  <1> QED
    BY <1>1, <1>2, <1>3, LoadedSound

\* A request about to save: it keeps its call, and what it has seen.
LEMMA PreparedSeen ==
    ASSUME TypeInv, SeenInv, NEW r \in Requests, request[r].pc = "links",
           NEW snap, NEW state,
           state = [request[r] EXCEPT !.pc = "save", !.snap = snap],
           Becomes(r, state),
           Viewed(state, seen[r]), LinksReady(state)
    PROVE  SeenInv'
  <1>1. /\ state.pc = "save" /\ state.incident = request[r].incident
    BY DEF TypeInv, TypeOK, Request
  <1>2. UpToDate(state, seen[r]) /\ Pending(state)
    BY <1>1 DEF SeenInv, UpToDate, Pending
  <1> QED
    BY <1>2, TurnsSeen DEF Becomes

\* The fields of a request about to save, for any snapshot.
LEMMA SavingFields ==
    ASSUME TypeInv, NEW r \in Requests, request[r].pc = "links", NEW snap
    PROVE  LET state == [request[r] EXCEPT !.pc = "save", !.snap = snap] IN
           /\ state.pc = "save" /\ state.snap = snap
           /\ state.phase = request[r].phase
           /\ state.incident = request[r].incident
           /\ state.step = request[r].step
           /\ state.evidence = request[r].evidence
           /\ state.completing = request[r].completing
  BY DEF TypeInv, TypeOK, Request

\* A completion past its check is on an incident it saw open.
LEMMA CompletingSeen ==
    ASSUME TypeInv, SeenInv, NEW r \in Requests, Pending(request[r]),
           request[r].completing, request[r].phase \in {"link", "done"}
    PROVE  /\ "open" \in seen[r].statuses
           /\ \E v \in seen[r].steps : v[request[r].step] # "done"
  BY DEF SeenInv, Viewed

LEMMA LinkPreparedSeen ==
    ASSUME TypeInv, SafeInv, SeenInv, NEW r \in Requests, LinkPrepared(r)
    PROVE  SeenInv'
  <1> DEFINE i == request[r].incident
             s == request[r].step
             e == request[r].evidence
             snap == [Loaded(r) EXCEPT !.links[s] = @ \cup {e}]
             state == [request[r] EXCEPT !.pc = "save", !.snap = snap]
  <1>1. /\ request[r].pc = "links" /\ request[r].phase = "link"
        /\ Loaded(r).status = "open" /\ EvidenceOrg[e] = org[i]
        /\ Becomes(r, state) /\ s \in Steps
    BY DEF LinkPrepared, At, Linkable, TypeInv, WellFormed
  <1>2. /\ Loaded(r) \in Snapshot /\ status[i] # "absent"
        /\ "open" \in seen[r].statuses /\ Loaded(r).step \in seen[r].steps
        /\ Loaded(r).links = links[i]
    BY <1>1, LoadedSeen
  <1>3. /\ snap.status = "open" /\ snap.step = Loaded(r).step
        /\ \A t \in Steps : snap.links[t] =
               IF t = s THEN links[i][t] \cup {e} ELSE links[i][t]
    BY <1>1, <1>2 DEF Snapshot
  <1> HIDE DEF snap
  <1>4. /\ state.pc = "save" /\ state.snap = snap /\ state.phase = "link"
        /\ state.incident = i /\ state.step = s /\ state.evidence = e
        /\ state.completing = request[r].completing
    BY <1>1, SavingFields
  <1>5. request[r].completing
            => \E v \in seen[r].steps : v[s] # "done"
    BY <1>1, CompletingSeen DEF Pending
  <1> HIDE DEF state, i, s, e
  <1>6. Viewed(state, seen[r])
    BY <1>2, <1>3, <1>4, <1>5 DEF Viewed
  <1>7. LinksReady(state)
    BY <1>1, <1>2, <1>3, <1>4 DEF LinksReady
  <1> QED
    BY <1>1, <1>6, <1>7, PreparedSeen DEF state

LEMMA CompletionPreparedSeen ==
    ASSUME TypeInv, SafeInv, SeenInv, NEW r \in Requests,
           CompletionPrepared(r)
    PROVE  SeenInv'
  <1>0. ASSUME Becomes(r, Idle)
        PROVE  SeenInv'
    BY <1>0, EndsSeen DEF Becomes
  <1> DEFINE i == request[r].incident
             s == request[r].step
             snap == [Loaded(r) EXCEPT !.step[s] = "done"]
             state == [request[r] EXCEPT !.pc = "save", !.snap = snap]
  <1>1. CASE ~EvidenceMissing(r)
    <2>1. /\ request[r].pc = "links" /\ request[r].phase = "done"
          /\ Becomes(r, state) /\ s \in Steps
          /\ request[r].completing
      BY <1>1 DEF CompletionPrepared, At, TypeInv, WellFormed
    <2>2. /\ Loaded(r) \in Snapshot /\ status[i] # "absent"
          /\ Loaded(r).status \in seen[r].statuses \ {"absent"}
          /\ Loaded(r).step \in seen[r].steps /\ Loaded(r).links = links[i]
      BY <2>1, LoadedSeen
    <2>3. /\ snap.status = Loaded(r).status /\ snap.links = links[i]
          /\ snap.step = [Loaded(r).step EXCEPT ![s] = "done"]
      BY <2>2 DEF Snapshot
    <2>4. s \in RequiresEvidence => links[i][s] # {}
      BY <1>1, <2>2 DEF EvidenceMissing
    <2> HIDE DEF snap
    <2>5. /\ state.pc = "save" /\ state.snap = snap /\ state.phase = "done"
          /\ state.incident = i /\ state.step = s /\ state.completing
      BY <2>1, SavingFields
    <2>6. /\ "open" \in seen[r].statuses
          /\ \E v \in seen[r].steps : v[s] # "done"
      BY <2>1, CompletingSeen DEF Pending
    <2> HIDE DEF state, i, s
    <2>7. Viewed(state, seen[r])
      BY <2>2, <2>3, <2>5, <2>6 DEF Viewed
    <2>8. LinksReady(state)
      BY <2>2, <2>3, <2>4, <2>5 DEF LinksReady
    <2> QED
      BY <2>1, <2>7, <2>8, PreparedSeen DEF state
  <1> QED
    BY <1>0, <1>1 DEF CompletionPrepared

LEMMA ClosePreparedSeen ==
    ASSUME TypeInv, SafeInv, SeenInv, NEW r \in Requests, ClosePrepared(r)
    PROVE  SeenInv'
  <1>0. ASSUME Becomes(r, Idle)
        PROVE  SeenInv'
    BY <1>0, EndsSeen DEF Becomes
  <1> DEFINE i == request[r].incident
             snap == [Loaded(r) EXCEPT !.status = "closed"]
             state == [request[r] EXCEPT !.pc = "save", !.snap = snap]
  <1>1. CASE Loaded(r).status # "closed"
    <2>1. /\ request[r].pc = "links" /\ request[r].phase = "close"
          /\ Becomes(r, state)
      BY <1>1 DEF ClosePrepared, At
    <2>2. /\ Loaded(r) \in Snapshot /\ status[i] # "absent"
          /\ Loaded(r).status \in seen[r].statuses \ {"absent"}
          /\ Loaded(r).step \in seen[r].steps /\ Loaded(r).links = links[i]
      BY <2>1, LoadedSeen
    <2>3. "open" \in seen[r].statuses
      BY <1>1, <2>2 DEF Snapshot, Statuses
    <2>4. /\ snap.status = "closed" /\ snap.links = links[i]
          /\ snap.step = Loaded(r).step
      BY <2>2 DEF Snapshot
    <2> HIDE DEF snap
    <2>5. /\ state.pc = "save" /\ state.snap = snap /\ state.phase = "close"
          /\ state.incident = i
      BY <2>1, SavingFields
    <2> HIDE DEF state, i
    <2>6. Viewed(state, seen[r])
      BY <2>2, <2>3, <2>4, <2>5 DEF Viewed
    <2>7. LinksReady(state)
      BY <2>2, <2>4, <2>5 DEF LinksReady
    <2> QED
      BY <2>1, <2>6, <2>7, PreparedSeen DEF state
  <1> QED
    BY <1>0, <1>1 DEF ClosePrepared

LEMMA ReadsSeen ==
    ASSUME TypeInv, SeenInv, NEW r \in Requests, ReadRow(r) \/ ReadSteps(r)
    PROVE  SeenInv'
  <1> DEFINE i == request[r].incident
             q == request[r]
  <1>1. /\ q \in Request /\ Pending(q)
        /\ status[i] \in seen[r].statuses /\ step[i] \in seen[r].steps
    BY DEF ReadRow, ReadSteps, TypeInv, TypeOK, Pending, SeenInv, UpToDate
  <1>2. q.completing /\ q.phase \in {"link", "done"}
            => /\ "open" \in seen[r].statuses
               /\ \E v \in seen[r].steps : v[q.step] # "done"
    BY <1>1, CompletingSeen
  <1>3. CASE ReadRow(r)
    <2> DEFINE state == [q EXCEPT !.pc = "steps", !.snap.status = status[i]]
    <2>1. /\ state.pc = "steps" /\ state.phase = q.phase
          /\ state.incident = i /\ state.step = q.step
          /\ state.completing = q.completing
          /\ state.snap.status = status[i]
      BY <1>1 DEF Request, Snapshot
    <2>2. Becomes(r, IF status[i] = "absent" THEN Idle ELSE state)
      BY <1>3 DEF ReadRow
    <2> HIDE DEF state, i, q
    <2>3. status[i] # "absent" => Viewed(state, seen[r])
      BY <1>1, <1>2, <2>1 DEF Viewed
    <2>4. Pending(state) /\ LinksReady(state) /\ UpToDate(state, seen[r])
      BY <1>1, <2>1 DEF Pending, LinksReady, UpToDate
    <2> QED
      BY <2>2, <2>3, <2>4, EndsSeen, TurnsSeen DEF Becomes
  <1>4. CASE ReadSteps(r)
    <2> DEFINE state == [q EXCEPT !.pc = "links", !.snap.step = step[i]]
    <2>1. /\ state.pc = "links" /\ state.phase = q.phase
          /\ state.incident = i /\ state.step = q.step
          /\ state.completing = q.completing
          /\ state.snap.status = q.snap.status /\ state.snap.step = step[i]
      BY <1>1 DEF Request, Snapshot
    <2>2. q.snap.status \in seen[r].statuses \ {"absent"}
      BY <1>4 DEF ReadSteps, SeenInv, Viewed
    <2>3. Becomes(r, state)
      BY <1>4 DEF ReadSteps
    <2> HIDE DEF state, i, q
    <2>4. Viewed(state, seen[r])
      BY <1>1, <1>2, <2>1, <2>2 DEF Viewed
    <2>5. Pending(state) /\ LinksReady(state) /\ UpToDate(state, seen[r])
      BY <1>1, <2>1 DEF Pending, LinksReady, UpToDate
    <2> QED
      BY <2>3, <2>4, <2>5, TurnsSeen DEF Becomes
  <1> QED
    BY <1>3, <1>4

LEMMA PlainSeen ==
    ASSUME TypeInv, SafeInv, SeenInv, NEW r \in Requests, Plain(r)
    PROVE  SeenInv'
  <1>1. CASE IncidentExists(r) \/ LinkRefused(r)
    BY <1>1, EndsSeen DEF IncidentExists, LinkRefused, Becomes
  <1>2. CASE AlreadyLinked(r)
    BY <1>2, AfterLinkSeen DEF AlreadyLinked, At, Becomes
  <1>3. CASE CompletionChecked(r)
    <2>1. /\ request[r].pc = "links" /\ request[r].phase = "check"
          /\ request[r].completing
      BY <1>3 DEF CompletionChecked, At, TypeInv, WellFormed
    <2>2. /\ Loaded(r).status \in seen[r].statuses
          /\ Loaded(r).step \in seen[r].steps
      BY <2>1, LoadedSeen
    <2>3. CASE Completable(r)
      <3>1. PICK next \in Continue(r) : Becomes(r, next)
        BY <1>3, <2>3 DEF CompletionChecked
      <3>2. /\ "open" \in seen[r].statuses
            /\ \E v \in seen[r].steps : v[request[r].step] # "done"
        BY <2>2, <2>3 DEF Completable
      <3> QED
        BY <2>1, <3>1, <3>2, ContinueSeen, TurnsSeen DEF Becomes, Pending
    <2>4. CASE ~Completable(r)
      BY <1>3, <2>4, EndsSeen DEF CompletionChecked, Becomes
    <2> QED
      BY <2>3, <2>4
  <1> QED
    BY <1>1, <1>2, <1>3, ReadsSeen, LinkPreparedSeen, CompletionPreparedSeen,
       ClosePreparedSeen DEF Plain

\* A change of one incident, in the sight of the requests pending on it.
LEMMA ChangedSeen ==
    ASSUME TypeInv, SafeInv, SeenInv, NEW r \in Requests, NEW state,
           NEW i \in Incidents, NEW st, NEW v,
           request' = [request EXCEPT ![r] = state],
           Pending(state) => /\ state.incident = request[r].incident
                             /\ Viewed(state, seen[r]),
           state.pc = "audit", ~Pending(state) => Viewed(state, Unseen),
           request[r].incident = i,
           status' = [status EXCEPT ![i] = st],
           step' = [step EXCEPT ![i] = v],
           Shown(i, st, v),
           \A j \in Incidents : status[j] # "absent"
               => status'[j] # "absent" /\ org'[j] = org[j],
           \A j \in Incidents, s \in Steps : links[j][s] \subseteq links'[j][s]
    PROVE  SeenInv'
  <1>1. \A q \in Requests :
            request'[q] = IF q = r THEN state ELSE request[q]
    BY DEF TypeInv, TypeOK
  <1>2. \A j \in Incidents : /\ status'[j] = IF j = i THEN st ELSE status[j]
                            /\ step'[j] = IF j = i THEN v ELSE step[j]
    BY DEF TypeInv, TypeOK
  <1>3. \A q \in Requests : Pending(request[q])
            => request[q].incident \in Incidents
    BY DEF Pending, TypeInv, WellFormed
  <1>4. ASSUME NEW q \in Requests
        PROVE  seen'[q] = IF ~Pending(request'[q]) THEN Unseen
                          ELSE IF request[q].incident = i
                          THEN [statuses |-> seen[q].statuses \cup {st},
                                steps |-> seen[q].steps \cup {v}]
                          ELSE seen[q]
    BY DEF Shown
  <1>5. ASSUME NEW q \in Requests
        PROVE  Viewed(request'[q], seen'[q])
    <2> DEFINE more == [statuses |-> seen[q].statuses \cup {st},
                        steps |-> seen[q].steps \cup {v}]
    <2>1. /\ seen[q].statuses \subseteq more.statuses
          /\ seen[q].steps \subseteq more.steps
      OBVIOUS
    <2>2. seen'[q] \in {Unseen, more, seen[q]}
          /\ (Pending(request'[q]) => seen'[q] \in {more, seen[q]})
      BY <1>4
    <2> HIDE DEF more
    <2>3. CASE q = r
      <3>1. CASE Pending(state)
        <4>1. request'[q] = state /\ Viewed(state, seen[q])
          BY <1>1, <2>3, <3>1
        <4>2. seen'[q] \in {more, seen[q]}
          BY <2>2, <3>1, <4>1
        <4>3. Viewed(state, more)
          BY <2>1, <4>1, ViewedMore
        <4> QED
          BY <4>1, <4>2, <4>3
      <3>2. CASE ~Pending(state)
        <4>1. request'[q] = state
          BY <1>1, <2>3
        <4>2. seen'[q] = Unseen
          BY <1>4, <3>2, <4>1
        <4>3. Viewed(state, Unseen)
          BY <3>2
        <4> QED
          BY <4>1, <4>2, <4>3
      <3> QED
        BY <3>1, <3>2
    <2>4. CASE q # r
      <3>1. request'[q] = request[q] /\ Viewed(request[q], seen[q])
        BY <1>1, <2>4 DEF SeenInv
      <3>2. CASE Pending(request[q])
        BY <2>1, <2>2, <3>1, <3>2, ViewedMore
      <3>3. CASE ~Pending(request[q])
        <4>1. request[q].pc \notin {"row", "steps", "links", "save"}
          BY <3>3 DEF Pending
        <4> QED
          BY <3>1, <3>3, <4>1 DEF Viewed
      <3> QED
        BY <3>2, <3>3
    <2> QED
      BY <2>3, <2>4
  <1>6. ASSUME NEW q \in Requests, Pending(request'[q])
        PROVE  /\ status'[request'[q].incident] \in seen'[q].statuses
               /\ step'[request'[q].incident] \in seen'[q].steps
    <2>1. CASE q = r
      <3>1. /\ request'[q].incident = i /\ request[q].incident = i
        BY <1>1, <1>6, <2>1
      <3>2. seen'[q] = [statuses |-> seen[q].statuses \cup {st},
                        steps |-> seen[q].steps \cup {v}]
        BY <1>4, <1>6, <3>1
      <3> QED
        BY <1>2, <3>1, <3>2
    <2>2. CASE q # r
      <3>1. request'[q] = request[q] /\ Pending(request[q])
        BY <1>1, <1>6, <2>2
      <3>2. /\ status[request[q].incident] \in seen[q].statuses
            /\ step[request[q].incident] \in seen[q].steps
            /\ request[q].incident \in Incidents
        BY <1>3, <3>1 DEF SeenInv, UpToDate
      <3>3. CASE request[q].incident = i
        <4>1. seen'[q] = [statuses |-> seen[q].statuses \cup {st},
                          steps |-> seen[q].steps \cup {v}]
          BY <1>4, <1>6, <3>3
        <4> QED
          BY <1>2, <3>1, <3>3, <4>1
      <3>4. CASE request[q].incident # i
        <4>1. seen'[q] = seen[q]
          BY <1>4, <1>6, <3>4
        <4> QED
          BY <1>2, <3>1, <3>2, <3>4, <4>1
      <3> QED
        BY <3>3, <3>4
    <2> QED
      BY <2>1, <2>2
  <1>7. ASSUME NEW q \in Requests
        PROVE  LinksReady(request[q])'
    <2>1. CASE q = r
      BY <1>1, <2>1 DEF LinksReady
    <2>2. CASE q # r
      <3>1. request'[q] = request[q] /\ LinksReady(request[q])
        BY <1>1, <2>2 DEF SeenInv
      <3>2. CASE request[q].pc = "save" /\ request[q].phase # "open"
        <4>1. /\ request[q].incident \in Incidents
              /\ request[q].phase = "done" => request[q].step \in Steps
          BY <3>2 DEF TypeInv, WellFormed
        <4> QED
          BY <3>1, <3>2, <4>1 DEF LinksReady
      <3>3. CASE ~(request[q].pc = "save" /\ request[q].phase # "open")
        BY <3>1, <3>3 DEF LinksReady
      <3> QED
        BY <3>2, <3>3
    <2> QED
      BY <2>1, <2>2
  <1>8. ASSUME NEW q \in Requests
        PROVE  Viewed(request[q], seen[q])' /\ UpToDate(request[q], seen[q])'
    <2>1. Viewed(request[q], seen[q])'
      BY <1>5 DEF Viewed, Pending
    <2>2. UpToDate(request[q], seen[q])'
      BY <1>6 DEF UpToDate, Pending
    <2> QED
      BY <2>1, <2>2
  <1> QED
    BY <1>7, <1>8 DEF SeenInv

\* What becomes of a request that saved.
LEMMA SavedFields ==
    ASSUME TypeInv, NEW r \in Requests, CreateIncident(r) \/ SaveIncident(r)
    PROVE  \E state :
               /\ request' = [request EXCEPT ![r] = state]
               /\ state.pc = "audit" /\ state.phase = request[r].phase
               /\ state.incident = request[r].incident
               /\ state.step = request[r].step /\ state.org = request[r].org
               /\ state.completing = request[r].completing
  <1>1. request[r] \in Request
    BY DEF TypeInv, TypeOK
  <1> DEFINE created == [request[r] EXCEPT !.pc = "audit"]
             saved == [request[r] EXCEPT !.pc = "audit", !.snap = NoSnapshot]
             Fields(q) == /\ q.pc = "audit" /\ q.phase = request[r].phase
                          /\ q.incident = request[r].incident
                          /\ q.step = request[r].step
                          /\ q.org = request[r].org
                          /\ q.completing = request[r].completing
  <1>2. Fields(created) /\ Fields(saved)
    BY <1>1 DEF Request
  <1>3. \/ request' = [request EXCEPT ![r] = created]
        \/ request' = [request EXCEPT ![r] = saved]
    BY DEF CreateIncident, SaveIncident
  <1> HIDE DEF created, saved
  <1> QED
    BY <1>2, <1>3

LEMMA ChangesSeen ==
    ASSUME TypeInv, SafeInv, SeenInv, NEW r \in Requests,
           CreateIncident(r) \/ SaveIncident(r)
    PROVE  SeenInv'
  <1> DEFINE i == request[r].incident
  <1>1. PICK state :
            /\ request' = [request EXCEPT ![r] = state]
            /\ state.pc = "audit" /\ state.phase = request[r].phase
            /\ state.incident = i /\ state.step = request[r].step
            /\ state.completing = request[r].completing
    BY SavedFields
  <1>2. request[r].pc = "save" /\ i \in Incidents
    BY DEF CreateIncident, At, SaveIncident, TypeInv, WellFormed
  <1>3. Pending(state) => /\ request[r].phase = "link"
                          /\ request[r].completing /\ Pending(request[r])
    BY <1>1, <1>2 DEF Pending
  <1>4. Pending(state) => Viewed(state, seen[r])
    BY <1>1, <1>3, CompletingSeen DEF Viewed
  <1>5. ~Pending(state) => Viewed(state, Unseen)
    BY <1>1 DEF Viewed
  <1>6. CASE CreateIncident(r)
    <2>1. /\ status' = [status EXCEPT ![i] = "open"]
          /\ org' = [org EXCEPT ![i] = request[r].org]
          /\ Shown(i, "open", step[i]) /\ status[i] = "absent"
          /\ step' = step /\ links' = links
      BY <1>6 DEF CreateIncident
    <2>2. step' = [step EXCEPT ![i] = step[i]]
      BY <2>1 DEF TypeInv, TypeOK
    <2>3. \A j \in Incidents : status[j] # "absent"
              => status'[j] # "absent" /\ org'[j] = org[j]
      BY <1>2, <2>1 DEF TypeInv, TypeOK
    <2> QED
      BY <1>1, <1>2, <1>4, <1>5, <2>1, <2>2, <2>3, ChangedSeen
  <1>7. CASE SaveIncident(r)
    <2> DEFINE snap == request[r].snap
    <2>1. /\ status' = [status EXCEPT ![i] = snap.status]
          /\ step' = [step EXCEPT ![i] = snap.step]
          /\ Shown(i, snap.status, snap.step) /\ org' = org
          /\ request[r].phase # "open"
      BY <1>7 DEF SaveIncident
    <2>2. snap.status # "absent"
      BY <1>2, <2>1 DEF SafeInv, Sound, Loading
    <2>3. \A j \in Incidents : status[j] # "absent"
              => status'[j] # "absent" /\ org'[j] = org[j]
      BY <1>2, <2>1, <2>2 DEF TypeInv, TypeOK
    <2>4. \A j \in Incidents, s \in Steps :
              links[j][s] \subseteq links'[j][s]
      BY <1>7, SaveSafe
    <2> HIDE DEF snap
    <2> QED
      BY <1>1, <1>2, <1>4, <1>5, <2>1, <2>3, <2>4, ChangedSeen
  <1> QED
    BY <1>6, <1>7

LEMMA SeenStep ==
    ASSUME TypeInv, SafeInv, SeenInv, [Next]_vars
    PROVE  SeenInv'
  <1>1. ASSUME NEW r \in Requests, AppendAudit(r)
        PROVE  SeenInv'
    <2>1. PICK next \in IF request[r].phase = "link" THEN AfterLink(r)
                        ELSE {Idle} : Turns(r, next)
      BY <1>1 DEF AppendAudit
    <2>2. request[r].pc = "audit" /\ UNCHANGED tables
      BY <1>1 DEF AppendAudit
    <2> QED
      BY <2>1, <2>2, AfterLinkSeen, EndsSeen
  <1>2. ASSUME NEW r \in Requests, QueryFails(r)
        PROVE  SeenInv'
    BY <1>2, EndsSeen DEF QueryFails
  <1>3. CASE Crash
    <2>1. \A q \in Requests : request'[q] = Idle
      BY <1>3 DEF Crash
    <2> QED
      BY <2>1 DEF Idle, SeenInv, Viewed, UpToDate, LinksReady, Pending
  <1>4. CASE (\E e \in Evidence : RegisterEvidence(e)) \/ UNCHANGED vars
    <2>1. UNCHANGED <<request, seen, status, org, step, links>>
      BY <1>4 DEF RegisterEvidence, vars, tables
    <2>2. ASSUME NEW q \in Requests
          PROVE  /\ Viewed(request[q], seen[q])'
                 /\ UpToDate(request[q], seen[q])'
                 /\ LinksReady(request[q])'
      <3>1. /\ Viewed(request[q], seen[q]) /\ UpToDate(request[q], seen[q])
            /\ LinksReady(request[q])
        BY DEF SeenInv
      <3>2. Viewed(request[q], seen[q])'
        BY <2>1, <3>1 DEF Viewed, Pending
      <3>3. UpToDate(request[q], seen[q])'
        BY <2>1, <3>1 DEF UpToDate, Pending
      <3>4. LinksReady(request[q])'
        BY <2>1, <3>1 DEF LinksReady
      <3> QED
        BY <3>2, <3>3, <3>4
    <2> QED
      BY <2>2 DEF SeenInv
  <1> QED
    BY <1>1, <1>2, <1>3, <1>4, StartsSeen, PlainSeen, ChangesSeen, StepKinds

-----------------------------------------------------------------------------
(* Every step is one of IncidentLifecycle, or leaves the incidents and the  *)
(* calls.                                                                   *)

\* The call of a request, and what its steps do to it.
CallOf(q, sight) ==
    IF Pending(q)
    THEN [op |-> OperationOf(q), incident |-> q.incident, step |-> q.step,
          org |-> q.org, statuses |-> sight.statuses, steps |-> sight.steps]
    ELSE [op |-> "none"]

Calls == [r \in Requests |-> CallOf(request[r], seen[r])]

LEMMA CallsAre ==
    /\ \A r \in Requests : Calls[r] = CallOf(request[r], seen[r])
    /\ Calls' = [r \in Requests |-> CallOf(request'[r], seen'[r])]
  BY DEF Calls, CallOf, Pending, OperationOf

LEMMA OperationsKnown ==
    \A q : OperationOf(q) \in {"open", "link", "complete", "close"}
  BY DEF OperationOf

LEMMA AskStep ==
    ASSUME TypeInv, NEW r \in Requests, Receive(r)
    PROVE  Lifecycle!Next
  <1>1. PICK state : Start(r, state) /\ Begins(state)
    BY ReceiveStarts
  <1> DEFINE i == state.incident
             asked == [op |-> OperationOf(state), incident |-> i,
                       step |-> state.step, org |-> state.org,
                       statuses |-> {status[i]}, steps |-> {step[i]}]
  <1>2. /\ request' = [request EXCEPT ![r] = state]
        /\ seen' = [seen EXCEPT ![r] = [statuses |-> {status[i]},
                                        steps |-> {step[i]}]]
        /\ request[r].pc = "idle" /\ UNCHANGED <<status, org, step, links>>
        /\ request \in [Requests -> Request]
        /\ seen \in [Requests -> Sight]
    BY <1>1 DEF Start, tables, TypeInv, TypeOK
  <1>3. Calls[r] = [op |-> "none"]
    BY <1>2 DEF Calls, CallOf, Pending
  <1>4. Pending(state)
    BY <1>1 DEF Begins, Pending
  <1>5. ASSUME NEW q \in Requests
        PROVE  CallOf(request'[q], seen'[q])
                   = IF q = r THEN asked ELSE CallOf(request[q], seen[q])
    <2>1. CASE q = r
      BY <1>2, <1>4, <2>1 DEF CallOf
    <2>2. CASE q # r
      BY <1>2, <2>2
    <2> QED
      BY <2>1, <2>2
  <1> HIDE DEF asked
  <1>6. Calls' = [Calls EXCEPT ![r] = asked]
    BY <1>5, CallsAre DEF Calls
  <1>7. /\ Lifecycle!Ask(r, OperationOf(state), i, state.step, state.org)
        /\ Calls[r] = Lifecycle!NoCall /\ UNCHANGED <<status, org, step, links>>
    BY <1>2, <1>3, <1>6
       DEF Lifecycle!Ask, Lifecycle!NoCall, Calls, CallOf, Pending,
           OperationOf, asked
  <1>8. /\ i \in Incidents
        /\ \/ /\ OperationOf(state) = "open"
              /\ state.step = Null /\ state.org \in Orgs
           \/ /\ OperationOf(state) \in {"link", "complete"}
              /\ state.step \in Steps /\ state.org = Null
           \/ /\ OperationOf(state) = "close"
              /\ state.step = Null /\ state.org = Null
    BY <1>1 DEF Begins, OperationOf
  <1> HIDE DEF i
  <1>9. \/ \E o \in Orgs : Lifecycle!Ask(r, "open", i, Null, o)
        \/ \E s \in Steps, op \in {"link", "complete"} :
               Lifecycle!Ask(r, op, i, s, Null)
        \/ Lifecycle!Ask(r, "close", i, Null, Null)
    <2>1. CASE /\ OperationOf(state) = "open"
               /\ state.step = Null /\ state.org \in Orgs
      <3>1. Lifecycle!Ask(r, "open", i, Null, state.org)
        BY <1>7, <2>1
      <3> QED
        BY <2>1, <3>1
    <2>2. CASE /\ OperationOf(state) \in {"link", "complete"}
               /\ state.step \in Steps /\ state.org = Null
      <3>1. Lifecycle!Ask(r, OperationOf(state), i, state.step, Null)
        BY <1>7, <2>2
      <3> QED
        BY <2>2, <3>1
    <2>3. CASE /\ OperationOf(state) = "close"
               /\ state.step = Null /\ state.org = Null
      <3>1. Lifecycle!Ask(r, "close", i, Null, Null)
        BY <1>7, <2>3
      <3> QED
        BY <3>1
    <2> QED
      BY <1>8, <2>1, <2>2, <2>3
  <1>10. Lifecycle!Asks(r)
    BY <1>7, <1>8, <1>9
       DEF Lifecycle!Asks, Lifecycle!tables, Calls, CallOf
  <1> QED
    BY <1>10 DEF Lifecycle!Next

\* A request goes on: nobody sees it.
LEMMA CallStays ==
    ASSUME TypeInv, NEW r \in Requests, NEW state, Turns(r, state),
           UNCHANGED tables,
           Pending(state) <=> Pending(request[r]),
           Pending(state) => SameCall(state, request[r])
    PROVE  UNCHANGED Lifecycle!vars
  <1>1. /\ request' = [request EXCEPT ![r] = state]
        /\ seen' = [seen EXCEPT ![r] = IF Pending(state) THEN @ ELSE Unseen]
        /\ UNCHANGED <<status, org, step, links>>
        /\ request \in [Requests -> Request]
        /\ seen \in [Requests -> Sight]
    BY DEF Turns, tables, TypeInv, TypeOK
  <1>2. ASSUME NEW q \in Requests
        PROVE  CallOf(request'[q], seen'[q]) = CallOf(request[q], seen[q])
    <2>1. CASE q = r
      BY <1>1, <2>1 DEF CallOf, SameCall
    <2>2. CASE q # r
      BY <1>1, <2>2
    <2> QED
      BY <2>1, <2>2
  <1>3. Calls' = Calls
    BY <1>2, CallsAre DEF Calls
  <1> QED
    BY <1>1, <1>3
       DEF Lifecycle!vars, Lifecycle!tables, Calls, CallOf, Pending,
           OperationOf

\* A request ends without a change.
LEMMA CallEnds ==
    ASSUME TypeInv, NEW r \in Requests, Turns(r, Idle), UNCHANGED tables
    PROVE  [Lifecycle!Next]_(Lifecycle!vars)
  <1>0. ~Pending(Idle)
    BY IdleSeen
  <1>1. CASE ~Pending(request[r])
    BY <1>0, <1>1, CallStays
  <1>2. CASE Pending(request[r])
    <2>1. /\ request' = [request EXCEPT ![r] = Idle]
          /\ seen' = [seen EXCEPT ![r] = Unseen]
          /\ UNCHANGED <<status, org, step, links>>
          /\ request \in [Requests -> Request]
          /\ seen \in [Requests -> Sight]
      BY <1>0 DEF Turns, tables, TypeInv, TypeOK
    <2>2. Calls[r] # [op |-> "none"]
      <3>1. Calls[r].op = OperationOf(request[r])
        BY <1>2 DEF Calls, CallOf
      <3>2. Calls[r].op # "none"
        BY <3>1, OperationsKnown
      <3> QED
        BY <3>2
    <2>3. ASSUME NEW q \in Requests
          PROVE  CallOf(request'[q], seen'[q])
                     = IF q = r THEN [op |-> "none"]
                       ELSE CallOf(request[q], seen[q])
      BY <1>0, <2>1 DEF CallOf
    <2>4. Calls' = [Calls EXCEPT ![r] = [op |-> "none"]]
      BY <2>3, CallsAre DEF Calls
    <2>5. Lifecycle!GivenUp(r)
      BY <2>1, <2>2, <2>4
         DEF Lifecycle!GivenUp, Lifecycle!NoCall, Lifecycle!tables,
             Calls, CallOf, Pending, OperationOf
    <2> QED
      BY <2>5 DEF Lifecycle!Next
  <1> QED
    BY <1>1, <1>2

\* What IncidentLifecycle says of the calls when one takes effect.
CallsAfter(r, st, v, goesOn) ==
    [q \in Requests |->
        IF q = r /\ ~goesOn THEN [op |-> "none"]
        ELSE IF /\ Calls[q].op \in {"open", "link", "complete", "close"}
                /\ Calls[q].incident = Calls[r].incident
        THEN [Calls[q] EXCEPT !.statuses = @ \cup {st},
                              !.steps = @ \cup {v}]
        ELSE Calls[q]]

TakesEffect(r, st, v, goesOn) ==
    /\ status' = [status EXCEPT ![Calls[r].incident] = st]
    /\ step' = [step EXCEPT ![Calls[r].incident] = v]
    /\ Calls' = CallsAfter(r, st, v, goesOn)

\* The call that a request works for, on what it has seen.
CallFor(q, sts, vs) ==
    [op |-> OperationOf(q), incident |-> q.incident, step |-> q.step,
     org |-> q.org, statuses |-> sts, steps |-> vs]

\* A save takes effect, in the sight of the others that are pending.
LEMMA SaveEffect ==
    ASSUME TypeInv, NEW r \in Requests,
           CreateIncident(r) \/ SaveIncident(r), NEW st, NEW v,
           status' = [status EXCEPT ![request[r].incident] = st],
           step' = [step EXCEPT ![request[r].incident] = v],
           Shown(request[r].incident, st, v)
    PROVE  /\ Calls[r] = [op |-> OperationOf(request[r]),
                          incident |-> request[r].incident,
                          step |-> request[r].step, org |-> request[r].org,
                          statuses |-> seen[r].statuses,
                          steps |-> seen[r].steps]
           /\ TakesEffect(r, st, v,
                          OperationOf(request[r]) = "complete"
                          /\ request[r].phase = "link")
  <1> DEFINE i == request[r].incident
             goesOn == OperationOf(request[r]) = "complete"
                       /\ request[r].phase = "link"
  <1>1. /\ request[r].pc = "save"
        /\ request \in [Requests -> Request]
        /\ seen \in [Requests -> Sight]
    BY DEF CreateIncident, At, SaveIncident, TypeInv, TypeOK
  <1>2. Calls[r] = [op |-> OperationOf(request[r]),
                    incident |-> i, step |-> request[r].step,
                    org |-> request[r].org, statuses |-> seen[r].statuses,
                    steps |-> seen[r].steps]
    BY <1>1 DEF Calls, CallOf, Pending
  <1>3. PICK state :
            /\ request' = [request EXCEPT ![r] = state]
            /\ state.pc = "audit" /\ state.phase = request[r].phase
            /\ state.incident = i /\ state.step = request[r].step
            /\ state.org = request[r].org
            /\ state.completing = request[r].completing
    BY SavedFields
  <1>4. /\ OperationOf(state) = OperationOf(request[r])
        /\ Pending(state) <=> goesOn
    BY <1>3 DEF OperationOf, Pending
  <1>5. \A q \in Requests :
            seen'[q] = IF ~Pending(request'[q]) THEN Unseen
                       ELSE IF request[q].incident = i
                       THEN [statuses |-> seen[q].statuses \cup {st},
                             steps |-> seen[q].steps \cup {v}]
                       ELSE seen[q]
    BY DEF Shown
  <1> HIDE DEF goesOn, i
  <1>6. ASSUME NEW q \in Requests
        PROVE  CallOf(request'[q], seen'[q])
                   = IF q = r /\ ~goesOn THEN [op |-> "none"]
                     ELSE IF /\ Calls[q].op \in {"open", "link", "complete",
                                                 "close"}
                             /\ Calls[q].incident = i
                     THEN [Calls[q] EXCEPT !.statuses = @ \cup {st},
                                           !.steps = @ \cup {v}]
                     ELSE Calls[q]
    <2>0. ASSUME Calls[q] = CallFor(request[q], seen[q].statuses, seen[q].steps)
          PROVE  [Calls[q] EXCEPT !.statuses = @ \cup {st},
                                  !.steps = @ \cup {v}]
                     = CallFor(request[q], seen[q].statuses \cup {st},
                               seen[q].steps \cup {v})
      <3> DEFINE now == Calls[q]
                 more == [now EXCEPT !.statuses = seen[q].statuses \cup {st}]
      <3>1. /\ now.statuses = seen[q].statuses
            /\ now.steps = seen[q].steps
        BY <2>0 DEF CallFor
      <3>2. more = CallFor(request[q], seen[q].statuses \cup {st},
                           seen[q].steps)
        BY <2>0 DEF CallFor
      <3> HIDE DEF now
      <3>3. [now EXCEPT !.statuses = seen[q].statuses \cup {st},
                        !.steps = seen[q].steps \cup {v}]
                = [more EXCEPT !.steps = seen[q].steps \cup {v}]
        OBVIOUS
      <3> HIDE DEF more
      <3>4. [more EXCEPT !.steps = seen[q].steps \cup {v}]
                = CallFor(request[q], seen[q].statuses \cup {st},
                          seen[q].steps \cup {v})
        BY ONLY <3>2 DEF CallFor
      <3>5. [now EXCEPT !.statuses = now.statuses \cup {st},
                        !.steps = now.steps \cup {v}]
                = CallFor(request[q], seen[q].statuses \cup {st},
                          seen[q].steps \cup {v})
        BY ONLY <3>1, <3>3, <3>4
      <3> QED
        BY <3>5 DEF now
    <2>1. CASE q = r /\ ~goesOn
      <3>1. request'[q] = state
        BY <1>1, <1>3, <2>1
      <3> QED
        BY <1>4, <2>1, <3>1 DEF CallOf
    <2>2. CASE q = r /\ goesOn
      <3>1. request'[q] = state /\ Pending(state)
        BY <1>1, <1>3, <1>4, <2>2
      <3>2. seen'[q] = [statuses |-> seen[q].statuses \cup {st},
                        steps |-> seen[q].steps \cup {v}]
        BY <1>5, <2>2, <3>1 DEF i
      <3>3. CallOf(state, seen'[q])
                = CallFor(request[q], seen[q].statuses \cup {st},
                          seen[q].steps \cup {v})
        BY <1>3, <1>4, <2>2, <3>1, <3>2 DEF CallOf, CallFor, i
      <3>4. Calls[q] = CallFor(request[q], seen[q].statuses, seen[q].steps)
        BY <1>2, <2>2 DEF CallFor, i
      <3>5. /\ Calls[q].op \in {"open", "link", "complete", "close"}
            /\ Calls[q].incident = i
        BY <2>2, <3>4, OperationsKnown DEF CallFor, i
      <3> QED
        BY <2>0, <2>2, <3>1, <3>3, <3>4, <3>5
    <2>3. CASE q # r
      <3>1. request'[q] = request[q]
        BY <1>1, <1>3, <2>3
      <3>2. CASE Pending(request[q])
        <4>1. Calls[q] = CallFor(request[q], seen[q].statuses, seen[q].steps)
          BY <3>2 DEF Calls, CallOf, CallFor
        <4>4. /\ Calls[q].op \in {"open", "link", "complete", "close"}
              /\ Calls[q].incident = request[q].incident
          BY <4>1, OperationsKnown DEF CallFor
        <4>2. CASE request[q].incident = i
          <5>1. seen'[q] = [statuses |-> seen[q].statuses \cup {st},
                            steps |-> seen[q].steps \cup {v}]
            BY <1>5, <3>1, <3>2, <4>2
          <5>2. CallOf(request[q], seen'[q])
                    = CallFor(request[q], seen[q].statuses \cup {st},
                              seen[q].steps \cup {v})
            BY <3>2, <5>1 DEF CallOf, CallFor
          <5> QED
            BY <2>0, <2>3, <3>1, <4>1, <4>2, <4>4, <5>2
        <4>3. CASE request[q].incident # i
          <5>1. seen'[q] = seen[q]
            BY <1>5, <3>1, <3>2, <4>3
          <5> QED
            BY <2>3, <3>1, <4>3, <4>4, <5>1 DEF Calls
        <4> QED
          BY <4>2, <4>3
      <3>3. CASE ~Pending(request[q])
        <4>1. Calls[q] = [op |-> "none"] /\ Calls[q].op = "none"
          BY <3>3 DEF Calls, CallOf
        <4> QED
          BY <2>3, <3>1, <3>3, <4>1 DEF CallOf
      <3> QED
        BY <3>2, <3>3
    <2> QED
      BY <2>1, <2>2, <2>3
  <1>7. i = Calls[r].incident
    BY <1>2
  <1>8. Calls' = CallsAfter(r, st, v, goesOn)
    BY <1>6, <1>7, CallsAre DEF CallsAfter
  <1> QED
    BY <1>2, <1>7, <1>8 DEF TakesEffect, goesOn, i

\* What a request that creates its incident works with.
LEMMA CreateFacts ==
    ASSUME TypeInv, NEW r \in Requests, CreateIncident(r)
    PROVE  LET i == request[r].incident IN
           /\ i \in Incidents /\ status[i] = "absent"
           /\ OperationOf(request[r]) = "open"
           /\ Calls[r].op = "open" /\ Calls[r].incident = i
           /\ Calls[r].org = request[r].org
           /\ TakesEffect(r, "open", step[i], FALSE)
           /\ org' = [org EXCEPT ![i] = request[r].org] /\ links' = links
  <1> DEFINE i == request[r].incident
  <1>1. /\ request[r].pc = "save" /\ request[r].phase = "open"
        /\ status[i] = "absent"
        /\ status' = [status EXCEPT ![i] = "open"]
        /\ org' = [org EXCEPT ![i] = request[r].org]
        /\ step' = step /\ links' = links /\ Shown(i, "open", step[i])
    BY DEF CreateIncident, At
  <1>2. step' = [step EXCEPT ![i] = step[i]]
    BY <1>1 DEF TypeInv, TypeOK
  <1>0. request[r].phase = "open"
    BY <1>1
  <1>3. OperationOf(request[r]) = "open"
    BY <1>0 DEF OperationOf
  <1>7. i \in Incidents
    BY <1>1 DEF TypeInv, WellFormed
  <1>4. TakesEffect(r, "open", step[i],
                    OperationOf(request[r]) = "complete"
                    /\ request[r].phase = "link")
    BY <1>1, <1>2, SaveEffect
  <1>5. TakesEffect(r, "open", step[i], FALSE)
    BY <1>3, <1>4
  <1>6. Calls[r] = [op |-> OperationOf(request[r]), incident |-> i,
                    step |-> request[r].step, org |-> request[r].org,
                    statuses |-> seen[r].statuses, steps |-> seen[r].steps]
    BY <1>1, <1>2, SaveEffect
  <1>8. /\ Calls[r].op = "open" /\ Calls[r].incident = i
        /\ Calls[r].org = request[r].org
    BY <1>3, <1>6
  <1> HIDE DEF i
  <1> QED
    BY <1>1, <1>3, <1>5, <1>7, <1>8 DEF i

\* What a request that saves its incident works with.
LEMMA SaveFacts ==
    ASSUME TypeInv, SafeInv, SeenInv, NEW r \in Requests, SaveIncident(r)
    PROVE  LET i == request[r].incident
               s == request[r].step
               snap == request[r].snap
               op == OperationOf(request[r])
           IN
           /\ i \in Incidents
           /\ Calls[r] = [op |-> op, incident |-> i, step |-> s,
                          org |-> request[r].org,
                          statuses |-> seen[r].statuses,
                          steps |-> seen[r].steps]
           /\ TakesEffect(r, snap.status, snap.step,
                          op = "complete" /\ request[r].phase = "link")
           /\ org' = org
           /\ request[r].phase \in {"link", "done", "close"}
           /\ Viewed(request[r], seen[r]) /\ request[r].pc = "save"
  <1>1. /\ request[r].pc = "save" /\ request[r].phase # "open"
        /\ status' = [status EXCEPT ![request[r].incident]
                                        = request[r].snap.status]
        /\ step' = [step EXCEPT ![request[r].incident]
                                    = request[r].snap.step]
        /\ Shown(request[r].incident, request[r].snap.status,
                 request[r].snap.step)
        /\ org' = org
    BY DEF SaveIncident
  <1>2. /\ Viewed(request[r], seen[r])
        /\ request[r].incident \in Incidents
        /\ request[r].phase \in {"link", "done", "close"}
    BY <1>1 DEF SeenInv, Viewed, TypeInv, WellFormed
  <1> QED
    BY <1>1, <1>2, SaveEffect

\* The links of a save: the one to be made, if there is one.
LEMMA SavedLinksAre ==
    ASSUME TypeInv, SeenInv, NEW r \in Requests, SaveIncident(r)
    PROVE  LET i == request[r].incident
               s == request[r].step
               e == request[r].evidence
           IN
           /\ request[r].phase = "link" =>
                  /\ s \in Steps /\ e \in Evidence
                  /\ EvidenceOrg[e] = org[i]
                  /\ links' = [links EXCEPT ![i][s] = @ \cup {e}]
           /\ request[r].phase # "link" => links' = links
           /\ request[r].phase = "done" /\ s \in RequiresEvidence
                  => links[i][s] # {}
  <1> DEFINE i == request[r].incident
             s == request[r].step
             e == request[r].evidence
             snap == request[r].snap
  <1>1. /\ request[r].pc = "save" /\ request[r].phase # "open"
        /\ links' = [links EXCEPT ![i] = SavedLinks(i, snap)]
    BY DEF SaveIncident
  <1>2. /\ i \in Incidents /\ LinksReady(request[r])
        /\ request[r].phase = "link" => s \in Steps /\ e \in Evidence
        /\ links \in [Incidents -> [Steps -> SUBSET Evidence]]
        /\ snap.links \in [Steps -> SUBSET Evidence]
    BY <1>1 DEF SeenInv, TypeInv, TypeOK, WellFormed, Request, Snapshot
  <1>3. \A t \in Steps : \A d \in snap.links[t] :
            d \in links[i][t]
            \/ (request[r].phase = "link" /\ t = s /\ d = e)
    BY <1>1, <1>2 DEF LinksReady
  <1>4. request[r].phase = "link"
            => EvidenceOrg[e] = org[i] /\ e \in snap.links[s]
    BY <1>1, <1>2 DEF LinksReady
  <1>5. request[r].phase = "done" /\ s \in RequiresEvidence
            => links[i][s] # {}
    BY <1>1, <1>2 DEF LinksReady
  <1> HIDE DEF i, s, e, snap
  <1>6. CASE request[r].phase # "link"
    <2>1. \A t \in Steps : links[i][t] \cup snap.links[t] = links[i][t]
      BY <1>3, <1>6
    <2>2. SavedLinks(i, snap) = [t \in Steps |-> links[i][t]]
      BY <2>1 DEF SavedLinks
    <2>3. SavedLinks(i, snap) = links[i]
      BY <1>2, <2>2
    <2>4. links' = links
      BY <1>1, <1>2, <2>3
    <2> QED
      BY <1>5, <1>6, <2>4 DEF i, s
  <1>7. CASE request[r].phase = "link"
    <2> DEFINE more == [links[i] EXCEPT ![s] = @ \cup {e}]
    <2>1. ASSUME NEW t \in Steps
          PROVE  links[i][t] \cup snap.links[t]
                     = IF t = s THEN links[i][t] \cup {e} ELSE links[i][t]
      BY <1>3, <1>4, <1>7
    <2>2. SavedLinks(i, snap)
              = [t \in Steps |-> IF t = s THEN links[i][t] \cup {e}
                                 ELSE links[i][t]]
      BY <2>1 DEF SavedLinks
    <2>3. SavedLinks(i, snap) = more
      BY <1>2, <1>7, <2>2
    <2>4. links' = [links EXCEPT ![i] = more]
      BY <1>1, <2>3
    <2>5. links' = [links EXCEPT ![i][s] = @ \cup {e}]
      BY <2>4
    <2> QED
      BY <1>2, <1>4, <1>7, <2>5 DEF i, s, e
  <1> QED
    BY <1>6, <1>7

LEMMA OpenEffect ==
    ASSUME TypeInv, NEW r \in Requests, CreateIncident(r)
    PROVE  Lifecycle!Next
  <1> DEFINE i == request[r].incident
  <1>1. /\ Calls[r].op = "open" /\ Calls[r].incident = i
        /\ status[i] = "absent" /\ Calls[r].org = request[r].org
        /\ TakesEffect(r, "open", step[i], FALSE)
        /\ org' = [org EXCEPT ![i] = request[r].org] /\ links' = links
    BY CreateFacts
  <1> HIDE DEF i
  <1>2. /\ status[Calls[r].incident] = "absent"
        /\ TakesEffect(r, "open", step[Calls[r].incident], FALSE)
        /\ org' = [org EXCEPT ![Calls[r].incident] = Calls[r].org]
    BY <1>1
  <1>3. Lifecycle!Open(r)
    BY <1>1, <1>2
       DEF Lifecycle!Open, Lifecycle!TakesEffect, Lifecycle!Concerns,
           Lifecycle!NoCall, Lifecycle!Operations, TakesEffect, CallsAfter,
           Calls, CallOf, Pending, OperationOf
  <1> QED
    BY <1>3 DEF Lifecycle!Next

LEMMA LinkEffect ==
    ASSUME TypeInv, SafeInv, SeenInv, NEW r \in Requests, SaveIncident(r),
           request[r].phase = "link"
    PROVE  Lifecycle!Next
  <1> DEFINE i == request[r].incident
             s == request[r].step
             e == request[r].evidence
             snap == request[r].snap
             op == OperationOf(request[r])
  <1>1. /\ Calls[r] = [op |-> op, incident |-> i, step |-> s,
                       org |-> request[r].org,
                       statuses |-> seen[r].statuses, steps |-> seen[r].steps]
        /\ TakesEffect(r, snap.status, snap.step,
                       op = "complete" /\ request[r].phase = "link")
        /\ org' = org /\ Viewed(request[r], seen[r])
        /\ request[r].pc = "save"
    BY SaveFacts
  <1>2. /\ e \in Evidence /\ EvidenceOrg[e] = org[i]
        /\ links' = [links EXCEPT ![i][s] = @ \cup {e}]
    BY SavedLinksAre
  <1>3. /\ "open" \in seen[r].statuses /\ snap.status = "open"
        /\ snap.step \in seen[r].steps
    BY <1>1 DEF Viewed
  <1>4. op \in {"link", "complete"}
    BY DEF OperationOf
  <1> HIDE DEF i, s, e, snap, op
  <1>5. /\ Calls[r].op = op /\ Calls[r].incident = i /\ Calls[r].step = s
        /\ Calls[r].statuses = seen[r].statuses
        /\ Calls[r].steps = seen[r].steps
    BY <1>1
  <1>6. TakesEffect(r, "open", snap.step, Calls[r].op = "complete")
    BY <1>1, <1>3, <1>5 DEF TakesEffect, CallsAfter
  <1>7. \E v \in Calls[r].steps :
            TakesEffect(r, "open", v, Calls[r].op = "complete")
    BY <1>3, <1>5, <1>6
  <1>8. Lifecycle!Link(r, e)
    BY <1>1, <1>2, <1>3, <1>4, <1>5, <1>7
       DEF Lifecycle!Link, Lifecycle!TakesEffect, Lifecycle!Concerns,
           Lifecycle!NoCall, Lifecycle!Operations, TakesEffect, CallsAfter,
           Calls, CallOf, Pending, OperationOf
  <1> QED
    BY <1>2, <1>8 DEF Lifecycle!Next

LEMMA CompleteEffect ==
    ASSUME TypeInv, SafeInv, SeenInv, NEW r \in Requests, SaveIncident(r),
           request[r].phase = "done"
    PROVE  Lifecycle!Next
  <1> DEFINE i == request[r].incident
             s == request[r].step
             snap == request[r].snap
             op == OperationOf(request[r])
  <1>1. /\ Calls[r] = [op |-> op, incident |-> i, step |-> s,
                       org |-> request[r].org,
                       statuses |-> seen[r].statuses, steps |-> seen[r].steps]
        /\ TakesEffect(r, snap.status, snap.step,
                       op = "complete" /\ request[r].phase = "link")
        /\ org' = org /\ Viewed(request[r], seen[r])
        /\ request[r].pc = "save"
    BY SaveFacts
  <1>2. /\ links' = links
        /\ s \in RequiresEvidence => links[i][s] # {}
    BY SavedLinksAre
  <1>3. /\ snap.status \in seen[r].statuses \ {"absent"}
        /\ \E v \in seen[r].steps : snap.step = [v EXCEPT ![s] = "done"]
    BY <1>1 DEF Viewed
  <1>4. request[r].completing /\ Pending(request[r])
    BY <1>1 DEF TypeInv, WellFormed, Pending
  <1>5. op = "complete"
    BY <1>4 DEF OperationOf
  <1>6. /\ "open" \in seen[r].statuses
        /\ \E v \in seen[r].steps : v[s] # "done"
    BY <1>4, CompletingSeen
  <1> HIDE DEF i, s, snap, op
  <1>7. /\ Calls[r].op = op /\ Calls[r].incident = i /\ Calls[r].step = s
        /\ Calls[r].statuses = seen[r].statuses
        /\ Calls[r].steps = seen[r].steps
    BY <1>1
  <1>8. TakesEffect(r, snap.status, snap.step, FALSE)
    BY <1>1 DEF TakesEffect, CallsAfter
  <1>9. \E st \in Calls[r].statuses \ {"absent"}, v \in Calls[r].steps :
            TakesEffect(r, st, [v EXCEPT ![Calls[r].step] = "done"], FALSE)
    <2>1. PICK v \in seen[r].steps : snap.step = [v EXCEPT ![s] = "done"]
      BY <1>3
    <2>2. TakesEffect(r, snap.status, [v EXCEPT ![Calls[r].step] = "done"],
                      FALSE)
      BY <1>7, <1>8, <2>1
    <2>3. /\ snap.status \in Calls[r].statuses \ {"absent"}
          /\ v \in Calls[r].steps
      BY <1>3, <1>7
    <2> USE <2>3
    <2> WITNESS snap.status \in Calls[r].statuses \ {"absent"},
                v \in Calls[r].steps
    <2> QED
      BY <2>2
  <1>10. Lifecycle!Complete(r)
    BY <1>1, <1>2, <1>5, <1>6, <1>7, <1>9
       DEF Lifecycle!Complete, Lifecycle!TakesEffect, Lifecycle!Concerns,
           Lifecycle!NoCall, Lifecycle!Operations, TakesEffect, CallsAfter,
           Calls, CallOf, Pending, OperationOf
  <1> QED
    BY <1>10 DEF Lifecycle!Next

LEMMA CloseEffect ==
    ASSUME TypeInv, SafeInv, SeenInv, NEW r \in Requests, SaveIncident(r),
           request[r].phase = "close"
    PROVE  Lifecycle!Next
  <1> DEFINE i == request[r].incident
             snap == request[r].snap
             op == OperationOf(request[r])
  <1>1. /\ Calls[r] = [op |-> op, incident |-> i, step |-> request[r].step,
                       org |-> request[r].org,
                       statuses |-> seen[r].statuses, steps |-> seen[r].steps]
        /\ TakesEffect(r, snap.status, snap.step,
                       op = "complete" /\ request[r].phase = "link")
        /\ org' = org /\ Viewed(request[r], seen[r])
        /\ request[r].pc = "save"
    BY SaveFacts
  <1>2. links' = links
    BY SavedLinksAre
  <1>3. /\ "open" \in seen[r].statuses /\ snap.status = "closed"
        /\ snap.step \in seen[r].steps
    BY <1>1 DEF Viewed
  <1>4. op = "close"
    BY DEF OperationOf
  <1> HIDE DEF i, snap, op
  <1>5. /\ Calls[r].op = op /\ Calls[r].incident = i
        /\ Calls[r].statuses = seen[r].statuses
        /\ Calls[r].steps = seen[r].steps
    BY <1>1
  <1>6. TakesEffect(r, "closed", snap.step, FALSE)
    BY <1>1, <1>3 DEF TakesEffect, CallsAfter
  <1>7. \E v \in Calls[r].steps : TakesEffect(r, "closed", v, FALSE)
    BY <1>3, <1>5, <1>6
  <1>8. Lifecycle!Close(r)
    BY <1>1, <1>2, <1>3, <1>4, <1>5, <1>7
       DEF Lifecycle!Close, Lifecycle!TakesEffect, Lifecycle!Concerns,
           Lifecycle!NoCall, Lifecycle!Operations, TakesEffect, CallsAfter,
           Calls, CallOf, Pending, OperationOf
  <1> QED
    BY <1>8 DEF Lifecycle!Next

\* Everybody gives up when the process dies.
LEMMA CrashEffect ==
    ASSUME Crash
    PROVE  Lifecycle!Next
  <1>1. /\ request' = [r \in Requests |-> Idle]
        /\ UNCHANGED <<status, org, step, links>>
    BY DEF Crash, tables
  <1>2. \A r \in Requests : CallOf(request'[r], seen'[r]) = [op |-> "none"]
    BY <1>1, IdleSeen DEF CallOf
  <1>3. Calls' = [r \in Requests |-> [op |-> "none"]]
    BY <1>2, CallsAre
  <1>4. Lifecycle!AllGivenUp
    BY <1>1, <1>3
       DEF Lifecycle!AllGivenUp, Lifecycle!NoCall, Lifecycle!tables,
           Calls, CallOf, Pending, OperationOf
  <1> QED
    BY <1>4 DEF Lifecycle!Next

\* An append is seen by nobody: the client was answered by the save, or the
\* completion goes on.
LEMMA AppendEffect ==
    ASSUME TypeInv, NEW r \in Requests, AppendAudit(r)
    PROVE  [Lifecycle!Next]_(Lifecycle!vars)
  <1>1. /\ request[r].pc = "audit" /\ UNCHANGED tables
        /\ \E next \in IF request[r].phase = "link" THEN AfterLink(r)
                       ELSE {Idle} : Turns(r, next)
    BY DEF AppendAudit
  <1>2. CASE Turns(r, Idle)
    BY <1>1, <1>2, CallEnds
  <1>3. CASE ~Turns(r, Idle)
    <2>1. /\ request[r].phase = "link" /\ request[r].completing
          /\ \E next \in Continue(r) : Turns(r, next)
      BY <1>1, <1>3 DEF AfterLink
    <2>2. PICK next \in Continue(r) : Turns(r, next)
      BY <2>1
    <2>3. next.pc = "row" /\ SameCall(next, request[r])
      BY <2>1, ContinueFacts
    <2>4. Pending(next) /\ Pending(request[r])
      BY <1>1, <2>1, <2>3 DEF Pending
    <2> QED
      BY <1>1, <2>2, <2>3, <2>4, CallStays
  <1> QED
    BY <1>2, <1>3

LEMMA LifecycleStep ==
    ASSUME TypeInv, SafeInv, SeenInv, [Next]_vars
    PROVE  [Lifecycle!Next]_(Lifecycle!vars)
  <1>1. ASSUME NEW r \in Requests, Plain(r)
        PROVE  [Lifecycle!Next]_(Lifecycle!vars)
    <2>1. PICK state :
              /\ Becomes(r, state)
              /\ Pending(request[r])
              /\ \/ state = Idle
                 \/ /\ state.pc \in {"row", "steps", "links", "save"}
                    /\ SameCall(state, request[r])
      BY <1>1, PlainMoves
    <2>2. Turns(r, state) /\ UNCHANGED tables
      BY <2>1 DEF Becomes
    <2>3. CASE state = Idle
      BY <2>2, <2>3, CallEnds
    <2>4. CASE state # Idle
      <3>1. Pending(state)
        BY <2>1, <2>4 DEF Pending
      <3> QED
        BY <2>1, <2>2, <2>4, <3>1, CallStays
    <2> QED
      BY <2>3, <2>4
  <1>2. ASSUME NEW r \in Requests, SaveIncident(r)
        PROVE  Lifecycle!Next
    BY <1>2, SaveFacts, LinkEffect, CompleteEffect, CloseEffect
  <1>3. ASSUME NEW r \in Requests, QueryFails(r)
        PROVE  [Lifecycle!Next]_(Lifecycle!vars)
    BY <1>3, CallEnds DEF QueryFails
  <1>4. ASSUME (\E e \in Evidence : RegisterEvidence(e)) \/ UNCHANGED vars
        PROVE  UNCHANGED Lifecycle!vars
    <2>1. UNCHANGED <<request, seen, status, org, step, links>>
      BY <1>4 DEF RegisterEvidence, vars, tables
    <2>2. Calls' = Calls
      BY <2>1, CallsAre DEF Calls
    <2> QED
      BY <2>1, <2>2
         DEF Lifecycle!vars, Lifecycle!tables, Calls, CallOf, Pending,
             OperationOf
  <1> QED
    BY <1>1, <1>2, <1>3, <1>4, AskStep, OpenEffect, AppendEffect,
       CrashEffect, StepKinds

LEMMA LifecycleInit == Init => SeenInv /\ Lifecycle!Init
  <1> SUFFICES ASSUME Init PROVE SeenInv /\ Lifecycle!Init
    OBVIOUS
  <1>1. \A r \in Requests : request[r] = Idle
    BY DEF Init
  <1>2. SeenInv
    BY <1>1 DEF Idle, SeenInv, Viewed, UpToDate, LinksReady, Pending
  <1>3. Calls = [r \in Requests |-> [op |-> "none"]]
    BY <1>1, IdleSeen DEF Calls, CallOf
  <1>4. Lifecycle!Init
    BY <1>3
       DEF Init, Lifecycle!Init, Lifecycle!NoCall, Calls, CallOf, Pending,
           OperationOf
  <1> QED
    BY <1>2, <1>4

\* README.md:178 ("open -> complete step -> close"): for any requests that
\* overlap, fail and are cut by crashes, the API implements
\* IncidentLifecycle: every operation takes effect at once, on a status and
\* on step statuses that the incident has had since the request was received.
THEOREM LifecycleImplemented == Spec => LifecycleSpec
  <1>1. TypeInv /\ SafeInv /\ SeenInv /\ [Next]_vars
            => SeenInv' /\ [Lifecycle!Next]_(Lifecycle!vars)
    BY SeenStep, LifecycleStep
  <1> QED
    BY <1>1, LifecycleInit, SafeInvariant, PTL
       DEF Spec, LifecycleSpec, Lifecycle!Spec

=============================================================================
