------------------------- MODULE IncidentLifecycle -------------------------
(***************************************************************************)
(* What the incidents API promises its clients, who may call it at once:   *)
(* open -> complete step -> close (README.md:178).  Each operation takes   *)
(* effect in one transaction, on a status and on step statuses that the    *)
(* incident had at some time between the call and the effect: not always   *)
(* on those that it has, and not always on two of the same time.  Links    *)
(* are only added.  A completion may link evidence first, more than once,  *)
(* and be given up in between.                                             *)
(***************************************************************************)
CONSTANTS Incidents, Steps, RequiresEvidence, Orgs, Evidence, EvidenceOrg,
          Clients, Null

VARIABLES
    status, org, step, links,   \* the incidents
    call                        \* what each client is waiting for

tables == <<status, org, step, links>>

vars == <<status, org, step, links, call>>

Operations == {"open", "link", "complete", "close"}

NoCall == [op |-> "none"]

Init ==
    /\ status = [i \in Incidents |-> "absent"]
    /\ org = [i \in Incidents |-> Null]
    /\ step = [i \in Incidents |-> [s \in Steps |-> "pending"]]
    /\ links = [i \in Incidents |-> [s \in Steps |-> {}]]
    /\ call = [r \in Clients |-> NoCall]

\* statuses, steps: what the incident has been since the call.
Ask(r, op, i, s, o) ==
    call' = [call EXCEPT ![r] =
        [op |-> op, incident |-> i, step |-> s, org |-> o,
         statuses |-> {status[i]}, steps |-> {step[i]}]]

Asks(r) ==
    /\ call[r] = NoCall
    /\ UNCHANGED tables
    /\ \E i \in Incidents :
           \/ \E o \in Orgs : Ask(r, "open", i, Null, o)
           \/ \E s \in Steps, op \in {"link", "complete"} :
                  Ask(r, op, i, s, Null)
           \/ Ask(r, "close", i, Null, Null)

Concerns(q, i) == call[q].op \in Operations /\ call[q].incident = i

\* The status and the step statuses become those, in the sight of the clients
\* who wait for the incident; the call of r is answered unless it goes on.
TakesEffect(r, st, v, goesOn) ==
    LET i == call[r].incident IN
    /\ status' = [status EXCEPT ![i] = st]
    /\ step' = [step EXCEPT ![i] = v]
    /\ call' = [q \in Clients |->
                    IF q = r /\ ~goesOn THEN NoCall
                    ELSE IF Concerns(q, i)
                    THEN [call[q] EXCEPT !.statuses = @ \cup {st},
                                         !.steps = @ \cup {v}]
                    ELSE call[q]]

\* An incident is opened once, whoever else asks.
Open(r) ==
    LET i == call[r].incident IN
    /\ call[r].op = "open"
    /\ status[i] = "absent"
    /\ TakesEffect(r, "open", step[i], FALSE)
    /\ org' = [org EXCEPT ![i] = call[r].org]
    /\ UNCHANGED links

\* Evidence of the same organisation, for an incident that was open.
Link(r, e) ==
    LET i == call[r].incident IN
    /\ call[r].op \in {"link", "complete"}
    /\ EvidenceOrg[e] = org[i]
    /\ "open" \in call[r].statuses
    /\ links' = [links EXCEPT ![i][call[r].step] = @ \cup {e}]
    /\ \E v \in call[r].steps :
           TakesEffect(r, "open", v, call[r].op = "complete")
    /\ UNCHANGED org

\* The incident was open, the step pending, and the evidence is there.
Complete(r) ==
    LET i == call[r].incident
        s == call[r].step
    IN
    /\ call[r].op = "complete"
    /\ "open" \in call[r].statuses
    /\ \E v \in call[r].steps : v[s] # "done"
    /\ s \in RequiresEvidence => links[i][s] # {}
    /\ \E st \in call[r].statuses \ {"absent"}, v \in call[r].steps :
           TakesEffect(r, st, [v EXCEPT ![s] = "done"], FALSE)
    /\ UNCHANGED <<org, links>>

Close(r) ==
    /\ call[r].op = "close"
    /\ "open" \in call[r].statuses
    /\ \E v \in call[r].steps : TakesEffect(r, "closed", v, FALSE)
    /\ UNCHANGED <<org, links>>

\* A call is refused, or fails, or stops half-way.
GivenUp(r) ==
    /\ call[r] # NoCall
    /\ UNCHANGED tables
    /\ call' = [call EXCEPT ![r] = NoCall]

\* All of them stop there.
AllGivenUp ==
    /\ UNCHANGED tables
    /\ call' = [r \in Clients |-> NoCall]

Next ==
    \/ \E r \in Clients :
           \/ Asks(r)
           \/ Open(r) \/ Complete(r) \/ Close(r) \/ GivenUp(r)
           \/ \E e \in Evidence : Link(r, e)
    \/ AllGivenUp

Spec == Init /\ [][Next]_vars

=============================================================================
