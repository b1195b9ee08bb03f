---------------------------- MODULE TrustCenter ----------------------------
(***************************************************************************)
(* The Trust Center (apps/api/src/trust) over the Postgres store.  Each    *)
(* request reads the row of a center, decides, and upserts the whole row   *)
(* it read, so a patch that overlaps a publication or a withdrawal writes  *)
(* back the status it read.  Attestations have no writer: the set of       *)
(* centers with an attested control is a constant.                         *)
(***************************************************************************)
EXTENDS Naturals

CONSTANTS
    Centers,    \* organisations with a row in trust_centers
    Attested,   \* the ones with at least one attested control
    Seed,       \* the rows that the first start inserts
    Patches,    \* the patches that requests may carry
    Requests,   \* requests served at the same time
    MayFail,    \* whether queries may fail
    Null

\* named: the name is not blank; ack: disclaimer_ack.
Center == [status: {"draft", "published"}, named: BOOLEAN, ack: BOOLEAN]

\* A patch names the new values; Null leaves a field as it is.
Patch == [named: BOOLEAN \cup {Null}, ack: BOOLEAN \cup {Null}]

ASSUME TrustAssumption ==
    /\ Attested \subseteq Centers
    /\ Seed \in [Centers -> Center]
    /\ Patches \subseteq Patch
    /\ MayFail \in BOOLEAN
    /\ Null \notin Centers \cup Center \cup BOOLEAN \cup Patch

VARIABLES
    center,     \* trust_centers, by organisation
    request,    \* the requests in progress
    audit,      \* the actions in audit_events, by organisation
    seen        \* history: the rows that the center of a request has had
                \* since it was received, until it saves or is refused

vars == <<center, request, audit, seen>>

Operations == {"patch", "publish", "unpublish"}
Actions == {"trust.draft.updated", "trust.published", "trust.unpublished"}

\* snap: the row to save; after the save, the row to answer with.
Request == [pc: {"idle", "load", "save", "reread", "audit"},
            op: Operations \cup {Null}, center: Centers \cup {Null},
            patch: Patch \cup {Null}, snap: Center \cup {Null}]

Idle == [pc |-> "idle", op |-> Null, center |-> Null, patch |-> Null,
         snap |-> Null]

Init ==
    /\ center = Seed
    /\ request = [r \in Requests |-> Idle]
    /\ audit = [c \in Centers |-> {}]
    /\ seen = [r \in Requests |-> {}]

-----------------------------------------------------------------------------
(* Steps of a request. *)

\* Received, and not yet saved or refused.
Pending(q) == q.pc \in {"load", "save"}

Becomes(r, state) ==
    /\ request' = [request EXCEPT ![r] = state]
    /\ seen' = [seen EXCEPT ![r] = IF Pending(state) THEN @ ELSE {}]
    /\ UNCHANGED <<center, audit>>

Start(r, c, op, patch) ==
    /\ request[r].pc = "idle"
    /\ request' = [request EXCEPT ![r] =
           [Idle EXCEPT !.pc = "load", !.op = op, !.center = c,
                        !.patch = patch]]
    /\ seen' = [seen EXCEPT ![r] = {center[c]}]
    /\ UNCHANGED <<center, audit>>

Receive(r, c) ==
    \/ Start(r, c, "publish", Null)
    \/ Start(r, c, "unpublish", Null)
    \/ \E patch \in Patches : Start(r, c, "patch", patch)

Row(r) == center[request[r].center]

Loaded(r, op) == request[r].pc = "load" /\ request[r].op = op

Save(r, row) == Becomes(r, [request[r] EXCEPT !.pc = "save", !.snap = row])

\* evaluateTrustPublishChecklist.
ChecklistReady(c, row) == row.named /\ c \in Attested /\ row.ack

\* Fault: the checklist is not evaluated.
PublishableUngated(r) == Row(r).status # "published"

\* publish: refused when public already; the acknowledgement comes with the
\* request and is set before the checklist is evaluated.
Publishable(r) ==
    /\ Row(r).status # "published"
    /\ ChecklistReady(request[r].center, [Row(r) EXCEPT !.ack = TRUE])

LoadPublish(r) ==
    /\ Loaded(r, "publish")
    /\ IF Publishable(r)
       THEN Save(r, [Row(r) EXCEPT !.status = "published", !.ack = TRUE])
       ELSE Becomes(r, Idle)

\* Fault: a withdrawal of a draft changes nothing, but it is audited.
LoadUnpublishAgain(r) ==
    /\ Loaded(r, "unpublish")
    /\ IF Row(r).status = "published"
       THEN Save(r, [Row(r) EXCEPT !.status = "draft"])
       ELSE Becomes(r, [request[r] EXCEPT !.pc = "audit"])

LoadUnpublish(r) ==
    /\ Loaded(r, "unpublish")
    /\ IF Row(r).status = "published"
       THEN Save(r, [Row(r) EXCEPT !.status = "draft"])
       ELSE Becomes(r, Idle)

\* Fault: a draft that becomes complete is published at once.
PatchedAndPublished(row, patch) ==
    [row EXCEPT
        !.status = IF row.named /\ patch.ack = TRUE THEN "published" ELSE @,
        !.ack = IF patch.ack = Null THEN @ ELSE patch.ack]

\* Fault: the fields that a patch leaves out are overwritten too.
PatchedEntirely(row, patch) ==
    [row EXCEPT !.named = patch.named, !.ack = patch.ack]

Patched(row, patch) ==
    [row EXCEPT !.named = IF patch.named = Null THEN @ ELSE patch.named,
                !.ack = IF patch.ack = Null THEN @ ELSE patch.ack]

\* patchDraft reads twice; the first read only finds that the row exists.
LoadPatch(r) ==
    /\ Loaded(r, "patch")
    /\ Save(r, Patched(Row(r), request[r].patch))

\* The other requests on the center that are pending see the row as well.
Sees(q, r) == Pending(request[q]) /\ request[q].center = request[r].center

\* saveTrust: one INSERT ... ON CONFLICT DO UPDATE of every column.
SaveTrust(r) ==
    /\ request[r].pc = "save"
    /\ center' = [center EXCEPT ![request[r].center] = request[r].snap]
    /\ request' = [request EXCEPT ![r] = [@ EXCEPT !.pc = "reread",
                                                  !.snap = Null]]
    /\ seen' = [q \in Requests |->
                    IF q = r THEN {}
                    ELSE IF Sees(q, r) THEN seen[q] \cup {request[r].snap}
                    ELSE seen[q]]
    /\ UNCHANGED audit

\* The rest of saveTrust: the answer is the row as it is by then.
Reread(r) ==
    /\ request[r].pc = "reread"
    /\ Becomes(r, [request[r] EXCEPT !.pc = "audit", !.snap = Row(r)])

ActionOf(op) ==
    CASE op = "patch" -> "trust.draft.updated"
      [] op = "publish" -> "trust.published"
      [] OTHER -> "trust.unpublished"

AppendAudit(r) ==
    /\ request[r].pc = "audit"
    /\ audit' = [audit EXCEPT ![request[r].center] =
                     @ \cup {ActionOf(request[r].op)}]
    /\ request' = [request EXCEPT ![r] = Idle]
    /\ UNCHANGED <<center, seen>>

\* A query fails, or the process stops with the requests it serves.
QueryFails(r) ==
    /\ MayFail
    /\ request[r].pc # "idle"
    /\ Becomes(r, Idle)

Serve(r) ==
    \/ LoadPublish(r) \/ LoadUnpublish(r) \/ LoadPatch(r)
    \/ SaveTrust(r) \/ Reread(r) \/ AppendAudit(r)

Next ==
    \E r \in Requests :
        \/ \E c \in Centers : Receive(r, c)
        \/ Serve(r)
        \/ QueryFails(r)

Spec == Init /\ [][Next]_vars

-----------------------------------------------------------------------------
(* Properties. *)

TypeOK ==
    /\ center \in [Centers -> Center]
    /\ request \in [Requests -> Request]
    /\ audit \in [Centers -> SUBSET Actions]
    /\ seen \in [Requests -> SUBSET Center]

\* A center that has no attested control, and was not seeded as public,
\* never is: patches and withdrawals that overlap write back whole rows, but
\* no row they can have read was public.
NeverPublicUnattested ==
    \A c \in Centers :
        center[c].status = "published"
        => c \in Attested \/ Seed[c].status = "published"

\* However requests overlap and fail, a center becomes public by the save of
\* a publication, of a row with the whole checklist satisfied ("Publish gated
\* checklist V1", trust.service.ts:81), or by that of a patch received before
\* the center was withdrawn, which puts back what it read
\* (postgres.domain-store.ts:524-535).
GatedSave(r, c) ==
    /\ request[r].pc = "save" /\ request'[r].pc # "save"
    /\ request[r].center = c
    /\ \/ request[r].op = "publish" /\ ChecklistReady(c, center'[c])
       \/ /\ request[r].op = "patch"
          /\ \E row \in seen[r] : row.status = "published"

GatedPublication ==
    [][\A c \in Centers :
           center[c].status = "draft" /\ center'[c].status = "published"
           => \E r \in Requests : GatedSave(r, c)]_vars

\* The audit trail never tells what cannot have happened (RG-15): a
\* publication that passed no checklist, or a withdrawal of a center that was
\* never public, although the event is written last, after the row that the
\* request saved may have been replaced (trust.service.ts:117-160).
AuditTellsTruth ==
    \A c \in Centers :
        /\ "trust.published" \in audit[c] => c \in Attested
        /\ "trust.unpublished" \in audit[c]
               => c \in Attested \/ Seed[c].status = "published"

\* A center becomes public only while a publish request is served: "Publish
\* n'est jamais automatique" (trust/dto/publish-trust.dto.ts:5).
OnlyByPublish ==
    [][\A c \in Centers :
           center[c].status = "draft" /\ center'[c].status = "published"
           => \E r \in Requests :
                  request[r].op = "publish" /\ request[r].center = c]_vars

\* The API as its clients understand it, however many call it at once.
Lifecycle ==
    INSTANCE TrustLifecycle WITH
        Clients <- Requests,
        call <- [r \in Requests |->
                    IF Pending(request[r])
                    THEN [op |-> request[r].op, center |-> request[r].center,
                          seen |-> seen[r]]
                    ELSE [op |-> "none"]]

LifecycleSpec == Lifecycle!Spec

=============================================================================
