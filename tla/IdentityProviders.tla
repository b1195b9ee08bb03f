-------------------------- MODULE IdentityProviders --------------------------
(***************************************************************************)
(* The identity providers and members of one organisation                  *)
(* (apps/api/src/sso, the administration side) over the Postgres store.    *)
(* Each operation checks the caller, reads the current provider, and then  *)
(* writes by the id it read, one query at a time and without a             *)
(* transaction; a test waits for the provider in between.  A partial       *)
(* unique index keeps two providers from being in use at once              *)
(* (005_sso.sql:32); the query that would break it fails.                  *)
(***************************************************************************)
EXTENDS Naturals

CONSTANTS
    Providers,  \* ids of providers that the clock may produce (idp_<ms>)
    Configs,    \* what an administrator may configure
    NeedsSecret,\* the OIDC ones, the others are SAML
    Users,
    Founders,   \* users with a magic-link session of the organisation
    FirstRoles, \* who may be a member already, with the role assigned
    Requests,   \* administration requests served at the same time
    Presets,    \* the ones that the environment configures
    Null

Roles == {"owner", "admin", "member", "viewer"}

ASSUME ProvidersAssumption ==
    /\ Presets \subseteq NeedsSecret /\ NeedsSecret \subseteq Configs
    /\ Founders \subseteq Users
    /\ FirstRoles \subseteq [Users -> Roles \cup {Null}]
    /\ Null \notin Providers \cup Configs \cup Users \cup Roles

VARIABLES
    idp,        \* org_identity_providers, Null without a row
    member,     \* org_members, Null without a row
    request,    \* administration requests in progress
    appointed   \* history: the last role that each member was given

adminVars == <<idp, member, request, appointed>>

Statuses == {"draft", "testing", "connected", "error", "revoked"}
Rows == [status: Statuses, config: Configs, secret: BOOLEAN]
Members == [role: Roles, pending: BOOLEAN]

\* A new member is no administrator, until one assigns a role.
NewMember == [role |-> "member", pending |-> TRUE]
Assigned(role) == [role |-> role, pending |-> FALSE]

Ops == {"get", "upsert", "test", "revoke", "role", "preset"}

ASSUME NullAssumption == Null \notin Rows \cup Members \cup Statuses \cup Ops

\* "ok" and "failed": the answer is on its way to the client.
Pcs == {"idle", "access", "current", "retire", "write", "testing", "probe",
        "verdict", "assign", "ok", "failed"}

Patches == [config: Configs, secret: BOOLEAN]
Appointments == [user: Users, role: Roles]

\* data: what an operation was asked to write; row: what it answers.
RequestStates ==
    [pc: Pcs, op: Ops \cup {Null}, user: Users \cup {Null},
     id: Providers \cup {Null}, data: Patches \cup Appointments \cup {Null},
     row: Rows \cup {Null}, verdict: {"connected", "error", "revoked", Null}]

Idle == [pc |-> "idle", op |-> Null, user |-> Null, id |-> Null,
         data |-> Null, row |-> Null, verdict |-> Null]

AdminInit ==
    /\ idp = [p \in Providers |-> Null]
    /\ appointed \in FirstRoles
    /\ member = [u \in Users |-> IF appointed[u] = Null THEN Null
                               ELSE Assigned(appointed[u])]
    /\ request = [r \in Requests |-> Idle]

\* The rows of the unique index.
Live == {p \in Providers : idp[p] # Null /\ idp[p].status # "revoked"}

-----------------------------------------------------------------------------
(* Steps of a request. *)

At(r, pc) == request[r].pc = pc

Becomes(r, state) ==
    /\ request' = [request EXCEPT ![r] = state]
    /\ UNCHANGED <<idp, member, appointed>>

Moves(r, pc) ==
    Becomes(r, IF pc = "failed"
               THEN [Idle EXCEPT !.pc = "failed", !.op = request[r].op]
               ELSE [request[r] EXCEPT !.pc = pc])

Ask(r, op, user, data) ==
    /\ At(r, "idle")
    /\ Becomes(r, [Idle EXCEPT !.pc = "access", !.op = op, !.user = user,
                               !.data = data])

\* A visitor of the login page starts a preset of the environment, which is
\* saved as a provider of its own.  The controller refuses it in production
\* when the request names no provider; naming one that does not exist makes
\* no difference to what follows.
StartPreset(r) ==
    /\ At(r, "idle")
    /\ \E c \in Presets :
           Becomes(r, [Idle EXCEPT !.pc = "current", !.op = "preset",
                                   !.data = [config |-> c, secret |-> TRUE]])

\* The row of a member counts before the session, in which a magic-link
\* user is an owner.
MayConfigure(user) ==
    IF member[user] = Null THEN user \in Founders
    ELSE member[user].role \in {"owner", "admin"}

\* Reading takes any row, or a session of the organisation.
MayRead(user) == member[user] # Null \/ user \in Founders

\* Fault: the current provider is the latest one, even if it is revoked.
LatestProvider == {p \in Providers : idp[p] # Null}

\* getIdp: the provider that is not revoked.
CurrentProvider == Live

Refuse(r) ==
    LET q == request[r] IN
    /\ At(r, "access")
    /\ ~(IF q.op = "get" THEN MayRead(q.user) ELSE MayConfigure(q.user))
    /\ Moves(r, "failed")

\* The check of the caller and the query that follows it are one step.
ReadCurrent(r) ==
    LET q == request[r]
        found == CurrentProvider
        reads == \/ At(r, "access") /\ q.op = "get" /\ MayRead(q.user)
                 \/ At(r, "access") /\ MayConfigure(q.user)
                 \/ At(r, "current")
    IN
    /\ reads
    /\ \/ /\ q.op = "get"
          /\ Becomes(r, [q EXCEPT !.pc = "ok",
                 !.row = IF found = {} THEN Null
                         ELSE idp[CHOOSE p \in found : TRUE]])
       \/ /\ q.op \in {"test", "revoke"}
          /\ found = {}
          /\ Moves(r, "failed")
       \/ /\ q.op \in {"test", "revoke"}
          /\ \E p \in found :
                 Becomes(r, IF q.op = "test"
                            THEN [q EXCEPT !.pc = "testing", !.id = p]
                            ELSE [q EXCEPT !.pc = "verdict", !.id = p,
                                           !.verdict = "revoked"])
       \/ /\ q.op = "upsert" /\ found # {}
          /\ \E p \in found : Becomes(r, [q EXCEPT !.pc = "retire", !.id = p])
       \* Every preset, and an upsert without a current one, takes a new id.
       \/ /\ q.op = "preset" \/ (q.op = "upsert" /\ found = {})
          /\ \E p \in {x \in Providers : idp[x] = Null} :
                 Becomes(r, [q EXCEPT !.pc = "retire", !.id = p])

\* The members are read by a page that needs no more of them here.
AllowAssign(r) ==
    /\ At(r, "access")
    /\ request[r].op = "role"
    /\ MayConfigure(request[r].user)
    /\ Moves(r, "assign")

\* upsertIdp, second query: the other providers are revoked.
RetireOthers(r) ==
    LET retired == Live \ {request[r].id} IN
    /\ At(r, "retire")
    /\ idp' = [p \in Providers |->
                  IF p \in retired THEN [idp[p] EXCEPT !.status = "revoked"]
                  ELSE idp[p]]
    /\ request' = [request EXCEPT ![r].pc = "write"]
    /\ UNCHANGED <<member, appointed>>

\* What the third query makes of the row: without a secret it keeps the one
\* that is there.
Written(q) ==
    [status |-> IF q.op = "preset" THEN "connected" ELSE "draft",
     config |-> q.data.config,
     secret |-> q.data.secret \/ (idp[q.id] # Null /\ idp[q.id].secret)]

\* A row in use is written unless the index holds another one.
Store(r, row, next) ==
    LET id == request[r].id IN
    IF row.status # "revoked" /\ Live \ {id} # {}
    THEN Moves(r, "failed")
    ELSE /\ idp' = [idp EXCEPT ![id] = row]
         /\ request' = [request EXCEPT ![r] = next]
         /\ UNCHANGED <<member, appointed>>

\* The answer, which needs the id and what was asked no more.
Done(q, row) == [q EXCEPT !.pc = "ok", !.id = Null, !.data = Null, !.row = row]

WriteProvider(r) ==
    LET row == Written(request[r]) IN
    /\ At(r, "write")
    /\ Store(r, row, Done(request[r], row))

MarkTesting(r) ==
    LET row == idp[request[r].id] IN
    /\ At(r, "testing")
    /\ Store(r, [row EXCEPT !.status = "testing"],
             [request[r] EXCEPT !.pc = "probe"])

\* Fault: the result of the probe is stored as it is.
ProbeResult(r) ==
    /\ At(r, "probe")
    /\ \E v \in {"ok", "error"} :
           Becomes(r, [request[r] EXCEPT !.pc = "verdict", !.verdict = v])

\* The provider is asked with the configuration that was read; the answer
\* takes any time and says anything.
Probe(r) ==
    /\ At(r, "probe")
    /\ \E v \in {"connected", "error"} :
           Becomes(r, [request[r] EXCEPT !.pc = "verdict", !.verdict = v])

\* updateIdpStatus by id, whatever became of the row meanwhile.
StoreVerdict(r) ==
    LET row == idp[request[r].id] IN
    /\ At(r, "verdict")
    /\ Store(r, [row EXCEPT !.status = request[r].verdict],
             Done(request[r], Null))

AssignRole(r) ==
    LET u == request[r].data.user
        role == request[r].data.role
    IN
    /\ At(r, "assign")
    /\ IF member[u] = Null THEN Moves(r, "failed")
       ELSE /\ member' = [member EXCEPT ![u] = Assigned(role)]
            /\ appointed' = [appointed EXCEPT ![u] = role]
            /\ request' = [request EXCEPT ![r] = Done(@, Null)]
            /\ UNCHANGED idp

\* A query fails, or the process dies while it serves the request.
RequestFails(r) ==
    /\ request[r].pc \notin {"idle", "ok", "failed"}
    /\ Moves(r, "failed")

Serve(r) ==
    \/ Refuse(r) \/ ReadCurrent(r) \/ RetireOthers(r) \/ WriteProvider(r)
    \/ MarkTesting(r) \/ Probe(r) \/ StoreVerdict(r)
    \/ AllowAssign(r) \/ AssignRole(r)

Answered(r) == request[r].pc \in {"ok", "failed"}

\* The preset is answered to the visitor, who goes on to log in with it.
PresetDone(r) ==
    /\ Answered(r) /\ request[r].op = "preset"
    /\ Becomes(r, Idle)

=============================================================================
