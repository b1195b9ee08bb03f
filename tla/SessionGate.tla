---------------------------- MODULE SessionGate ----------------------------
(***************************************************************************)
(* Magic links, sessions and the onboarding gate (apps/api/src/auth,       *)
(* session, onboarding, orgs).  Links, sessions and the organisation of a  *)
(* user are Redis keys; the organisations are an array of the process,     *)
(* copied to Postgres and searched there when the array knows none.  A     *)
(* request awaits each of them, and requests interleave at every await.    *)
(***************************************************************************)
EXTENDS Naturals

CONSTANTS
    Users,
    Tokens,     \* the tokens of the links, drawn at random
    TokenUser,  \* the user each link is sent to
    Sessions,   \* session ids, drawn at random
    Orgs,       \* organisation ids
    SeedOrgs,   \* in the array when the process starts; org_acme is one
    Requests,   \* requests served at the same time
    MayFail,    \* whether calls may fail and the process may crash
    Null

ASSUME SessionAssumption ==
    /\ TokenUser \in [Tokens -> Users]
    /\ SeedOrgs \subseteq Orgs
    /\ MayFail \in BOOLEAN
    /\ Null \notin Users \cup Tokens \cup Sessions \cup Orgs

Record == [user: Users, org: Orgs \cup {Null}, completed: BOOLEAN]

ASSUME NullIsNoRecord == Null \notin Record

VARIABLES
    token,      \* magic:<hash>
    session,    \* session:<id>
    userOrg,    \* user_org:<id>
    memory,     \* organizations, in memory
    table,      \* table orgs
    request,    \* the requests in progress
    origin,     \* history: the link that each session was created for
    onboarded   \* history: the organisations whose onboarding was completed

redis == <<token, session, userOrg>>
orgs == <<memory, table>>
history == <<origin, onboarded>>
vars == <<redis, orgs, request, history>>

OrgStates == {"absent", "open", "completed"}

Pcs == {"idle", "take", "guard", "userOrg", "select", "cached", "store",
        "persist", "remember", "reload", "save"}

\* "guarded": a route behind OnboardingGuard, or GET /me.
Operations == {"verify", "guarded", "complete", "create"}

Request ==
    [pc: Pcs, op: Operations \cup {Null}, token: Tokens \cup {Null},
     session: Sessions \cup {Null}, user: Users \cup {Null},
     org: Orgs \cup {Null}, completed: BOOLEAN, loaded: Record \cup {Null}]

Idle == [pc |-> "idle", op |-> Null, token |-> Null, session |-> Null,
         user |-> Null, org |-> Null, completed |-> FALSE, loaded |-> Null]

Seed == [o \in Orgs |-> IF o \in SeedOrgs THEN "open" ELSE "absent"]

Init ==
    /\ token = [t \in Tokens |-> "unissued"]
    /\ session = [s \in Sessions |-> Null]
    /\ userOrg = [u \in Users |-> Null]
    /\ memory = Seed
    /\ table = Seed
    /\ request = [r \in Requests |-> Idle]
    /\ origin = [s \in Sessions |-> Null]
    /\ onboarded = {}

-----------------------------------------------------------------------------
(* Requests and the await they are at. *)

At(r, pc) == request[r].pc = pc

Moves(r, state) == request' = [request EXCEPT ![r] = state]

Becomes(r, state) ==
    Moves(r, state) /\ UNCHANGED <<redis, orgs, history>>

Start(r, state) == At(r, "idle") /\ Becomes(r, state)

Verify(r, t) ==
    /\ token[t] # "unissued"
    /\ Start(r, [Idle EXCEPT !.pc = "take", !.op = "verify", !.token = t,
                             !.user = TokenUser[t]])

\* A request that carries the cookie of session s.
Call(r, s, op) ==
    /\ origin[s] # Null
    /\ Start(r, [Idle EXCEPT !.pc = "guard", !.op = op, !.session = s])

-----------------------------------------------------------------------------
(* Organisations. *)

Present == {o \in Orgs : memory[o] # "absent"}

\* Fault: organisations whose onboarding is not completed are found too.
KnownInMemory(o) == IF o \in Present THEN {o} ELSE Present

\* findCompletedForHydration, in memory: the organisation asked for, or the
\* first that is completed.
CompletedInMemory(o) ==
    LET completed == {x \in Orgs : memory[x] = "completed"} IN
    IF o \in completed THEN {o} ELSE completed

CompletedInTable(o) ==
    {x \in Orgs : table[x] = "completed" /\ (o = Null \/ x = o)}

\* completeOnboarding: the organisation asked for, or else the one whose
\* slug is the submitted name's, or else org_acme.
Target(o) == IF o \in Present THEN {o} ELSE Present

Found(req, o) ==
    [req EXCEPT !.pc = IF req.op = "verify" THEN "store" ELSE "reload",
                !.org = o, !.completed = TRUE]

\* The organisation o to look for is known: what follows needs no await.
Continue(r, req, o) ==
    \/ /\ req.op = "complete"
       /\ \E target \in Target(o) :
              /\ memory' = [memory EXCEPT ![target] = "completed"]
              /\ onboarded' = onboarded \cup {target}
              /\ Moves(r, [req EXCEPT !.pc = "persist", !.org = target,
                                      !.completed = TRUE])
       /\ UNCHANGED <<redis, table, origin>>
    \/ /\ req.op # "complete"
       /\ IF CompletedInMemory(o) = {}
          THEN Becomes(r, [req EXCEPT !.pc = "select", !.org = o])
          ELSE \E x \in CompletedInMemory(o) : Becomes(r, Found(req, x))

\* findCompletedForHydration, in Postgres: a row found is merged into memory.
SelectFound(r) ==
    /\ At(r, "select")
    /\ \E x \in CompletedInTable(request[r].org) :
           /\ memory' = [memory EXCEPT ![x] = "completed"]
           /\ Moves(r, Found(request[r], x))
    /\ UNCHANGED <<redis, table, history>>

\* No row, or the query fails: none is completed.  A guarded request is
\* refused (403); a login goes on with the organisation last used.
SelectNone(r) ==
    /\ At(r, "select")
    /\ MayFail \/ CompletedInTable(request[r].org) = {}
    /\ Becomes(r, IF request[r].op = "verify"
                  THEN [request[r] EXCEPT !.pc = "cached"] ELSE Idle)

\* orgs.create: the array at once, the table later ("void").
CreateOrg(r, o) ==
    /\ At(r, "idle")
    /\ memory[o] = "absent" /\ table[o] = "absent"
    /\ \E s \in Sessions : session[s] # Null
    /\ memory' = [memory EXCEPT ![o] = "open"]
    /\ Moves(r, [Idle EXCEPT !.pc = "persist", !.op = "create", !.org = o])
    /\ UNCHANGED <<redis, table, history>>

Persisted(r) ==
    IF request[r].op = "create" THEN Idle
    ELSE [request[r] EXCEPT !.pc = "remember"]

\* persistOrg upserts the row as it was when it was called.
PersistOrg(r) ==
    /\ At(r, "persist")
    /\ table' = [table EXCEPT ![request[r].org] =
                     IF request[r].completed THEN "completed" ELSE "open"]
    /\ Moves(r, Persisted(r))
    /\ UNCHANGED <<redis, memory, history>>

\* Its errors are swallowed.
PersistFails(r) ==
    /\ MayFail
    /\ At(r, "persist")
    /\ Becomes(r, Persisted(r))

-----------------------------------------------------------------------------
(* Redis. *)

RequestLink(t) ==
    /\ token[t] = "unissued"
    /\ token' = [token EXCEPT ![t] = "live"]
    /\ UNCHANGED <<session, userOrg, orgs, request, history>>

\* Fault: the link is read, and left where it is.
ReadToken(r) ==
    /\ At(r, "take")
    /\ Becomes(r, IF token[request[r].token] = "live"
                  THEN [request[r] EXCEPT !.pc = "userOrg"] ELSE Idle)

\* GETDEL: one command reads the link and deletes it.
TakeToken(r) ==
    LET t == request[r].token IN
    /\ At(r, "take")
    /\ token' = [token EXCEPT ![t] = "gone"]
    /\ Moves(r, IF token[t] = "live"
                THEN [request[r] EXCEPT !.pc = "userOrg"] ELSE Idle)
    /\ UNCHANGED <<session, userOrg, orgs, history>>

\* SessionGuard answers 401, or the session shows the onboarding completed
\* and the guarded request goes through.
AnswerFromSession(r) ==
    LET record == session[request[r].session] IN
    /\ At(r, "guard")
    /\ record # Null => request[r].op = "guarded" /\ record.completed
    /\ Becomes(r, Idle)

\* Otherwise the operation runs up to its first await.
LoadSession(r) ==
    LET record == session[request[r].session]
        loaded == [request[r] EXCEPT !.user = record.user]
    IN
    /\ At(r, "guard")
    /\ record # Null
    /\ request[r].op = "guarded" => ~record.completed
    /\ IF record.org = Null
       THEN Becomes(r, [loaded EXCEPT !.pc = "userOrg"])
       ELSE Continue(r, loaded, record.org)

ReadUserOrg(r) ==
    /\ At(r, "userOrg")
    /\ Continue(r, request[r], userOrg[request[r].user])

ReadCached(r) ==
    /\ At(r, "cached")
    /\ Becomes(r, [request[r] EXCEPT !.pc = "store",
                                     !.org = userOrg[request[r].user]])

CreateSession(r) ==
    /\ At(r, "store")
    /\ \E s \in Sessions :
           /\ origin[s] = Null
           /\ origin' = [origin EXCEPT ![s] = request[r].token]
           /\ session' = [session EXCEPT ![s] =
                  [user |-> request[r].user, org |-> request[r].org,
                   completed |-> request[r].completed]]
    /\ Moves(r, Idle)
    /\ UNCHANGED <<token, userOrg, orgs, onboarded>>

\* A guarded request saves the session first, a completion last.
AfterUpdate(r) ==
    IF request[r].op = "guarded"
    THEN [request[r] EXCEPT !.pc = "remember", !.loaded = Null] ELSE Idle

RememberOrg(r) ==
    /\ At(r, "remember")
    /\ userOrg' = [userOrg EXCEPT ![request[r].user] = request[r].org]
    /\ Moves(r, IF request[r].op = "complete"
                THEN [request[r] EXCEPT !.pc = "reload"] ELSE Idle)
    /\ UNCHANGED <<token, session, orgs, history>>

\* Fault: a session that is gone is updated all the same.
ReloadUnchecked(r) ==
    /\ At(r, "reload")
    /\ Becomes(r, [request[r] EXCEPT !.pc = "save",
                                     !.loaded = session[request[r].session]])

\* Fault: a session that is gone is started again, from what the request knows.
ReloadOrRestart(r) ==
    LET record == session[request[r].session] IN
    /\ At(r, "reload")
    /\ Becomes(r, [request[r] EXCEPT !.pc = "save", !.loaded =
           IF record = Null
           THEN [user |-> request[r].user, org |-> Null, completed |-> FALSE]
           ELSE record])

\* SessionService.update reads the session ...
ReloadSession(r) ==
    LET record == session[request[r].session] IN
    /\ At(r, "reload")
    /\ Becomes(r, IF record = Null THEN AfterUpdate(r)
                  ELSE [request[r] EXCEPT !.pc = "save", !.loaded = record])

Mirrored(record, o) == [record EXCEPT !.org = o, !.completed = TRUE]

\* ... and writes it, whatever has become of it.
SaveSession(r) ==
    /\ At(r, "save")
    /\ session' = [session EXCEPT ![request[r].session] =
                       Mirrored(request[r].loaded, request[r].org)]
    /\ Moves(r, AfterUpdate(r))
    /\ UNCHANGED <<token, userOrg, orgs, history>>

Logout(s) ==
    /\ origin[s] # Null
    /\ session' = [session EXCEPT ![s] = Null]
    /\ UNCHANGED <<token, userOrg, orgs, request, history>>

LinkExpires(t) ==
    /\ token[t] = "live"
    /\ token' = [token EXCEPT ![t] = "gone"]
    /\ UNCHANGED <<session, userOrg, orgs, request, history>>

SessionExpires(s) ==
    /\ session[s] # Null
    /\ session' = [session EXCEPT ![s] = Null]
    /\ UNCHANGED <<token, userOrg, orgs, request, history>>

UserOrgExpires(u) ==
    /\ userOrg[u] # Null
    /\ userOrg' = [userOrg EXCEPT ![u] = Null]
    /\ UNCHANGED <<token, session, orgs, request, history>>

-----------------------------------------------------------------------------
\* A Redis command fails: the request is answered 500.
CallFails(r) ==
    /\ MayFail
    /\ request[r].pc \notin {"idle", "persist", "select"}
    /\ Becomes(r, Idle)

\* The process restarts: Redis and Postgres stay, the array does not.
Crash ==
    /\ MayFail
    /\ memory' = Seed
    /\ request' = [r \in Requests |-> Idle]
    /\ UNCHANGED <<redis, table, history>>

Receive(r) ==
    \/ \E t \in Tokens : Verify(r, t)
    \/ \E s \in Sessions : Call(r, s, "guarded") \/ Call(r, s, "complete")
    \/ \E o \in Orgs : CreateOrg(r, o)

Serve(r) ==
    \/ TakeToken(r) \/ AnswerFromSession(r) \/ LoadSession(r) \/ ReadUserOrg(r)
    \/ SelectFound(r) \/ SelectNone(r) \/ ReadCached(r) \/ CreateSession(r)
    \/ PersistOrg(r) \/ PersistFails(r) \/ RememberOrg(r)
    \/ ReloadSession(r) \/ SaveSession(r)

Next ==
    \/ \E r \in Requests : Receive(r) \/ Serve(r) \/ CallFails(r)
    \/ \E t \in Tokens : RequestLink(t) \/ LinkExpires(t)
    \/ \E s \in Sessions : Logout(s) \/ SessionExpires(s)
    \/ \E u \in Users : UserOrgExpires(u)
    \/ Crash

Spec == Init /\ [][Next]_vars

-----------------------------------------------------------------------------
(* Properties. *)

TypeOK ==
    /\ token \in [Tokens -> {"unissued", "live", "gone"}]
    /\ session \in [Sessions -> Record \cup {Null}]
    /\ userOrg \in [Users -> Orgs \cup {Null}]
    /\ memory \in [Orgs -> OrgStates] /\ table \in [Orgs -> OrgStates]
    /\ request \in [Requests -> Request]
    /\ \A r \in Requests : At(r, "save") => request[r].loaded # Null
    /\ origin \in [Sessions -> Tokens \cup {Null}]
    /\ onboarded \subseteq Orgs

\* A link is one-shot (README.md:27): however often it is followed, and
\* whatever fails, it creates at most one session, of the user it was sent to.
LinksOneShot ==
    \A s \in Sessions :
        /\ \A other \in Sessions :
               origin[s] # Null /\ origin[s] = origin[other] => s = other
        /\ session[s] # Null
           => origin[s] # Null /\ session[s].user = TokenUser[origin[s]]

\* The gate opens only after an onboarding: a session is marked completed
\* only with an organisation whose onboarding was completed, wherever the
\* organisation was found, and through restarts (migrations/003:2).
GateNeedsOnboarding ==
    \A s \in Sessions :
        session[s] # Null /\ session[s].completed
        => session[s].org \in onboarded

\* The session was logged out or has expired, and no update that read it before
\* is still about to write it.
Ended(s) ==
    /\ origin[s] # Null
    /\ session[s] = Null
    /\ \A r \in Requests : At(r, "save") => request[r].session # s

\* A session that has ended stays ended: no request that still carries its
\* cookie, no link followed again and no restart brings it back
\* (session.service.ts:65-72).  Only an update that had read the record before
\* the logout may write it back, which the code does not prevent.
EndedForGood == [][\A s \in Sessions : Ended(s) => Ended(s)']_vars

=============================================================================
