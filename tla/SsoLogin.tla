------------------------------ MODULE SsoLogin ------------------------------
(***************************************************************************)
(* Single sign-on (apps/api/src/sso: startOidc, startSaml, handleCallback, *)
(* handleAcs, completeLogin) over the providers of IdentityProviders.  The *)
(* start of a login reads the provider and keeps a one-shot state in Redis *)
(* for ten minutes.  The browser comes back with it at any later time, and *)
(* possibly more than once; the provider may be tested, replaced or        *)
(* revoked, and the member given a role, between any two steps.            *)
(***************************************************************************)
EXTENDS IdentityProviders

CONSTANTS
    Flows,      \* random states of logins
    Callbacks   \* callbacks served at the same time

VARIABLES
    flow,       \* each login: where it is and the provider it goes through
    callback,   \* the callbacks in progress
    opened,     \* history: sessions opened by each login
    closed      \* history: providers revoked while nothing was using them

ssoVars == <<adminVars, flow, callback, opened, closed>>

\* "issued": the state is in Redis.
FlowStates == [pc: {"new", "issued", "gone"}, idp: Providers \cup {Null}]

CallbackStates ==
    [pc: {"idle", "exchange", "join", "session"}, flow: Flows \cup {Null},
     idp: Providers \cup {Null}, user: Users \cup {Null}]

NoCallback == [pc |-> "idle", flow |-> Null, idp |-> Null, user |-> Null]

SsoInit ==
    /\ AdminInit
    /\ flow = [f \in Flows |-> [pc |-> "new", idp |-> Null]]
    /\ callback = [c \in Callbacks |-> NoCallback]
    /\ opened = [f \in Flows |-> 0]
    /\ closed = {}

-----------------------------------------------------------------------------
(* The start of a login. *)

FlowBecomes(f, state) ==
    /\ flow' = [flow EXCEPT ![f] = state]
    /\ UNCHANGED <<idp, member, request, appointed, callback, opened>>

\* A revoked provider is refused, and an OIDC one without a secret; one that
\* was never tested, or failed its test, is not.  Fetching its metadata
\* only delays the state.
StartLogin(f, p) ==
    /\ flow[f].pc = "new"
    /\ idp[p] # Null
    /\ idp[p].status # "revoked"
    /\ idp[p].config \in NeedsSecret => idp[p].secret
    /\ FlowBecomes(f, [pc |-> "issued", idp |-> p])

\* The metadata cannot be fetched, Redis fails, or the ten minutes are over.
LoginLost(f) ==
    /\ flow[f].pc = "issued"
    /\ FlowBecomes(f, [pc |-> "gone", idp |-> Null])

-----------------------------------------------------------------------------
(* The callback. *)

CallbackAt(c, pc) == callback[c].pc = pc

CallbackBecomes(c, state) ==
    /\ callback' = [callback EXCEPT ![c] = state]
    /\ UNCHANGED <<idp, member, request, appointed, flow, opened>>

\* Fault: the state is read and not deleted.
PeekState(c, f) ==
    /\ CallbackAt(c, "idle")
    /\ flow[f].pc = "issued"
    /\ CallbackBecomes(c, [NoCallback EXCEPT !.pc = "exchange", !.flow = f,
                                             !.idp = flow[f].idp])

\* GETDEL: any callback that brings a code takes the state away.
TakeState(c, f) ==
    /\ CallbackAt(c, "idle")
    /\ flow[f].pc = "issued"
    /\ callback' = [callback EXCEPT ![c] =
                       [NoCallback EXCEPT !.pc = "exchange", !.flow = f,
                                          !.idp = flow[f].idp]]
    /\ flow' = [flow EXCEPT ![f] = [pc |-> "gone", idp |-> Null]]
    /\ UNCHANGED <<idp, member, request, appointed, opened>>

\* Fault: the provider is only looked at when the login starts.
TrustFlow(c, u) ==
    /\ CallbackAt(c, "exchange")
    /\ CallbackBecomes(c, [callback[c] EXCEPT !.pc = "join", !.user = u])

\* The code is exchanged, or the assertion validated, and names the user;
\* then completeLogin reads the provider again and refuses a revoked one.
CheckProvider(c, u) ==
    /\ CallbackAt(c, "exchange")
    /\ CallbackBecomes(c, IF idp[callback[c].idp].status = "revoked"
                          THEN NoCallback
                          ELSE [callback[c] EXCEPT !.pc = "join", !.user = u])

\* Fault: the role of the insertion also replaces the one that is there.
JoinedAnew(u) == NewMember

\* upsertMember: one who is a member already keeps the role.
Joined(u) == IF member[u] = Null THEN NewMember ELSE member[u]

JoinMember(c) ==
    LET u == callback[c].user IN
    /\ CallbackAt(c, "join")
    /\ member' = [member EXCEPT ![u] = Joined(u)]
    /\ callback' = [callback EXCEPT ![c].pc = "session"]
    /\ UNCHANGED <<idp, request, appointed, flow, opened>>

\* The session carries the role of the row that was returned.
OpenSession(c) ==
    /\ CallbackAt(c, "session")
    /\ opened' = [opened EXCEPT ![callback[c].flow] = @ + 1]
    /\ callback' = [callback EXCEPT ![c] = NoCallback]
    /\ UNCHANGED <<idp, member, request, appointed, flow>>

\* The provider answers no, the address is of another domain, a query or
\* Redis fails, or the process dies: the browser is sent to the error page.
CallbackFails(c) ==
    /\ ~CallbackAt(c, "idle")
    /\ CallbackBecomes(c, NoCallback)

LoginStep ==
    \/ \E f \in Flows :
           \/ \E p \in Providers : StartLogin(f, p)
           \/ LoginLost(f)
           \/ \E c \in Callbacks : TakeState(c, f)
    \/ \E c \in Callbacks :
           \/ \E u \in Users : CheckProvider(c, u)
           \/ JoinMember(c) \/ OpenSession(c)
           \/ CallbackFails(c)

\* No request holds the id of p, and no callback was let through it.
Unused(p) ==
    /\ \A r \in Requests : request[r].id # p
    /\ \A c \in Callbacks :
           callback[c].idp = p => callback[c].pc \notin {"join", "session"}

\* Conjoined to every step: the providers that are closed after it.
Observe ==
    closed' = closed \cup {p \in Providers : /\ idp'[p] # Null
                                             /\ idp'[p].status = "revoked"
                                             /\ Unused(p)'}

-----------------------------------------------------------------------------
(* Properties. *)

LoginTypeOK ==
    /\ idp \in [Providers -> Rows \cup {Null}]
    /\ member \in [Users -> Members \cup {Null}]
    /\ request \in [Requests -> RequestStates]
    /\ appointed \in [Users -> Roles \cup {Null}]
    /\ flow \in [Flows -> FlowStates]
    /\ callback \in [Callbacks -> CallbackStates]
    /\ opened \in [Flows -> Nat]
    /\ closed \subseteq Providers

\* "Cette action est immediate" (sso-wizard.tsx:427) is so for every login
\* that completeLogin has not let through, including those already at the
\* provider: once it is revoked and no request in flight still holds it, a
\* provider is never in use again and opens no session.
RevokedForGood ==
    \A p \in closed :
        /\ idp[p].status = "revoked"
        /\ \A c \in Callbacks :
               callback[c].idp = p => callback[c].pc \notin {"join", "session"}

\* A login, however often its callback arrives, opens at most one session.
OneSessionPerLogin == \A f \in Flows : opened[f] <= 1

\* "never elevate on upsert" (sso.service.ts:342), and never demote either:
\* whatever logins and appointments overlap, a member has the role last
\* assigned, or is a plain member that waits for one.
RolesAreAppointed ==
    \A u \in Users : member[u] # Null =>
        member[u] = IF appointed[u] = Null THEN NewMember
                    ELSE Assigned(appointed[u])

=============================================================================
