-------------------------- MODULE SsoSettings_proofs --------------------------
(***************************************************************************)
(* For any number of requests, logins and callbacks, beside the pages: a   *)
(* login opens one session at most, a provider closed stays closed, roles  *)
(* are those that were assigned, and the settings page shows the provider  *)
(* as it is stored.                                                        *)
(***************************************************************************)
EXTENDS SsoSettings, TLAPS

LoginTypes ==
    /\ flow \in [Flows -> FlowStates]
    /\ callback \in [Callbacks -> CallbackStates]
    /\ opened \in [Flows -> Nat]

Serving(c) == callback[c].pc # "idle"

\* A login has its session, or one callback that may open it, or neither;
\* and it has neither as long as its state has not been taken.
LoginInv ==
    /\ LoginTypes
    /\ \A f \in Flows :
           opened[f] <= 1 /\ (flow[f].pc # "gone" => opened[f] = 0)
    /\ \A c \in Callbacks : Serving(c) =>
           /\ callback[c].flow \in Flows
           /\ flow[callback[c].flow].pc = "gone"
           /\ opened[callback[c].flow] = 0
    /\ \A c, d \in Callbacks :
           Serving(c) /\ Serving(d) /\ callback[c].flow = callback[d].flow
           => c = d

-----------------------------------------------------------------------------
(* One session per login. *)

LEMMA NoCallbackFacts ==
    NoCallback \in CallbackStates /\ NoCallback.pc = "idle"
  BY DEF NoCallback, CallbackStates

\* A callback moves on with its login, or ends.
LEMMA CallbackKeeps ==
    ASSUME LoginInv, NEW c \in Callbacks, NEW state \in CallbackStates,
           callback' = [callback EXCEPT ![c] = state],
           UNCHANGED <<flow, opened>>,
           state.pc # "idle" => Serving(c) /\ state.flow = callback[c].flow
    PROVE  LoginInv'
  <1>1. \A d \in Callbacks :
            callback'[d] = IF d = c THEN state ELSE callback[d]
    BY DEF LoginInv, LoginTypes
  <1>2. \A d \in Callbacks : Serving(d)' =>
            Serving(d) /\ callback'[d].flow = callback[d].flow
    BY <1>1 DEF Serving
  <1>3. LoginTypes'
    BY DEF LoginInv, LoginTypes
  <1>4. \A d \in Callbacks : Serving(d)' =>
            /\ callback'[d].flow \in Flows
            /\ flow'[callback'[d].flow].pc = "gone"
            /\ opened'[callback'[d].flow] = 0
    BY <1>2 DEF LoginInv
  <1>5. \A d, e \in Callbacks :
            Serving(d)' /\ Serving(e)' /\ callback'[d].flow = callback'[e].flow
            => d = e
    BY <1>2 DEF LoginInv
  <1> QED
    BY <1>3, <1>4, <1>5 DEF LoginInv

LEMMA LoginStepKeeps ==
    ASSUME LoginInv, LoginStep
    PROVE  LoginInv'
  <1>0. LoginTypes
    BY DEF LoginInv
  <1>1. ASSUME NEW f \in Flows,
               (\E p \in Providers : StartLogin(f, p)) \/ LoginLost(f)
        PROVE  LoginInv'
    <2>1. PICK state \in FlowStates :
              /\ flow' = [flow EXCEPT ![f] = state]
              /\ UNCHANGED <<callback, opened>>
              /\ flow[f].pc # "gone"
      BY <1>1 DEF StartLogin, LoginLost, FlowBecomes, FlowStates
    <2>2. \A g \in Flows : flow'[g] = IF g = f THEN state ELSE flow[g]
      BY <1>0, <2>1 DEF LoginTypes
    <2>3. LoginTypes'
      BY <1>0, <2>1 DEF LoginTypes
    <2>4. \A g \in Flows :
              opened'[g] <= 1 /\ (flow'[g].pc # "gone" => opened'[g] = 0)
      BY <2>1, <2>2 DEF LoginInv
    <2>5. \A c \in Callbacks : Serving(c)' =>
              /\ callback'[c].flow \in Flows
              /\ flow'[callback'[c].flow].pc = "gone"
              /\ opened'[callback'[c].flow] = 0
      BY <2>1, <2>2 DEF LoginInv, Serving
    <2> QED
      BY <2>1, <2>3, <2>4, <2>5 DEF LoginInv, Serving
  <1>2. ASSUME NEW f \in Flows, NEW c \in Callbacks, TakeState(c, f)
        PROVE  LoginInv'
    <2> DEFINE state == [NoCallback EXCEPT !.pc = "exchange", !.flow = f,
                                           !.idp = flow[f].idp]
               taken == [pc |-> "gone", idp |-> Null]
    <2>1. /\ callback' = [callback EXCEPT ![c] = state]
          /\ flow' = [flow EXCEPT ![f] = taken] /\ opened' = opened
          /\ flow[f].pc = "issued" /\ flow[f] \in FlowStates
      BY <1>0, <1>2 DEF TakeState, LoginTypes
    <2>2. state \in CallbackStates /\ state.flow = f
      BY <2>1 DEF NoCallback, CallbackStates, FlowStates
    <2>3. taken \in FlowStates /\ taken.pc = "gone"
      BY DEF FlowStates
    <2> HIDE DEF state, taken
    <2>4. /\ \A g \in Flows : flow'[g] = IF g = f THEN taken ELSE flow[g]
          /\ \A d \in Callbacks :
                 callback'[d] = IF d = c THEN state ELSE callback[d]
      BY <1>0, <2>1 DEF LoginTypes
    <2>5. LoginTypes'
      BY <1>0, <2>1, <2>2, <2>3 DEF LoginTypes
    <2>6. \A d \in Callbacks : Serving(d) => callback[d].flow # f
      BY <2>1 DEF LoginInv
    <2>7. opened[f] = 0
      BY <2>1 DEF LoginInv
    <2>8. \A g \in Flows :
              opened'[g] <= 1 /\ (flow'[g].pc # "gone" => opened'[g] = 0)
      BY <2>1, <2>3, <2>4 DEF LoginInv
    <2>9. \A d \in Callbacks : Serving(d)' =>
              /\ callback'[d].flow \in Flows
              /\ flow'[callback'[d].flow].pc = "gone"
              /\ opened'[callback'[d].flow] = 0
      BY <2>1, <2>2, <2>3, <2>4, <2>7 DEF LoginInv, Serving
    <2>10. \A d, e \in Callbacks :
              Serving(d)' /\ Serving(e)'
              /\ callback'[d].flow = callback'[e].flow => d = e
      BY <2>2, <2>4, <2>6 DEF LoginInv, Serving
    <2> QED
      BY <2>5, <2>8, <2>9, <2>10 DEF LoginInv
  <1>3. ASSUME NEW c \in Callbacks, NEW u \in Users, CheckProvider(c, u)
        PROVE  LoginInv'
    <2> DEFINE next == [callback[c] EXCEPT !.pc = "join", !.user = u]
    <2>1. next \in CallbackStates /\ next.flow = callback[c].flow
      BY <1>0 DEF LoginTypes, CallbackStates
    <2>2. /\ \/ callback' = [callback EXCEPT ![c] = NoCallback]
             \/ callback' = [callback EXCEPT ![c] = next]
          /\ UNCHANGED <<flow, opened>> /\ Serving(c)
      BY <1>3 DEF CheckProvider, CallbackBecomes, CallbackAt, Serving
    <2> HIDE DEF next
    <2> QED
      BY <2>1, <2>2, NoCallbackFacts, CallbackKeeps
  <1>4. ASSUME NEW c \in Callbacks, JoinMember(c)
        PROVE  LoginInv'
    <2> DEFINE next == [callback[c] EXCEPT !.pc = "session"]
    <2>1. next \in CallbackStates /\ next.flow = callback[c].flow
      BY <1>0 DEF LoginTypes, CallbackStates
    <2>2. /\ callback' = [callback EXCEPT ![c] = next]
          /\ UNCHANGED <<flow, opened>> /\ Serving(c)
      BY <1>4 DEF JoinMember, CallbackAt, Serving
    <2> HIDE DEF next
    <2> QED
      BY <2>1, <2>2, CallbackKeeps
  <1>5. ASSUME NEW c \in Callbacks, OpenSession(c)
        PROVE  LoginInv'
    <2> DEFINE f == callback[c].flow
    <2>1. /\ callback' = [callback EXCEPT ![c] = NoCallback]
          /\ opened' = [opened EXCEPT ![f] = @ + 1] /\ flow' = flow
          /\ Serving(c)
      BY <1>5 DEF OpenSession, CallbackAt, Serving
    <2>2. f \in Flows /\ flow[f].pc = "gone" /\ opened[f] = 0
      BY <2>1 DEF LoginInv
    <2> HIDE DEF f
    <2>3. /\ \A g \in Flows : opened'[g] = IF g = f THEN 1 ELSE opened[g]
          /\ \A d \in Callbacks :
                 callback'[d] = IF d = c THEN NoCallback ELSE callback[d]
      BY <1>0, <2>1, <2>2 DEF LoginTypes
    <2>4. LoginTypes'
      BY <1>0, <2>1, <2>2, NoCallbackFacts DEF LoginTypes
    <2>5. \A g \in Flows :
              opened'[g] <= 1 /\ (flow'[g].pc # "gone" => opened'[g] = 0)
      BY <2>1, <2>2, <2>3 DEF LoginInv
    <2>6. \A d \in Callbacks : Serving(d)' =>
              Serving(d) /\ d # c /\ callback'[d] = callback[d]
      BY <2>3, NoCallbackFacts DEF Serving
    <2>7. \A d \in Callbacks : Serving(d) /\ d # c => callback[d].flow # f
      BY <2>1 DEF LoginInv, f
    <2>8. \A d \in Callbacks : Serving(d)' =>
              /\ callback'[d].flow \in Flows
              /\ flow'[callback'[d].flow].pc = "gone"
              /\ opened'[callback'[d].flow] = 0
      BY <2>1, <2>3, <2>6, <2>7 DEF LoginInv
    <2>9. \A d, e \in Callbacks :
              Serving(d)' /\ Serving(e)'
              /\ callback'[d].flow = callback'[e].flow => d = e
      BY <2>6 DEF LoginInv
    <2> QED
      BY <2>4, <2>5, <2>8, <2>9 DEF LoginInv
  <1>6. ASSUME NEW c \in Callbacks, CallbackFails(c)
        PROVE  LoginInv'
    <2>1. /\ callback' = [callback EXCEPT ![c] = NoCallback]
          /\ UNCHANGED <<flow, opened>>
      BY <1>6 DEF CallbackFails, CallbackBecomes
    <2> QED
      BY <2>1, NoCallbackFacts, CallbackKeeps
  <1> QED
    BY <1>1, <1>2, <1>3, <1>4, <1>5, <1>6 DEF LoginStep

LEMMA LoginInvariant == Spec => []LoginInv
  <1>1. Init => LoginInv
    <2> SUFFICES ASSUME Init PROVE LoginInv
      OBVIOUS
    <2>1. /\ flow = [f \in Flows |-> [pc |-> "new", idp |-> Null]]
          /\ callback = [c \in Callbacks |-> NoCallback]
          /\ opened = [f \in Flows |-> 0]
      BY DEF Init, SsoInit
    <2>2. LoginTypes
      BY <2>1, NoCallbackFacts DEF LoginTypes, FlowStates
    <2> QED
      BY <2>1, <2>2, NoCallbackFacts DEF LoginInv, Serving
  <1>2. LoginInv /\ [Next]_vars => LoginInv'
    <2> SUFFICES ASSUME LoginInv, [Next]_vars PROVE LoginInv'
      OBVIOUS
    <2>1. LoginStep \/ UNCHANGED <<flow, callback, opened>>
      BY DEF Next, vars, ssoVars
    <2>2. CASE UNCHANGED <<flow, callback, opened>>
      BY <2>2 DEF LoginInv, LoginTypes, Serving
    <2> QED
      BY <2>1, <2>2, LoginStepKeeps
  <1> QED
    BY <1>1, <1>2, PTL DEF Spec

\* sso.service.ts:325-380: the one-shot state makes a login open one session
\* at most, however many callbacks bring it at the same time.
THEOREM LoginOpensOneSession == Spec => []OneSessionPerLogin
  <1>1. LoginInv => OneSessionPerLogin
    BY DEF LoginInv, OneSessionPerLogin
  <1> QED
    BY <1>1, LoginInvariant, PTL

-----------------------------------------------------------------------------
(* The administration: what one of its steps does to its request and to the *)
(* providers.                                                               *)

\* What a request has at each of its steps.
WellFormed(q) ==
    /\ q.pc \in {"access", "assign"} /\ q.op = "role" => q.data \in Appointments
    /\ q.pc \in {"access", "current", "retire", "write"}
       /\ q.op \in {"upsert", "preset"} => q.data \in Patches
    /\ q.pc \in {"retire", "write"} => q.op \in {"upsert", "preset"}
    /\ q.pc = "assign" => q.op = "role"
    /\ q.pc = "current" => q.op = "preset"
    /\ q.pc = "verdict" => q.verdict # Null
    /\ q.pc \in {"retire", "write", "testing", "probe", "verdict"} =>
           q.id \in Providers

\* A provider under test has a row.
HasRow(q, rows) == q.pc \in {"testing", "probe", "verdict"} => rows[q.id] # Null

AdminTypes ==
    /\ idp \in [Providers -> Rows \cup {Null}]
    /\ request \in [Requests -> RequestStates]
    /\ \A r \in Requests : WellFormed(request[r]) /\ HasRow(request[r], idp)

\* The providers that a request may take up.
Takeable == Live \cup {p \in Providers : idp[p] = Null}

AdminEffect(r) ==
    /\ request' = [request EXCEPT ![r] = request'[r]]
    /\ request'[r] \in RequestStates
    /\ WellFormed(request'[r]) /\ HasRow(request'[r], idp')
    /\ request'[r].id \in {Null, request[r].id} \cup Takeable
    /\ idp' \in [Providers -> Rows \cup {Null}]
    /\ \A p \in Providers :
           /\ idp[p] # Null => idp'[p] # Null
           /\ idp'[p] = idp[p] \/ p = request[r].id \/ p \in Live

LEMMA IdleFacts ==
    Idle \in RequestStates /\ Idle.pc = "idle" /\ Idle.id = Null
    /\ WellFormed(Idle) /\ HasRow(Idle, idp)
  BY DEF Idle, RequestStates, Pcs, WellFormed, HasRow

LEMMA BecomesEffect ==
    ASSUME AdminTypes, NEW r \in Requests, NEW state \in RequestStates,
           Becomes(r, state), WellFormed(state), HasRow(state, idp),
           state.id \in {Null, request[r].id} \cup Takeable
    PROVE  AdminEffect(r)
  <1>1. request'[r] = state /\ request' = [request EXCEPT ![r] = state]
        /\ idp' = idp
    BY DEF Becomes, AdminTypes
  <1> QED
    BY <1>1 DEF AdminEffect, AdminTypes

LEMMA AskEffect ==
    ASSUME AdminTypes, NEW r \in Requests, NEW op \in Ops \ {"preset"},
           NEW u \in Users,
           NEW data \in Patches \cup Appointments \cup {Null},
           op = "role" => data \in Appointments,
           op = "upsert" => data \in Patches, Ask(r, op, u, data)
    PROVE  AdminEffect(r)
  <1> DEFINE state == [Idle EXCEPT !.pc = "access", !.op = op, !.user = u,
                                   !.data = data]
  <1>1. /\ state \in RequestStates /\ state.pc = "access" /\ state.op = op
        /\ state.data = data /\ state.id = Null
    BY IdleFacts DEF RequestStates, Pcs, Idle
  <1>2. Becomes(r, state)
    BY DEF Ask
  <1> HIDE DEF state
  <1>3. WellFormed(state) /\ HasRow(state, idp)
    BY <1>1 DEF WellFormed, HasRow, Ops
  <1> QED
    BY <1>1, <1>2, <1>3, BecomesEffect

\* A request that fails keeps only its operation.
LEMMA FailsEffect ==
    ASSUME AdminTypes, NEW r \in Requests, Moves(r, "failed")
    PROVE  AdminEffect(r)
  <1> DEFINE state == [Idle EXCEPT !.pc = "failed", !.op = request[r].op]
  <1>1. /\ state \in RequestStates /\ state.pc = "failed" /\ state.id = Null
    BY IdleFacts DEF RequestStates, Pcs, Idle, AdminTypes
  <1>2. Becomes(r, state)
    BY DEF Moves
  <1> HIDE DEF state
  <1>3. WellFormed(state) /\ HasRow(state, idp)
    BY <1>1 DEF WellFormed, HasRow
  <1> QED
    BY <1>1, <1>2, <1>3, BecomesEffect

LEMMA LiveFacts ==
    Live \subseteq Providers /\ Null \notin Takeable
    /\ \A p \in Live : idp[p] # Null
  BY ProvidersAssumption DEF Live, Takeable

LEMMA ReadCurrentEffect ==
    ASSUME AdminTypes, NEW r \in Requests, ReadCurrent(r)
    PROVE  AdminEffect(r)
  <1> DEFINE q == request[r]
  <1>0. /\ q \in RequestStates /\ WellFormed(q)
        /\ q.pc = "access" \/ (q.pc = "current" /\ q.op = "preset")
    BY DEF AdminTypes, ReadCurrent, At, WellFormed
  <1>1. CASE q.op = "get" /\ \E row \in Rows \cup {Null} :
                 Becomes(r, [q EXCEPT !.pc = "ok", !.row = row])
    <2>1. PICK row \in Rows \cup {Null} :
              Becomes(r, [q EXCEPT !.pc = "ok", !.row = row])
      BY <1>1
    <2> DEFINE state == [q EXCEPT !.pc = "ok", !.row = row]
    <2>2. state \in RequestStates /\ state.pc = "ok" /\ state.id = q.id
      BY <1>0 DEF RequestStates, Pcs
    <2> HIDE DEF state
    <2>3. WellFormed(state) /\ HasRow(state, idp)
      BY <2>2 DEF WellFormed, HasRow
    <2> QED
      BY <2>1, <2>2, <2>3, BecomesEffect DEF state
  <1>2. CASE Moves(r, "failed")
    BY <1>2, FailsEffect
  <1>3. CASE \E p \in Live : Becomes(r, [q EXCEPT !.pc = "testing", !.id = p])
    <2>1. PICK p \in Live : Becomes(r, [q EXCEPT !.pc = "testing", !.id = p])
      BY <1>3
    <2> DEFINE state == [q EXCEPT !.pc = "testing", !.id = p]
    <2>2. state \in RequestStates /\ state.pc = "testing" /\ state.id = p
          /\ p \in Providers
      BY <1>0, LiveFacts DEF RequestStates, Pcs
    <2> HIDE DEF state
    <2>3. WellFormed(state) /\ HasRow(state, idp)
      BY <2>2, LiveFacts DEF WellFormed, HasRow
    <2> QED
      BY <2>1, <2>2, <2>3, BecomesEffect DEF state, Takeable
  <1>4. CASE \E p \in Live : Becomes(r, [q EXCEPT !.pc = "verdict", !.id = p,
                                                 !.verdict = "revoked"])
    <2>1. PICK p \in Live : Becomes(r, [q EXCEPT !.pc = "verdict", !.id = p,
                                                !.verdict = "revoked"])
      BY <1>4
    <2> DEFINE state == [q EXCEPT !.pc = "verdict", !.id = p,
                                  !.verdict = "revoked"]
    <2>2. /\ state \in RequestStates /\ state.pc = "verdict"
          /\ state.id = p /\ p \in Providers /\ state.verdict = "revoked"
      BY <1>0, LiveFacts DEF RequestStates, Pcs
    <2> HIDE DEF state
    <2>3. WellFormed(state) /\ HasRow(state, idp)
      BY <2>2, LiveFacts, NullAssumption
         DEF WellFormed, HasRow, Statuses
    <2> QED
      BY <2>1, <2>2, <2>3, BecomesEffect DEF state, Takeable
  <1>5. CASE q.op \in {"upsert", "preset"} /\ \E p \in Takeable :
                 Becomes(r, [q EXCEPT !.pc = "retire", !.id = p])
    <2>1. PICK p \in Takeable :
              Becomes(r, [q EXCEPT !.pc = "retire", !.id = p])
      BY <1>5
    <2> DEFINE state == [q EXCEPT !.pc = "retire", !.id = p]
    <2>2. /\ state \in RequestStates /\ state.pc = "retire" /\ state.id = p
          /\ p \in Providers /\ state.op = q.op /\ state.data = q.data
      BY <1>0, LiveFacts DEF RequestStates, Pcs, Takeable
    <2> HIDE DEF state
    <2>3. WellFormed(state) /\ HasRow(state, idp)
      BY <1>0, <1>5, <2>2 DEF WellFormed, HasRow
    <2> QED
      BY <2>1, <2>2, <2>3, BecomesEffect DEF state
  <1>6. q.op = "get" => \A p \in Live : idp[p] \in Rows \cup {Null}
    BY LiveFacts DEF AdminTypes
  <1>7. Live # {} => (CHOOSE p \in Live : TRUE) \in Live
    OBVIOUS
  <1> QED
    BY <1>1, <1>2, <1>3, <1>4, <1>5, <1>6, <1>7
       DEF ReadCurrent, CurrentProvider, Takeable

\* The steps that only move the request on.
LEMMA MovesOnEffect ==
    ASSUME AdminTypes, NEW r \in Requests,
           AllowAssign(r) \/ Probe(r) \/ Refuse(r) \/ RequestFails(r)
    PROVE  AdminEffect(r)
  <1> DEFINE q == request[r]
  <1>0. q \in RequestStates /\ WellFormed(q) /\ HasRow(q, idp)
    BY DEF AdminTypes
  <1>1. CASE AllowAssign(r)
    <2> DEFINE state == [q EXCEPT !.pc = "assign"]
    <2>1. Becomes(r, state) /\ q.pc = "access" /\ q.op = "role"
      BY <1>1 DEF AllowAssign, Moves, At
    <2>2. /\ state \in RequestStates /\ state.pc = "assign"
          /\ state.op = q.op /\ state.data = q.data /\ state.id = q.id
      BY <1>0 DEF RequestStates, Pcs
    <2> HIDE DEF state
    <2>3. WellFormed(state) /\ HasRow(state, idp)
      BY <1>0, <2>1, <2>2 DEF WellFormed, HasRow
    <2> QED
      BY <2>1, <2>2, <2>3, BecomesEffect
  <1>2. CASE Probe(r)
    <2>1. PICK v \in {"connected", "error"} :
              Becomes(r, [q EXCEPT !.pc = "verdict", !.verdict = v])
              /\ q.pc = "probe"
      BY <1>2 DEF Probe, At
    <2> DEFINE state == [q EXCEPT !.pc = "verdict", !.verdict = v]
    <2>2. /\ state \in RequestStates /\ state.pc = "verdict"
          /\ state.verdict = v /\ state.id = q.id
      BY <1>0 DEF RequestStates, Pcs
    <2> HIDE DEF state
    <2>3. WellFormed(state) /\ HasRow(state, idp)
      BY <1>0, <2>1, <2>2, NullAssumption
         DEF WellFormed, HasRow, Statuses
    <2> QED
      BY <2>1, <2>2, <2>3, BecomesEffect DEF state
  <1>3. CASE Refuse(r) \/ RequestFails(r)
    BY <1>3, FailsEffect DEF Refuse, RequestFails
  <1> QED
    BY <1>1, <1>2, <1>3

LEMMA RetireEffect ==
    ASSUME AdminTypes, NEW r \in Requests, RetireOthers(r)
    PROVE  AdminEffect(r)
  <1> DEFINE q == request[r]
             retired == Live \ {q.id}
             state == [q EXCEPT !.pc = "write"]
  <1>0. q \in RequestStates /\ WellFormed(q) /\ q.pc = "retire"
    BY DEF AdminTypes, RetireOthers, At
  <1>1. /\ idp' = [p \in Providers |->
                      IF p \in retired THEN [idp[p] EXCEPT !.status = "revoked"]
                      ELSE idp[p]]
        /\ request' = [request EXCEPT ![r] = state]
    BY DEF RetireOthers
  <1>2. /\ state \in RequestStates /\ state.pc = "write"
        /\ state.op = q.op /\ state.data = q.data /\ state.id = q.id
    BY <1>0 DEF RequestStates, Pcs
  <1>3. \A p \in retired : [idp[p] EXCEPT !.status = "revoked"] \in Rows
    BY LiveFacts DEF AdminTypes, Rows, Statuses
  <1> HIDE DEF state, retired
  <1>4. request'[r] = state
    BY <1>1 DEF AdminTypes
  <1>5. WellFormed(state) /\ HasRow(state, idp')
    BY <1>0, <1>2 DEF WellFormed, HasRow
  <1>6. /\ idp' \in [Providers -> Rows \cup {Null}]
        /\ \A p \in Providers : idp[p] # Null => idp'[p] # Null
    BY <1>1, <1>3, NullAssumption DEF AdminTypes
  <1>7. \A p \in Providers : idp'[p] = idp[p] \/ p \in Live
    BY <1>1 DEF retired
  <1> QED
    BY <1>1, <1>2, <1>4, <1>5, <1>6, <1>7 DEF AdminEffect

\* A request writes the row of the provider it holds, or is refused by the
\* index.
LEMMA StoreEffect ==
    ASSUME AdminTypes, NEW r \in Requests, NEW row \in Rows,
           NEW state \in RequestStates, request[r].id \in Providers,
           WellFormed(state), state.id \in {Null, request[r].id},
           Store(r, row, state)
    PROVE  AdminEffect(r)
  <1> DEFINE id == request[r].id
  <1>1. CASE Moves(r, "failed")
    BY <1>1, FailsEffect
  <1>2. CASE /\ idp' = [idp EXCEPT ![id] = row]
             /\ request' = [request EXCEPT ![r] = state]
    <2> HIDE DEF id
    <2>1. /\ request'[r] = state
          /\ \A p \in Providers : idp'[p] = IF p = id THEN row ELSE idp[p]
          /\ idp' \in [Providers -> Rows \cup {Null}]
      BY <1>2 DEF AdminTypes
    <2>2. \A p \in Providers : idp[p] # Null => idp'[p] # Null
      BY <2>1, NullAssumption
    <2>3. HasRow(state, idp')
      <3>1. idp'[id] # Null
        BY <2>1, NullAssumption DEF id
      <3> QED
        BY <3>1, ProvidersAssumption DEF HasRow, WellFormed, id
    <2> QED
      BY <1>2, <2>1, <2>2, <2>3 DEF AdminEffect, id
  <1> QED
    BY <1>1, <1>2 DEF Store

LEMMA DoneFacts ==
    ASSUME NEW q \in RequestStates, NEW row \in Rows \cup {Null}
    PROVE  Done(q, row) \in RequestStates /\ Done(q, row).id = Null
           /\ WellFormed(Done(q, row))
  <1>1. Done(q, row) \in RequestStates /\ Done(q, row).id = Null
        /\ Done(q, row).pc = "ok"
    BY DEF Done, RequestStates, Pcs
  <1> QED
    BY <1>1 DEF WellFormed

\* The row that an upsert writes is one in use.
LEMMA WrittenType ==
    ASSUME AdminTypes, NEW q, q.id \in Providers, q.data \in Patches
    PROVE  Written(q) \in Rows
  <1> DEFINE kept == q.data.secret \/ (idp[q.id] # Null /\ idp[q.id].secret)
  <1>1. idp[q.id] \in Rows \cup {Null}
    BY DEF AdminTypes
  <1>2. kept \in BOOLEAN
    BY <1>1 DEF Patches, Rows
  <1>3. Written(q) =
            [status |-> IF q.op = "preset" THEN "connected" ELSE "draft",
             config |-> q.data.config, secret |-> kept]
    BY DEF Written
  <1> HIDE DEF kept
  <1> QED
    BY <1>2, <1>3 DEF Patches, Rows, Statuses

LEMMA WritesEffect ==
    ASSUME AdminTypes, NEW r \in Requests,
           WriteProvider(r) \/ MarkTesting(r) \/ StoreVerdict(r)
    PROVE  AdminEffect(r)
  <1> DEFINE q == request[r]
             row == idp[q.id]
  <1>0. q \in RequestStates /\ WellFormed(q) /\ HasRow(q, idp)
    BY DEF AdminTypes
  <1>1. CASE WriteProvider(r)
    <2>1. q.pc = "write" /\ q.id \in Providers /\ q.data \in Patches
          /\ Store(r, Written(q), Done(q, Written(q)))
      BY <1>0, <1>1 DEF WriteProvider, At, WellFormed
    <2>2. Written(q) \in Rows
      BY <2>1, WrittenType
    <2> QED
      BY <1>0, <2>1, <2>2, DoneFacts, StoreEffect
  <1>2. CASE MarkTesting(r)
    <2> DEFINE state == [q EXCEPT !.pc = "probe"]
    <2>1. q.pc = "testing" /\ q.id \in Providers /\ row \in Rows
          /\ Store(r, [row EXCEPT !.status = "testing"], state)
      BY <1>0, <1>2 DEF MarkTesting, At, WellFormed, HasRow, AdminTypes
    <2>2. [row EXCEPT !.status = "testing"] \in Rows
      BY <2>1 DEF Rows, Statuses
    <2>3. state \in RequestStates /\ state.pc = "probe" /\ state.id = q.id
      BY <1>0 DEF RequestStates, Pcs
    <2>4. WellFormed(state)
      BY <2>1, <2>3 DEF WellFormed
    <2> HIDE DEF state
    <2> QED
      BY <2>1, <2>2, <2>3, <2>4, StoreEffect
  <1>3. CASE StoreVerdict(r)
    <2>1. q.pc = "verdict" /\ q.id \in Providers /\ row \in Rows
          /\ q.verdict \in Statuses
          /\ Store(r, [row EXCEPT !.status = q.verdict], Done(q, Null))
      BY <1>0, <1>3 DEF StoreVerdict, At, WellFormed, HasRow, AdminTypes,
                        RequestStates, Statuses
    <2>2. [row EXCEPT !.status = q.verdict] \in Rows
      BY <2>1 DEF Rows
    <2> QED
      BY <1>0, <2>1, <2>2, DoneFacts, StoreEffect
  <1> QED
    BY <1>1, <1>2, <1>3

LEMMA AssignRoleEffect ==
    ASSUME AdminTypes, NEW r \in Requests, AssignRole(r)
    PROVE  AdminEffect(r)
  <1> DEFINE q == request[r]
  <1>0. q \in RequestStates
    BY DEF AdminTypes
  <1>1. CASE Moves(r, "failed")
    BY <1>1, FailsEffect
  <1>2. CASE request' = [request EXCEPT ![r] = Done(q, Null)] /\ idp' = idp
    <2>1. request'[r] = Done(q, Null) /\ Done(q, Null).pc = "ok"
      BY <1>0, <1>2 DEF AdminTypes, Done, RequestStates
    <2>2. HasRow(request'[r], idp')
      BY <2>1 DEF HasRow
    <2> QED
      BY <1>0, <1>2, <2>1, <2>2, DoneFacts DEF AdminEffect, AdminTypes
  <1> QED
    BY <1>1, <1>2 DEF AssignRole

\* Every step of the administration is one request's.
LEMMA ServeEffect ==
    ASSUME AdminTypes, NEW r \in Requests, Serve(r) \/ RequestFails(r)
    PROVE  AdminEffect(r)
  BY ReadCurrentEffect, MovesOnEffect, RetireEffect, WritesEffect,
     AssignRoleEffect DEF Serve

LEMMA PageEffect ==
    ASSUME AdminTypes, NEW r \in Requests,
           \/ Mount(r) \/ OnSaveAndTest(r) \/ OnRevoke(r) \/ Assign(r)
           \/ Answer(r) \/ VisitorStartsPreset(r) \/ PresetDone(r)
    PROVE  AdminEffect(r)
  <1>1. CASE Mount(r) \/ OnRevoke(r)
    BY <1>1, AskEffect, SettingsAssumption DEF Mount, OnRevoke, Ops
  <1>2. CASE OnSaveAndTest(r)
    <2>1. PICK c \in Configs, typed \in Typed :
              Ask(r, "upsert", Owner, [config |-> c, secret |-> typed])
      BY <1>2 DEF OnSaveAndTest, Typing
    <2>2. [config |-> c, secret |-> typed] \in Patches
      BY SettingsAssumption DEF Patches
    <2> QED
      BY <2>1, <2>2, AskEffect, SettingsAssumption DEF Ops
  <1>3. CASE Assign(r)
    <2>1. PICK u \in Users, role \in Appointable :
              Ask(r, "role", Owner, [user |-> u, role |-> role])
      BY <1>3 DEF Assign
    <2>2. [user |-> u, role |-> role] \in Appointments
      BY SettingsAssumption DEF Appointments
    <2> QED
      BY <2>1, <2>2, AskEffect, SettingsAssumption DEF Ops
  <1>4. CASE Answer(r)
    <2> DEFINE next == NextOp(request[r])
               asks == [Idle EXCEPT !.pc = "access", !.op = next,
                                    !.user = Owner]
    <2>1. Becomes(r, Idle) \/ (next \in {"test", "get"} /\ Becomes(r, asks))
      BY <1>4 DEF Answer, NextOp
    <2>2. CASE next \in {"test", "get"} /\ Becomes(r, asks)
      <3>1. /\ asks \in RequestStates /\ asks.pc = "access"
            /\ asks.op = next /\ asks.id = Null
        BY <2>2, IdleFacts, SettingsAssumption
           DEF RequestStates, Pcs, Ops, Idle
      <3> HIDE DEF asks, next
      <3>2. WellFormed(asks) /\ HasRow(asks, idp)
        BY <2>2, <3>1 DEF WellFormed, HasRow
      <3> QED
        BY <2>2, <3>1, <3>2, BecomesEffect
    <2> QED
      BY <2>1, <2>2, IdleFacts, BecomesEffect
  <1>5. CASE VisitorStartsPreset(r)
    <2>1. PICK c \in Presets :
              Becomes(r, [Idle EXCEPT !.pc = "current", !.op = "preset",
                             !.data = [config |-> c, secret |-> TRUE]])
      BY <1>5 DEF VisitorStartsPreset, StartPreset
    <2> DEFINE data == [config |-> c, secret |-> TRUE]
               state == [Idle EXCEPT !.pc = "current", !.op = "preset",
                                     !.data = data]
    <2>2. data \in Patches
      BY ProvidersAssumption DEF Patches
    <2> HIDE DEF data
    <2>3. /\ state \in RequestStates /\ state.pc = "current"
          /\ state.op = "preset" /\ state.data = data /\ state.id = Null
      BY <2>2, IdleFacts DEF RequestStates, Pcs, Ops, Idle
    <2>4. Becomes(r, state)
      BY <2>1 DEF data
    <2> HIDE DEF state
    <2>5. WellFormed(state) /\ HasRow(state, idp)
      BY <2>2, <2>3 DEF WellFormed, HasRow
    <2> QED
      BY <2>3, <2>4, <2>5, BecomesEffect
  <1>6. CASE PresetDone(r)
    BY <1>6, IdleFacts, BecomesEffect DEF PresetDone
  <1> QED
    BY <1>1, <1>2, <1>3, <1>4, <1>5, <1>6

LEMMA StepEffect ==
    ASSUME AdminTypes, [Next]_vars
    PROVE  UNCHANGED <<idp, request>> \/ \E r \in Requests : AdminEffect(r)
  <1>1. ASSUME SaveRefused \/ Cancel \/ OpenRevoke \/ CloseRevoke
        PROVE  UNCHANGED <<idp, request>>
    BY <1>1 DEF SaveRefused, Cancel, OpenRevoke, CloseRevoke, Stays
  <1>2. ASSUME LoginStep
        PROVE  UNCHANGED <<idp, request>>
    BY <1>2 DEF LoginStep, StartLogin, LoginLost, FlowBecomes, TakeState,
                CheckProvider, CallbackBecomes, JoinMember, OpenSession,
                CallbackFails
  <1>3. CASE UNCHANGED vars
    BY <1>3 DEF vars, ssoVars, adminVars
  <1>4. CASE Next
    BY <1>1, <1>2, <1>4, ServeEffect, PageEffect DEF Next
  <1> QED
    BY <1>3, <1>4

LEMMA TypesStep ==
    ASSUME AdminTypes, [Next]_vars
    PROVE  AdminTypes'
  <1>1. CASE UNCHANGED <<idp, request>>
    BY <1>1 DEF AdminTypes, HasRow
  <1>2. ASSUME NEW r \in Requests, AdminEffect(r)
        PROVE  AdminTypes'
    <2>1. \A s \in Requests :
              request'[s] = IF s = r THEN request'[r] ELSE request[s]
      BY <1>2 DEF AdminEffect, AdminTypes
    <2>2. request' \in [Requests -> RequestStates]
          /\ idp' \in [Providers -> Rows \cup {Null}]
      BY <1>2 DEF AdminEffect, AdminTypes
    <2>3. ASSUME NEW s \in Requests
          PROVE  WellFormed(request'[s]) /\ HasRow(request'[s], idp')
      <3>1. CASE s = r
        BY <1>2, <3>1 DEF AdminEffect
      <3>2. CASE s # r
        <4>1. request'[s] = request[s]
          BY <2>1, <3>2
        <4>2. WellFormed(request[s]) /\ HasRow(request[s], idp)
          BY DEF AdminTypes
        <4>3. HasRow(request[s], idp')
          BY <1>2, <4>2 DEF HasRow, WellFormed, AdminEffect
        <4> QED
          BY <4>1, <4>2, <4>3
      <3> QED
        BY <3>1, <3>2
    <2> QED
      BY <2>2, <2>3 DEF AdminTypes, WellFormed
  <1> QED
    BY <1>1, <1>2, StepEffect

LEMMA TypesInvariant == Spec => []AdminTypes
  <1>1. Init => AdminTypes
    BY IdleFacts DEF Init, SsoInit, AdminInit, AdminTypes, HasRow, Idle
  <1>2. AdminTypes /\ [Next]_vars => AdminTypes'
    BY TypesStep
  <1> QED
    BY <1>1, <1>2, PTL DEF Spec

-----------------------------------------------------------------------------
(* A provider that is closed stays closed.                                   *)

ClosedInv ==
    \A p \in closed :
        /\ p \in Providers /\ idp[p] # Null /\ idp[p].status = "revoked"
        /\ Unused(p)

LEMMA ClosedStep ==
    ASSUME AdminTypes, LoginTypes, ClosedInv, [Next]_vars
    PROVE  ClosedInv'
  <1>1. closed' \subseteq closed \cup
            {p \in Providers : /\ idp'[p] # Null
                              /\ idp'[p].status = "revoked"
                              /\ Unused(p)'}
    BY DEF Next, Observe, vars, ssoVars
  <1> SUFFICES ASSUME NEW p \in closed, p \in closed'
               PROVE  (/\ p \in Providers /\ idp[p] # Null
                       /\ idp[p].status = "revoked" /\ Unused(p))'
    BY <1>1 DEF ClosedInv
  <1>2. /\ p \in Providers /\ idp[p] # Null /\ idp[p].status = "revoked"
        /\ \A r \in Requests : request[r].id # p
        /\ \A c \in Callbacks :
               callback[c].idp = p => callback[c].pc \notin {"join", "session"}
    BY DEF ClosedInv, Unused
  <1>3. p # Null /\ p \notin Takeable
    BY <1>2, ProvidersAssumption DEF Takeable, Live
  <1>4. idp'[p] = idp[p] /\ \A r \in Requests : request'[r].id # p
    <2>1. CASE UNCHANGED <<idp, request>>
      BY <1>2, <2>1
    <2>2. ASSUME NEW r \in Requests, AdminEffect(r)
          PROVE  idp'[p] = idp[p] /\ \A s \in Requests : request'[s].id # p
      <3>1. \A s \in Requests :
                request'[s] = IF s = r THEN request'[r] ELSE request[s]
        BY <2>2 DEF AdminEffect, AdminTypes
      <3>2. request'[r].id # p
        BY <1>2, <1>3, <2>2 DEF AdminEffect
      <3>3. idp'[p] = idp[p]
        BY <1>2, <1>3, <2>2 DEF AdminEffect, Takeable
      <3> QED
        BY <1>2, <3>1, <3>2, <3>3
    <2> QED
      BY <2>1, <2>2, StepEffect
  <1>5. ASSUME NEW c \in Callbacks, callback'[c].idp = p
        PROVE  callback'[c].pc \notin {"join", "session"}
    <2>1. CASE UNCHANGED callback
      BY <1>2, <1>5, <2>1
    <2>2. ASSUME NEW d \in Callbacks, NEW f \in Flows, TakeState(d, f)
          PROVE  callback'[c].pc \notin {"join", "session"}
      <3> DEFINE state == [NoCallback EXCEPT !.pc = "exchange", !.flow = f,
                                             !.idp = flow[f].idp]
      <3>1. callback' = [callback EXCEPT ![d] = state]
            /\ state.pc = "exchange"
        BY <2>2 DEF TakeState, NoCallback
      <3> HIDE DEF state
      <3> QED
        BY <1>2, <1>5, <3>1 DEF LoginTypes
    <2>3. ASSUME NEW d \in Callbacks, NEW u \in Users, CheckProvider(d, u)
          PROVE  callback'[c].pc \notin {"join", "session"}
      <3> DEFINE state == [callback[d] EXCEPT !.pc = "join", !.user = u]
      <3>1. /\ callback' = [callback EXCEPT ![d] =
                   IF idp[callback[d].idp].status = "revoked" THEN NoCallback
                   ELSE state]
            /\ state.idp = callback[d].idp
        BY <2>3 DEF CheckProvider, CallbackBecomes, LoginTypes, CallbackStates
      <3>2. callback[d].idp = p => idp[callback[d].idp].status = "revoked"
        BY <1>2
      <3> HIDE DEF state
      <3> QED
        BY <1>2, <1>5, <3>1, <3>2, NoCallbackFacts DEF LoginTypes
    <2>4. ASSUME NEW d \in Callbacks, JoinMember(d)
          PROVE  callback'[c].pc \notin {"join", "session"}
      <3> DEFINE state == [callback[d] EXCEPT !.pc = "session"]
      <3>1. /\ callback' = [callback EXCEPT ![d] = state]
            /\ state.idp = callback[d].idp /\ callback[d].pc = "join"
        BY <2>4 DEF JoinMember, CallbackAt, LoginTypes, CallbackStates
      <3> HIDE DEF state
      <3> QED
        BY <1>2, <1>5, <3>1 DEF LoginTypes
    <2>5. ASSUME NEW d \in Callbacks, OpenSession(d) \/ CallbackFails(d)
          PROVE  callback'[c].pc \notin {"join", "session"}
      <3>1. callback' = [callback EXCEPT ![d] = NoCallback]
        BY <2>5 DEF OpenSession, CallbackFails, CallbackBecomes
      <3> QED
        BY <1>2, <1>5, <3>1, NoCallbackFacts DEF LoginTypes
    <2> QED
      BY <2>1, <2>2, <2>3, <2>4, <2>5
         DEF Next, LoginStep, StartLogin, LoginLost, FlowBecomes, vars, ssoVars
  <1> QED
    BY <1>2, <1>4, <1>5 DEF Unused

LEMMA ClosedInvariant == Spec => []ClosedInv
  <1>1. Init => ClosedInv
    BY DEF Init, SsoInit, ClosedInv
  <1>2. AdminTypes /\ LoginInv /\ ClosedInv /\ [Next]_vars => ClosedInv'
    BY ClosedStep DEF LoginInv
  <1> QED
    BY <1>1, <1>2, TypesInvariant, LoginInvariant, PTL DEF Spec

\* "Cette action est immediate" (sso-wizard.tsx:427): for any number of
\* requests and logins in flight, a provider that was revoked while none of
\* them held it is not in use again, and no login goes through it.
THEOREM RevocationIsFinal == Spec => []RevokedForGood
  <1>1. ClosedInv => RevokedForGood
    BY DEF ClosedInv, RevokedForGood, Unused
  <1> QED
    BY <1>1, ClosedInvariant, PTL

-----------------------------------------------------------------------------
(* Roles. *)

\* Only two steps write members.
LEMMA WritersOfMembers ==
    ASSUME [Next]_vars
    PROVE  \/ UNCHANGED <<member, appointed>>
           \/ \E c \in Callbacks : JoinMember(c)
           \/ \E r \in Requests : AssignRole(r)
  <1>1. ASSUME NEW r \in Requests,
               Mount(r) \/ OnSaveAndTest(r) \/ OnRevoke(r) \/ Assign(r)
        PROVE  UNCHANGED <<member, appointed>>
    BY <1>1 DEF Mount, OnSaveAndTest, OnRevoke, Assign, Ask, Becomes
  <1>2. ASSUME NEW r \in Requests, Answer(r) \/ VisitorStartsPreset(r)
        PROVE  UNCHANGED <<member, appointed>>
    BY <1>2 DEF Answer, VisitorStartsPreset, StartPreset, Becomes
  <1>3. ASSUME SaveRefused \/ Cancel \/ OpenRevoke \/ CloseRevoke
        PROVE  UNCHANGED <<member, appointed>>
    BY <1>3 DEF SaveRefused, Cancel, OpenRevoke, CloseRevoke, Stays
  <1>4. ASSUME NEW r \in Requests, Refuse(r) \/ ReadCurrent(r) \/ Probe(r)
                                  \/ AllowAssign(r) \/ RetireOthers(r)
        PROVE  UNCHANGED <<member, appointed>>
    BY <1>4 DEF Refuse, ReadCurrent, Probe, AllowAssign, RetireOthers, Moves,
                Becomes
  <1>5. ASSUME NEW r \in Requests,
               WriteProvider(r) \/ MarkTesting(r) \/ StoreVerdict(r)
        PROVE  UNCHANGED <<member, appointed>>
    BY <1>5 DEF WriteProvider, MarkTesting, StoreVerdict, Store, Moves, Becomes
  <1>6. ASSUME NEW r \in Requests, RequestFails(r) \/ PresetDone(r)
        PROVE  UNCHANGED <<member, appointed>>
    BY <1>6 DEF RequestFails, PresetDone, Moves, Becomes
  <1>7. ASSUME LoginStep, ~\E c \in Callbacks : JoinMember(c)
        PROVE  UNCHANGED <<member, appointed>>
    BY <1>7 DEF LoginStep, StartLogin, LoginLost, FlowBecomes, TakeState,
                CheckProvider, CallbackBecomes, OpenSession, CallbackFails
  <1>8. CASE UNCHANGED vars
    BY <1>8 DEF vars, ssoVars, adminVars
  <1> QED
    BY <1>1, <1>2, <1>3, <1>4, <1>5, <1>6, <1>7, <1>8 DEF Next, Serve

\* A member is what the last appointment made of it.
RoleInv ==
    /\ member = [u \in Users |-> member[u]]
    /\ appointed = [u \in Users |-> appointed[u]]
    /\ RolesAreAppointed
    /\ \A u \in Users : appointed[u] # Null => member[u] # Null

LEMMA RoleStep ==
    ASSUME AdminTypes, RoleInv, [Next]_vars
    PROVE  RoleInv'
  <1>1. CASE UNCHANGED <<member, appointed>>
    BY <1>1 DEF RoleInv, RolesAreAppointed
  <1>2. ASSUME NEW c \in Callbacks, JoinMember(c)
        PROVE  RoleInv'
    <2> DEFINE v == callback[c].user
    <2>1. member' = [member EXCEPT ![v] = Joined(v)]
          /\ appointed' = appointed
      BY <1>2 DEF JoinMember
    <2> HIDE DEF v
    <2>2. \A u \in Users :
              member'[u] = IF u = v THEN Joined(v) ELSE member[u]
      BY <2>1 DEF RoleInv
    <2>3. member' = [u \in Users |-> member'[u]]
      BY <2>1 DEF RoleInv
    <2>4. NewMember # Null
      <3>1. NewMember \in Members
        BY DEF NewMember, Members, Roles
      <3> QED
        BY <3>1, NullAssumption
    <2> QED
      BY <2>1, <2>2, <2>3, <2>4 DEF RoleInv, RolesAreAppointed, Joined
  <1>3. ASSUME NEW r \in Requests, AssignRole(r)
        PROVE  RoleInv'
    <2> DEFINE v == request[r].data.user
               role == request[r].data.role
    <2>1. CASE member[v] = Null
      BY <1>3, <1>1, <2>1 DEF AssignRole, Moves, Becomes
    <2>2. CASE member[v] # Null
      <3>0. role \in Roles /\ role # Null /\ Assigned(role) # Null
        <4>1. request[r].data \in Appointments
          BY <1>3 DEF AssignRole, At, AdminTypes, WellFormed
        <4>2. role \in Roles
          BY <4>1 DEF Appointments
        <4>3. Assigned(role) \in Members
          BY <4>2 DEF Assigned, Members
        <4> QED
          BY <4>2, <4>3, ProvidersAssumption, NullAssumption
      <3>1. /\ member' = [member EXCEPT ![v] = Assigned(role)]
            /\ appointed' = [appointed EXCEPT ![v] = role]
        BY <1>3, <2>2 DEF AssignRole
      <3> HIDE DEF v, role
      <3>2. \A u \in Users :
                /\ member'[u] = IF u = v THEN Assigned(role) ELSE member[u]
                /\ appointed'[u] = IF u = v THEN role ELSE appointed[u]
        BY <3>1 DEF RoleInv
      <3>3. /\ member' = [u \in Users |-> member'[u]]
            /\ appointed' = [u \in Users |-> appointed'[u]]
        BY <3>1 DEF RoleInv
      <3> QED
        BY <3>0, <3>2, <3>3 DEF RoleInv, RolesAreAppointed
    <2> QED
      BY <2>1, <2>2
  <1> QED
    BY <1>1, <1>2, <1>3, WritersOfMembers

LEMMA RoleInvariant == Spec => []RoleInv
  <1>1. Init => RoleInv
    <2> SUFFICES ASSUME Init PROVE RoleInv
      OBVIOUS
    <2>1. /\ appointed \in [Users -> Roles \cup {Null}]
          /\ member = [u \in Users |-> IF appointed[u] = Null THEN Null
                                       ELSE Assigned(appointed[u])]
      BY ProvidersAssumption DEF Init, SsoInit, AdminInit
    <2>2. \A u \in Users : appointed[u] # Null => Assigned(appointed[u]) # Null
      <3>1. \A role \in Roles : Assigned(role) \in Members
        BY DEF Assigned, Members
      <3> QED
        BY <2>1, <3>1, NullAssumption
    <2> QED
      BY <2>1, <2>2 DEF RoleInv, RolesAreAppointed
  <1>2. AdminTypes /\ RoleInv /\ [Next]_vars => RoleInv'
    BY RoleStep
  <1> QED
    BY <1>1, <1>2, TypesInvariant, PTL DEF Spec

\* sso.service.ts:335-350: whatever logins and appointments overlap, every
\* member has the role last assigned, or waits for one.
THEOREM RolesAreKept == Spec => []RolesAreAppointed
  <1>1. RoleInv => RolesAreAppointed
    BY DEF RoleInv
  <1> QED
    BY <1>1, RoleInvariant, PTL
-----------------------------------------------------------------------------
(* What the badge relies on: at most one provider is in use, and a request  *)
(* that is alone answers with the provider as it is stored.                 *)

OneLive == \A p, o \in Live : p = o

\* What the step that a request has reached says of its operation.
Proper(q) ==
    /\ q.pc # "idle" => q.op \in Ops
    /\ q.pc \in {"testing", "probe"} => q.op = "test"
    /\ q.pc = "verdict" =>
           q.op = "test" \/ (q.op = "revoke" /\ q.verdict = "revoked")
    /\ q.pc \in {"verdict", "ok"} /\ q.op = "test" =>
           q.verdict \in {"connected", "error"}

InUse(row) == \E p \in Live : idp[p] = row

\* What a request that is alone has found, or made of the provider.
Settled(q) ==
    /\ q.pc = "ok" /\ q.op = "get" =>
           IF q.row = Null THEN Live = {} ELSE InUse(q.row)
    /\ q.pc = "ok" /\ q.op = "upsert" => InUse(q.row)
    /\ q.pc = "verdict" /\ q.op = "revoke" => Live \subseteq {q.id}
    /\ q.pc = "ok" /\ q.op = "revoke" => Live = {}

\* What one step of a request does to all this.
Serves(r) ==
    LET q == request[r]
        next == request'[r]
    IN
    /\ q.pc # "idle" /\ next.pc # "idle" /\ next.op = q.op
    /\ Proper(next)
    /\ OneLive'
    /\ q.op \in {"get", "role"} => idp' = idp
    /\ q.pc # "failed"
    /\ next.pc # "failed" /\ q.op = "test" /\ Live # {} => Live' # {}
    /\ Settled(q) => Settled(request[r])'

\* The providers stay, and the request moves on.
LEMMA BecomesServes ==
    ASSUME AdminTypes, OneLive, NEW r \in Requests, NEW state,
           Becomes(r, state), request[r].pc \notin {"idle", "failed"},
           state.pc # "idle", state.op = request[r].op, Proper(state),
           Settled(state)
    PROVE  Serves(r)
  <1>1. request'[r] = state /\ idp' = idp /\ Live' = Live
    BY DEF Becomes, AdminTypes, Live
  <1>2. OneLive'
    BY <1>1 DEF OneLive
  <1>3. Settled(request[r])'
    BY <1>1 DEF Settled, InUse
  <1> QED
    BY <1>1, <1>2, <1>3 DEF Serves

LEMMA FailsServes ==
    ASSUME AdminTypes, OneLive, NEW r \in Requests, Proper(request[r]),
           request[r].pc \notin {"idle", "failed"}, Moves(r, "failed")
    PROVE  Serves(r)
  <1> DEFINE state == [Idle EXCEPT !.pc = "failed", !.op = request[r].op]
  <1>1. state.pc = "failed" /\ state.op = request[r].op
    BY DEF Idle
  <1>2. Becomes(r, state)
    BY DEF Moves
  <1> HIDE DEF state
  <1>3. Proper(state) /\ Settled(state)
    BY <1>1 DEF Proper, Settled
  <1> QED
    BY <1>1, <1>2, <1>3, BecomesServes

LEMMA ReadCurrentServes ==
    ASSUME AdminTypes, OneLive, NEW r \in Requests, Proper(request[r]),
           ReadCurrent(r)
    PROVE  Serves(r)
  <1> DEFINE q == request[r]
  <1>0. /\ q \in RequestStates /\ q.pc \in {"access", "current"}
        /\ q.op \in Ops
    BY DEF AdminTypes, ReadCurrent, At, Proper
  <1>1. CASE q.op = "get"
    <2> DEFINE row == IF Live = {} THEN Null
                      ELSE idp[CHOOSE p \in Live : TRUE]
               state == [q EXCEPT !.pc = "ok", !.row = row]
    <2>1. Becomes(r, state)
      BY <1>1 DEF ReadCurrent, CurrentProvider
    <2>2. state.pc = "ok" /\ state.op = "get" /\ state.row = row
      BY <1>0, <1>1 DEF RequestStates
    <2>3. IF row = Null THEN Live = {} ELSE InUse(row)
      BY LiveFacts DEF InUse
    <2> HIDE DEF state, row
    <2>4. Proper(state) /\ Settled(state)
      BY <2>2, <2>3 DEF Proper, Settled, Ops
    <2> QED
      BY <1>0, <1>1, <2>1, <2>2, <2>4, BecomesServes
  <1>2. CASE Moves(r, "failed")
    BY <1>0, <1>2, FailsServes
  <1>3. ASSUME q.op = "test",
               NEW p \in Live, Becomes(r, [q EXCEPT !.pc = "testing", !.id = p])
        PROVE  Serves(r)
    <2> DEFINE state == [q EXCEPT !.pc = "testing", !.id = p]
    <2>1. state.pc = "testing" /\ state.op = "test"
      BY <1>0, <1>3 DEF RequestStates
    <2>2. Becomes(r, state)
      BY <1>3
    <2> HIDE DEF state
    <2>3. Proper(state) /\ Settled(state)
      BY <2>1 DEF Proper, Settled, Ops
    <2> QED
      BY <1>0, <1>3, <2>1, <2>2, <2>3, BecomesServes
  <1>4. ASSUME q.op = "revoke",
               NEW p \in Live, Becomes(r, [q EXCEPT !.pc = "verdict", !.id = p,
                                                   !.verdict = "revoked"])
        PROVE  Serves(r)
    <2> DEFINE state == [q EXCEPT !.pc = "verdict", !.id = p,
                                  !.verdict = "revoked"]
    <2>1. /\ state.pc = "verdict" /\ state.op = "revoke"
          /\ state.verdict = "revoked" /\ state.id = p
      BY <1>0, <1>4 DEF RequestStates
    <2>2. Becomes(r, state)
      BY <1>4
    <2> HIDE DEF state
    <2>3. Proper(state) /\ Settled(state)
      BY <2>1 DEF Proper, Settled, Ops, OneLive
    <2> QED
      BY <1>0, <1>4, <2>1, <2>2, <2>3, BecomesServes
  <1>5. ASSUME NEW p, Becomes(r, [q EXCEPT !.pc = "retire", !.id = p])
        PROVE  Serves(r)
    <2> DEFINE state == [q EXCEPT !.pc = "retire", !.id = p]
    <2>1. state.pc = "retire" /\ state.op = q.op
      BY <1>0 DEF RequestStates
    <2>2. Becomes(r, state)
      BY <1>5
    <2> HIDE DEF state
    <2>3. Proper(state) /\ Settled(state)
      BY <1>0, <2>1 DEF Proper, Settled
    <2> QED
      BY <1>0, <2>1, <2>2, <2>3, BecomesServes
  <1> QED
    BY <1>1, <1>2, <1>3, <1>4, <1>5 DEF ReadCurrent, CurrentProvider

LEMMA MovesOnServes ==
    ASSUME AdminTypes, OneLive, NEW r \in Requests, Proper(request[r]),
           AllowAssign(r) \/ Probe(r) \/ Refuse(r) \/ RequestFails(r)
    PROVE  Serves(r)
  <1> DEFINE q == request[r]
  <1>0. q \in RequestStates
    BY DEF AdminTypes
  <1>1. CASE AllowAssign(r)
    <2> DEFINE state == [q EXCEPT !.pc = "assign"]
    <2>1. Becomes(r, state) /\ q.pc = "access"
      BY <1>1 DEF AllowAssign, Moves, At
    <2>2. state.pc = "assign" /\ state.op = q.op
      BY <1>0 DEF RequestStates
    <2> HIDE DEF state
    <2>3. Proper(state) /\ Settled(state)
      BY <2>1, <2>2 DEF Proper, Settled
    <2> QED
      BY <2>1, <2>2, <2>3, BecomesServes
  <1>2. CASE Probe(r)
    <2>1. PICK v \in {"connected", "error"} :
              Becomes(r, [q EXCEPT !.pc = "verdict", !.verdict = v])
              /\ q.pc = "probe"
      BY <1>2 DEF Probe, At
    <2> DEFINE state == [q EXCEPT !.pc = "verdict", !.verdict = v]
    <2>2. state.pc = "verdict" /\ state.verdict = v /\ state.op = q.op
      BY <1>0 DEF RequestStates
    <2>3. Becomes(r, state)
      BY <2>1
    <2> HIDE DEF state
    <2>4. q.op = "test"
      BY <2>1 DEF Proper
    <2>5. Proper(state) /\ Settled(state)
      BY <2>2, <2>4 DEF Proper, Settled, Ops
    <2> QED
      BY <2>1, <2>2, <2>3, <2>5, BecomesServes
  <1>3. CASE Refuse(r) \/ RequestFails(r)
    BY <1>3, FailsServes DEF Refuse, RequestFails, At
  <1> QED
    BY <1>1, <1>2, <1>3

LEMMA RetireServes ==
    ASSUME AdminTypes, OneLive, NEW r \in Requests, Proper(request[r]),
           RetireOthers(r)
    PROVE  Serves(r)
  <1> DEFINE q == request[r]
             retired == Live \ {q.id}
             state == [q EXCEPT !.pc = "write"]
  <1>0. /\ q \in RequestStates /\ q.pc = "retire"
        /\ q.op \in {"upsert", "preset"}
    BY DEF AdminTypes, RetireOthers, At, WellFormed
  <1>1. /\ idp' = [p \in Providers |->
                      IF p \in retired THEN [idp[p] EXCEPT !.status = "revoked"]
                      ELSE idp[p]]
        /\ request' = [request EXCEPT ![r] = state]
    BY DEF RetireOthers
  <1>2. state.pc = "write" /\ state.op = q.op
    BY <1>0 DEF RequestStates
  <1>3. \A p \in retired : [idp[p] EXCEPT !.status = "revoked"].status
                               = "revoked"
    BY LiveFacts DEF AdminTypes, Rows
  <1> HIDE DEF state
  <1>4. request'[r] = state
    BY <1>1 DEF AdminTypes
  <1>5. Live' \subseteq Live
    BY <1>1, <1>3 DEF Live
  <1>6. OneLive'
    BY <1>5 DEF OneLive
  <1>7. Proper(state) /\ Settled(request[r])'
    BY <1>0, <1>2, <1>4 DEF Proper, Settled, Ops
  <1> QED
    BY <1>0, <1>2, <1>4, <1>6, <1>7 DEF Serves

\* After a row is stored that is in use, it is the only one; after one that
\* is not, the others are those that were.
LEMMA StoreLive ==
    ASSUME AdminTypes, NEW r \in Requests, NEW row \in Rows, NEW state,
           request[r].id \in Providers, Store(r, row, state),
           ~Moves(r, "failed")
    PROVE  LET id == request[r].id IN
           /\ request'[r] = state /\ idp'[id] = row
           /\ row.status # "revoked" => Live' = {id}
           /\ row.status = "revoked" => Live' = Live \ {id}
  <1> DEFINE id == request[r].id
  <1>1. /\ idp' = [idp EXCEPT ![id] = row]
        /\ request' = [request EXCEPT ![r] = state]
        /\ row.status # "revoked" => Live \ {id} = {}
    BY DEF Store
  <1>2. row # Null
    BY NullAssumption
  <1> HIDE DEF id
  <1>3. /\ request'[r] = state
        /\ \A p \in Providers : idp'[p] = IF p = id THEN row ELSE idp[p]
    BY <1>1 DEF AdminTypes
  <1> QED
    BY <1>1, <1>2, <1>3 DEF Live, id

LEMMA WritesServes ==
    ASSUME AdminTypes, OneLive, NEW r \in Requests, Proper(request[r]),
           WriteProvider(r) \/ MarkTesting(r) \/ StoreVerdict(r),
           ~Moves(r, "failed")
    PROVE  Serves(r)
  <1> DEFINE q == request[r]
             row == idp[q.id]
  <1>0. q \in RequestStates /\ WellFormed(q) /\ HasRow(q, idp)
    BY DEF AdminTypes
  <1>1. CASE WriteProvider(r)
    <2> DEFINE new == Written(q)
               state == Done(q, new)
    <2>1. /\ q.pc = "write" /\ q.op \in {"upsert", "preset"}
          /\ q.id \in Providers /\ Store(r, new, state)
      BY <1>0, <1>1 DEF WriteProvider, At, WellFormed
    <2>2. new \in Rows
      BY <1>0, <1>1, WrittenType DEF WriteProvider, At, WellFormed
    <2>3. new.status # "revoked"
      BY DEF Written
    <2>4. state.pc = "ok" /\ state.op = q.op /\ state.row = new
      BY <1>0 DEF Done, RequestStates
    <2> HIDE DEF new, state
    <2>5. request'[r] = state /\ idp'[q.id] = new /\ Live' = {q.id}
      BY <2>1, <2>2, <2>3, StoreLive
    <2>6. OneLive' /\ Proper(state)
      BY <2>1, <2>4, <2>5 DEF OneLive, Proper, Ops
    <2>7. Settled(request[r])'
      BY <2>1, <2>4, <2>5 DEF Settled, InUse
    <2> QED
      BY <2>1, <2>4, <2>5, <2>6, <2>7 DEF Serves
  <1>2. CASE MarkTesting(r)
    <2> DEFINE new == [row EXCEPT !.status = "testing"]
               state == [q EXCEPT !.pc = "probe"]
    <2>1. q.pc = "testing" /\ q.id \in Providers /\ row \in Rows
          /\ Store(r, new, state) /\ q.op = "test"
      BY <1>0, <1>2 DEF MarkTesting, At, WellFormed, HasRow, AdminTypes, Proper
    <2>2. new \in Rows /\ new.status = "testing"
      BY <2>1 DEF Rows, Statuses
    <2>3. state.pc = "probe" /\ state.op = "test"
      BY <1>0, <2>1 DEF RequestStates
    <2> HIDE DEF new, state
    <2>4. request'[r] = state /\ Live' = {q.id}
      BY <2>1, <2>2, StoreLive
    <2>5. OneLive' /\ Proper(state) /\ Settled(request[r])'
      BY <2>3, <2>4 DEF OneLive, Proper, Ops, Settled
    <2> QED
      BY <2>1, <2>3, <2>4, <2>5 DEF Serves
  <1>3. CASE StoreVerdict(r)
    <2> DEFINE new == [row EXCEPT !.status = q.verdict]
               state == Done(q, Null)
    <2>1. q.pc = "verdict" /\ q.id \in Providers /\ row \in Rows
          /\ q.verdict \in Statuses /\ Store(r, new, state)
      BY <1>0, <1>3 DEF StoreVerdict, At, WellFormed, HasRow, AdminTypes,
                        RequestStates, Statuses
    <2>2. new \in Rows /\ new.status = q.verdict
      BY <2>1 DEF Rows
    <2>3. /\ state.pc = "ok" /\ state.op = q.op
          /\ state.verdict = q.verdict
      BY <1>0 DEF Done, RequestStates
    <2> HIDE DEF new, state
    <2>4. CASE q.op = "test"
      <3>1. q.verdict \in {"connected", "error"}
        BY <2>1, <2>4 DEF Proper
      <3>2. request'[r] = state /\ Live' = {q.id}
        BY <2>1, <2>2, <3>1, StoreLive
      <3>3. OneLive' /\ Proper(state) /\ Settled(request[r])'
        BY <2>3, <2>4, <3>1, <3>2 DEF OneLive, Proper, Ops, Settled
      <3> QED
        BY <2>1, <2>3, <2>4, <3>2, <3>3 DEF Serves
    <2>5. CASE q.op = "revoke"
      <3>1. q.verdict = "revoked"
        BY <2>1, <2>5 DEF Proper
      <3>2. request'[r] = state /\ Live' = Live \ {q.id}
        BY <2>1, <2>2, <3>1, StoreLive
      <3>3. OneLive' /\ Proper(state)
        BY <2>3, <2>5, <3>2 DEF OneLive, Proper, Ops
      <3>4. Settled(q) => Settled(request[r])'
        BY <2>1, <2>3, <2>5, <3>2 DEF Settled
      <3> QED
        BY <2>1, <2>3, <2>5, <3>2, <3>3, <3>4 DEF Serves
    <2> QED
      BY <2>1, <2>4, <2>5 DEF Proper
  <1> QED
    BY <1>1, <1>2, <1>3

LEMMA AssignServes ==
    ASSUME AdminTypes, OneLive, NEW r \in Requests, Proper(request[r]),
           AssignRole(r), ~Moves(r, "failed")
    PROVE  Serves(r)
  <1> DEFINE q == request[r]
             state == Done(q, Null)
  <1>1. /\ request' = [request EXCEPT ![r] = state] /\ idp' = idp
        /\ q.pc = "assign" /\ q.op = "role" /\ q \in RequestStates
    BY DEF AssignRole, At, AdminTypes, WellFormed
  <1>2. state.pc = "ok" /\ state.op = "role"
    BY <1>1 DEF Done, RequestStates
  <1> HIDE DEF state
  <1>3. request'[r] = state /\ Live' = Live
    BY <1>1 DEF AdminTypes, Live
  <1>4. OneLive' /\ Proper(state) /\ Settled(request[r])'
    BY <1>2, <1>3 DEF OneLive, Proper, Ops, Settled
  <1> QED
    BY <1>1, <1>2, <1>3, <1>4 DEF Serves

LEMMA ServeServes ==
    ASSUME AdminTypes, OneLive, NEW r \in Requests, Proper(request[r]),
           Serve(r) \/ RequestFails(r)
    PROVE  Serves(r)
  <1>1. ASSUME WriteProvider(r) \/ MarkTesting(r) \/ StoreVerdict(r)
               \/ AssignRole(r)
        PROVE  request[r].pc \notin {"idle", "failed"}
    BY <1>1 DEF WriteProvider, MarkTesting, StoreVerdict, AssignRole, At
  <1> QED
    BY <1>1, FailsServes, ReadCurrentServes, MovesOnServes, RetireServes,
       WritesServes, AssignServes DEF Serve
-----------------------------------------------------------------------------
(* What the settings page shows.                                            *)

WizardFields ==
    /\ wizard \in WizardStates
    /\ assigning \in Users \cup {Null}
    /\ overlap \in BOOLEAN /\ doubt \in BOOLEAN

\* What only holds when nothing is in doubt: a test or its reading again goes
\* on about a provider that there is, or the page shows none.
Sure(q) ==
    /\ q.op = "test" /\ q.pc \notin {"idle", "failed"} => Live # {}
    /\ q.op = "get" /\ q.pc \notin {"idle", "failed"} /\ Live = {} =>
           wizard.known = Null /\ wizard.phase # "connected"

\* BadgeTellsTruth of a page that rests.
Agrees ==
    /\ wizard.known = Null => Live = {}
    /\ wizard.known # Null => InUse(wizard.known)
    /\ wizard.phase = "connected" =>
           wizard.known # Null /\ wizard.known.status = "connected"

Aside(q) == q.pc = "idle" \/ q.op = "role"

MountInv ==
    wizard.loading = "mount" =>
        /\ wizard.known = Null /\ wizard.phase = "idle" /\ ~wizard.revokeOpen
        /\ \A r \in Requests :
               request[r].pc # "idle" => request[r].op \in {"role", "preset"}

AloneInv ==
    ~overlap =>
        /\ \A r, s \in Requests :
               request[r].pc # "idle" /\ request[s].pc # "idle" => r = s
        /\ \A r \in Requests : Settled(request[r])

SureInv == ~overlap /\ ~doubt => \A r \in Requests : Sure(request[r])

PresetInv ==
    \A r \in Requests :
        request[r].pc # "idle" /\ request[r].op = "preset" => overlap /\ doubt

AgreeInv ==
    /\ ~doubt /\ wizard.loading = "no"
    /\ \A r \in Requests : Aside(request[r])
    => Agrees

BadgeInv ==
    /\ WizardFields
    /\ OneLive
    /\ \A r \in Requests : Proper(request[r])
    /\ MountInv /\ AloneInv /\ SureInv /\ PresetInv /\ AgreeInv

\* Only one request changes.
Only(r) ==
    \A s \in Requests :
        request'[s] = IF s = r THEN request'[r] ELSE request[s]

LEMMA EffectOnly ==
    ASSUME AdminTypes, NEW r \in Requests, AdminEffect(r)
    PROVE  Only(r)
  BY DEF AdminEffect, AdminTypes, Only

LEMMA IdleIsQuiet ==
    ASSUME NEW q, q.pc = "idle"
    PROVE  Settled(q) /\ Sure(q) /\ Proper(q) /\ Aside(q)
  BY DEF Settled, Sure, Proper, Aside

LEMMA BadgeServe ==
    ASSUME AdminTypes, BadgeInv, NEW r \in Requests,
           Serve(r) \/ RequestFails(r),
           UNCHANGED <<wizard, assigning, overlap, doubt>>
    PROVE  BadgeInv'
  <1>1. Only(r) /\ Serves(r)
    BY ServeEffect, EffectOnly, ServeServes DEF BadgeInv
  <1> DEFINE q == request[r]
             next == request'[r]
  <1>2. /\ q.pc # "idle" /\ next.pc # "idle" /\ next.op = q.op
        /\ Proper(next) /\ OneLive' /\ q.pc # "failed"
        /\ q.op \in {"get", "role"} => idp' = idp
        /\ next.pc # "failed" /\ q.op = "test" /\ Live # {} => Live' # {}
        /\ Settled(q) => Settled(request[r])'
    BY <1>1 DEF Serves
  <1>3. /\ \A s \in Requests :
               (request'[s].pc = "idle") <=> (request[s].pc = "idle")
        /\ \A s \in Requests : request'[s].op = request[s].op
    BY <1>1, <1>2 DEF Only
  <1>4. WizardFields'
    BY DEF BadgeInv, WizardFields
  <1>5. \A s \in Requests : Proper(request'[s])
    BY <1>1, <1>2 DEF BadgeInv, Only
  <1>6. MountInv'
    BY <1>3 DEF BadgeInv, MountInv
  <1>7. AloneInv'
    <2> SUFFICES ASSUME ~overlap
                 PROVE  (/\ \A o, s \in Requests :
                                request[o].pc # "idle" /\ request[s].pc # "idle"
                                => o = s
                         /\ \A s \in Requests : Settled(request[s]))'
      BY DEF AloneInv
    <2>1. /\ \A s \in Requests \ {r} : request[s].pc = "idle"
          /\ Settled(q)
      BY <1>2 DEF BadgeInv, AloneInv
    <2>2. \A s \in Requests \ {r} : request'[s].pc = "idle"
      BY <1>3, <2>1
    <2>3. \A s \in Requests \ {r} : Settled(request[s])'
      BY <2>2 DEF Settled
    <2> QED
      BY <1>2, <2>1, <2>2, <2>3
  <1>8. SureInv'
    <2> SUFFICES ASSUME ~overlap, ~doubt, NEW s \in Requests
                 PROVE  Sure(request[s])'
      BY DEF SureInv
    <2>1. Sure(request[r])
      BY DEF BadgeInv, SureInv
    <2>2. s # r => request'[s].pc = "idle"
      BY <1>2, <1>3 DEF BadgeInv, AloneInv
    <2>3. idp' = idp => Live' = Live
      BY DEF Live
    <2>4. Sure(request[r])'
      BY <1>2, <2>1, <2>3 DEF Sure
    <2> QED
      BY <2>2, <2>4 DEF Sure
  <1>9. PresetInv'
    BY <1>3 DEF BadgeInv, PresetInv
  <1>10. AgreeInv'
    <2> SUFFICES ASSUME ~doubt, wizard.loading = "no",
                        \A s \in Requests : Aside(request'[s])
                 PROVE  Agrees'
      BY DEF AgreeInv, Aside
    <2>1. \A s \in Requests : Aside(request[s])
      BY <1>3 DEF Aside
    <2>2. idp' = idp /\ Live' = Live
      BY <1>2, <2>1 DEF Aside, Live
    <2> QED
      BY <2>1, <2>2 DEF BadgeInv, AgreeInv, Agrees, InUse
  <1> QED
    BY <1>2, <1>4, <1>5, <1>6, <1>7, <1>8, <1>9, <1>10 DEF BadgeInv, Proper

\* The providers stay, one request moves, and it is proper.
LEMMA BadgeMoves ==
    ASSUME BadgeInv, NEW r \in Requests, Only(r), UNCHANGED idp,
           Proper(request'[r])
    PROVE  /\ Live' = Live /\ OneLive'
           /\ \A s \in Requests : Proper(request[s])'
           /\ \A q : /\ Settled(q)' <=> Settled(q)
                     /\ InUse(q)' <=> InUse(q)
  <1>1. Live' = Live
    BY DEF Live
  <1>2. \A s \in Requests : Proper(request'[s])
    BY DEF BadgeInv, Only
  <1> QED
    BY <1>1, <1>2 DEF BadgeInv, OneLive, Proper, Settled, InUse

\* A visitor is answered.
LEMMA BadgePreset ==
    ASSUME AdminTypes, BadgeInv, NEW r \in Requests, PresetDone(r),
           UNCHANGED <<wizard, assigning, overlap, doubt>>
    PROVE  BadgeInv'
  <1>1. /\ Only(r) /\ idp' = idp /\ request'[r] = Idle
        /\ request[r].pc # "idle" /\ request[r].op = "preset"
    BY DEF PresetDone, Answered, Becomes, AdminTypes, Only
  <1>2. Idle.pc = "idle" /\ Proper(Idle)
    BY IdleFacts, IdleIsQuiet
  <1>3. overlap /\ doubt
    BY <1>1 DEF BadgeInv, PresetInv
  <1>4. OneLive' /\ \A s \in Requests : Proper(request[s])'
    BY <1>1, <1>2, BadgeMoves
  <1>5. \A s \in Requests :
            request'[s].pc # "idle" => request'[s] = request[s]
    BY <1>1, <1>2 DEF Only
  <1>6. WizardFields' /\ MountInv' /\ PresetInv'
    BY <1>5 DEF BadgeInv, WizardFields, MountInv, PresetInv
  <1> QED
    BY <1>3, <1>4, <1>6 DEF BadgeInv, AloneInv, SureInv, AgreeInv

LEMMA BadgeVisitor ==
    ASSUME AdminTypes, BadgeInv, NEW r \in Requests, VisitorStartsPreset(r)
    PROVE  BadgeInv'
  <1>1. PICK c \in Presets :
            Becomes(r, [Idle EXCEPT !.pc = "current", !.op = "preset",
                           !.data = [config |-> c, secret |-> TRUE]])
    BY DEF VisitorStartsPreset, StartPreset
  <1> DEFINE state == [Idle EXCEPT !.pc = "current", !.op = "preset",
                                   !.data = [config |-> c, secret |-> TRUE]]
  <1>2. state.pc = "current" /\ state.op = "preset"
    BY DEF Idle
  <1> HIDE DEF state
  <1>3. Only(r) /\ idp' = idp /\ request'[r] = state
    BY <1>1 DEF Becomes, AdminTypes, Only, state
  <1>4. /\ overlap' = TRUE /\ doubt' = TRUE
        /\ UNCHANGED <<wizard, assigning>>
    BY DEF VisitorStartsPreset
  <1>5. Proper(state)
    BY <1>2 DEF Proper, Ops
  <1>6. OneLive' /\ \A s \in Requests : Proper(request[s])'
    BY <1>3, <1>5, BadgeMoves
  <1>7. WizardFields' /\ PresetInv'
    BY <1>4 DEF BadgeInv, WizardFields, PresetInv
  <1>8. MountInv'
    BY <1>2, <1>3, <1>4 DEF BadgeInv, MountInv, Only
  <1> QED
    BY <1>4, <1>6, <1>7, <1>8 DEF BadgeInv, AloneInv, SureInv, AgreeInv

\* The user turns the page, and nothing is sent.
LEMMA BadgeStays ==
    ASSUME BadgeInv, SaveRefused \/ Cancel \/ OpenRevoke \/ CloseRevoke
    PROVE  BadgeInv'
  <1>0. wizard \in WizardStates
    BY DEF BadgeInv, WizardFields
  <1>1. /\ UNCHANGED <<idp, request, assigning, overlap, doubt>>
        /\ wizard' \in WizardStates
        /\ wizard'.loading = wizard.loading /\ wizard'.known = wizard.known
        /\ wizard'.phase = wizard.phase \/ wizard'.phase \in {"idle", "error"}
        /\ wizard.loading # "mount" \/ wizard.revokeOpen
    BY <1>0 DEF SaveRefused, Cancel, OpenRevoke, CloseRevoke, Stays,
                FormShown, WizardStates
  <1>2. Live' = Live
    BY <1>1 DEF Live
  <1>3. WizardFields' /\ MountInv' /\ PresetInv'
    BY <1>1 DEF BadgeInv, WizardFields, MountInv, PresetInv
  <1>4. OneLive' /\ AloneInv' /\ \A r \in Requests : Proper(request[r])'
    BY <1>1, <1>2 DEF BadgeInv, OneLive, AloneInv, Settled, InUse, Proper
  <1>5. SureInv'
    BY <1>1, <1>2 DEF BadgeInv, SureInv, Sure
  <1>6. AgreeInv'
    BY <1>1, <1>2 DEF BadgeInv, AgreeInv, Agrees, Aside, InUse
  <1> QED
    BY <1>3, <1>4, <1>5, <1>6 DEF BadgeInv

LEMMA BadgeQuiet ==
    ASSUME BadgeInv,
           UNCHANGED <<idp, request, wizard, assigning, overlap, doubt>>
    PROVE  BadgeInv'
  <1>1. Live' = Live
    BY DEF Live
  <1>2. WizardFields' /\ MountInv' /\ PresetInv'
    BY DEF BadgeInv, WizardFields, MountInv, PresetInv
  <1>3. OneLive' /\ AloneInv' /\ \A r \in Requests : Proper(request[r])'
    BY <1>1 DEF BadgeInv, OneLive, AloneInv, Settled, InUse, Proper
  <1>4. SureInv' /\ AgreeInv'
    BY <1>1 DEF BadgeInv, SureInv, Sure, AgreeInv, Agrees, Aside, InUse
  <1> QED
    BY <1>2, <1>3, <1>4 DEF BadgeInv
\* A request leaves, alone or beside others.
LEMMA BadgeLeaves ==
    ASSUME AdminTypes, BadgeInv, NEW r \in Requests, NEW op, NEW data,
           op \in {"get", "upsert", "revoke", "role"},
           Ask(r, op, Owner, data), Sends(r, wizard'), WizardFields',
           wizard'.known = wizard.known,
           op = "role" => wizard' = wizard,
           op = "get" => wizard.known = Null /\ wizard'.phase # "connected",
           op # "role" => wizard'.loading # "mount"
    PROVE  BadgeInv'
  <1> DEFINE state == [Idle EXCEPT !.pc = "access", !.op = op, !.user = Owner,
                                   !.data = data]
  <1>1. state.pc = "access" /\ state.op = op
    BY DEF Idle
  <1>2. Becomes(r, state) /\ request[r].pc = "idle"
    BY DEF Ask, At
  <1> HIDE DEF state
  <1>3. Only(r) /\ idp' = idp /\ request'[r] = state
    BY <1>2 DEF Becomes, AdminTypes, Only
  <1>4. /\ overlap' <=> \E s \in Requests \ {r} : request[s].pc # "idle"
        /\ doubt' = doubt
    BY DEF Sends, At
  <1>5. Proper(state) /\ Settled(state)
    BY <1>1 DEF Proper, Settled, Ops
  <1>6. /\ Live' = Live /\ OneLive' /\ \A s \in Requests : Proper(request[s])'
        /\ \A q : Settled(q)' <=> Settled(q)
    BY <1>3, <1>5, BadgeMoves
  <1>7. MountInv'
    BY <1>1, <1>3 DEF BadgeInv, MountInv, Only
  <1>8. ASSUME ~overlap', NEW s \in Requests, s # r
        PROVE  request'[s].pc = "idle"
    BY <1>3, <1>4, <1>8 DEF Only
  <1>9. AloneInv'
    <2> SUFFICES ASSUME ~overlap'
                 PROVE  (/\ \A o, s \in Requests :
                                request[o].pc # "idle" /\ request[s].pc # "idle"
                                => o = s
                         /\ \A s \in Requests : Settled(request[s]))'
      BY DEF AloneInv
    <2>1. \A s \in Requests : Settled(request'[s])
      BY <1>3, <1>5, <1>8, IdleIsQuiet
    <2> QED
      BY <1>6, <1>8, <2>1 DEF Settled, InUse
  <1>10. SureInv'
    <2> SUFFICES ASSUME ~overlap', NEW s \in Requests
                 PROVE  Sure(request[s])'
      BY DEF SureInv
    <2>1. CASE s = r
      BY <1>1, <1>3, <2>1 DEF Sure
    <2>2. CASE s # r
      BY <1>8, <2>2 DEF Sure
    <2> QED
      BY <2>1, <2>2
  <1>11. PresetInv'
    <2> SUFFICES ASSUME NEW s \in Requests, request'[s].pc # "idle",
                        request'[s].op = "preset"
                 PROVE  overlap' /\ doubt'
      BY DEF PresetInv
    <2>1. s # r /\ request[s].pc # "idle" /\ request[s].op = "preset"
      BY <1>1, <1>3 DEF Only
    <2> QED
      BY <1>4, <2>1 DEF BadgeInv, PresetInv
  <1>12. AgreeInv'
    <2> SUFFICES ASSUME ~doubt, wizard'.loading = "no",
                        \A s \in Requests : Aside(request'[s])
                 PROVE  Agrees'
      BY <1>4 DEF AgreeInv, Aside
    <2>1. op = "role" /\ wizard' = wizard
      BY <1>1, <1>3 DEF Aside
    <2>2. \A s \in Requests : Aside(request[s])
      BY <1>2, <1>3 DEF Only, Aside
    <2>3. Agrees
      BY <2>1, <2>2 DEF BadgeInv, AgreeInv
    <2> QED
      BY <1>3, <1>6, <2>1, <2>3 DEF Agrees, InUse
  <1> QED
    BY <1>6, <1>7, <1>9, <1>10, <1>11, <1>12 DEF BadgeInv

LEMMA BadgeSends ==
    ASSUME AdminTypes, BadgeInv, NEW r \in Requests,
           Mount(r) \/ OnSaveAndTest(r) \/ OnRevoke(r) \/ Assign(r)
    PROVE  BadgeInv'
  <1>0. wizard \in WizardStates /\ WizardFields
    BY DEF BadgeInv, WizardFields
  <1>1. ASSUME NEW state \in WizardStates, Sends(r, state),
               assigning' \in Users \cup {Null}
        PROVE  WizardFields' /\ wizard' = state /\ Sends(r, wizard')
    BY <1>0, <1>1 DEF Sends, WizardFields
  <1>2. CASE Mount(r)
    <2> DEFINE state == [wizard EXCEPT !.loading = "yes"]
    <2>1. /\ Ask(r, "get", Owner, Null) /\ Sends(r, state)
          /\ wizard.known = Null /\ wizard.phase = "idle"
          /\ assigning' = assigning
      BY <1>2 DEF Mount, BadgeInv, MountInv
    <2>2. /\ state \in WizardStates /\ state.known = wizard.known
          /\ state.phase = wizard.phase /\ state.loading = "yes"
      BY <1>0 DEF WizardStates
    <2> HIDE DEF state
    <2> QED
      BY <1>0, <1>1, <2>1, <2>2, BadgeLeaves DEF WizardFields
  <1>3. CASE OnSaveAndTest(r)
    <2> DEFINE state == [wizard EXCEPT !.phase = "connecting"]
    <2>1. PICK data : Ask(r, "upsert", Owner, data)
      BY <1>3 DEF OnSaveAndTest
    <2>2. /\ Sends(r, state) /\ wizard.loading = "no"
          /\ assigning' = assigning
      BY <1>3 DEF OnSaveAndTest, FormShown
    <2>3. /\ state \in WizardStates /\ state.known = wizard.known
          /\ state.loading = wizard.loading
      BY <1>0 DEF WizardStates
    <2> HIDE DEF state
    <2> QED
      BY <1>0, <1>1, <2>1, <2>2, <2>3, BadgeLeaves DEF WizardFields
  <1>4. CASE OnRevoke(r)
    <2>1. /\ Ask(r, "revoke", Owner, Null) /\ Sends(r, wizard)
          /\ wizard.loading # "mount" /\ assigning' = assigning
      BY <1>4 DEF OnRevoke, BadgeInv, MountInv
    <2> QED
      BY <1>0, <1>1, <2>1, BadgeLeaves DEF WizardFields
  <1>5. CASE Assign(r)
    <2>1. PICK data : Ask(r, "role", Owner, data)
      BY <1>5 DEF Assign
    <2>2. Sends(r, wizard) /\ assigning' \in Users
      BY <1>5 DEF Assign
    <2> QED
      BY <1>0, <1>1, <2>1, <2>2, BadgeLeaves
  <1> QED
    BY <1>2, <1>3, <1>4, <1>5
\* What the page becomes with an answer.
Shown(q) == IF q.pc = "ok" THEN AfterSuccess(q) ELSE AfterFailure(q)

LEMMA ShownFacts ==
    ASSUME wizard \in WizardStates, NEW q \in RequestStates, Proper(q),
           q.pc \in {"ok", "failed"}, q.op # "preset"
    PROVE  /\ Shown(q) \in WizardStates
           /\ q.op = "role" => Shown(q) = wizard
           /\ wizard.loading # "mount" => Shown(q).loading # "mount"
           /\ q.pc = "ok" /\ q.op = "get" =>
                  IF q.row = Null
                  THEN /\ Shown(q).known = wizard.known
                       /\ Shown(q).phase = wizard.phase
                  ELSE /\ Shown(q).known = q.row
                       /\ Shown(q).phase = PhaseOf(q.row)
           /\ q.pc = "ok" /\ q.op = "revoke" =>
                  Shown(q).known = Null /\ Shown(q).phase = "idle"
           /\ q.pc = "ok" /\ q.op = "test" => Shown(q).loading = "yes"
  <1>0. q.op \in Ops \ {"preset"} /\ q.row \in Rows \cup {Null}
    BY DEF Proper, RequestStates
  <1>1. CASE q.op = "role"
    BY <1>1 DEF Shown, AfterSuccess, AfterFailure
  <1>2. CASE q.op = "get"
    <2>1. q.row # Null => PhaseOf(q.row) \in {"connected", "error", "idle"}
      BY DEF PhaseOf
    <2> DEFINE phase == PhaseOf(q.row)
    <2>2. Shown(q) = IF q.pc = "failed" \/ q.row = Null
                     THEN [wizard EXCEPT !.loading = "no"]
                     ELSE [wizard EXCEPT !.loading = "no", !.known = q.row,
                                         !.phase = phase]
      BY <1>2 DEF Shown, AfterSuccess, AfterFailure, Reread
    <2> HIDE DEF phase
    <2> QED
      BY <1>0, <1>2, <2>1, <2>2 DEF WizardStates, phase
  <1>3. CASE q.op = "upsert"
    BY <1>0, <1>3 DEF Shown, AfterSuccess, AfterFailure, WizardStates
  <1>4. CASE q.op = "test"
    <2>1. q.pc = "ok" => q.verdict \in {"connected", "error"}
      BY <1>4 DEF Proper
    <2>2. Shown(q) = IF q.pc = "ok"
                     THEN [wizard EXCEPT !.phase = q.verdict, !.loading = "yes"]
                     ELSE [wizard EXCEPT !.phase = "error"]
      BY <1>4 DEF Shown, AfterSuccess, AfterFailure, Refreshing
    <2> QED
      BY <1>4, <2>1, <2>2 DEF WizardStates
  <1>5. CASE q.op = "revoke"
    BY <1>5 DEF Shown, AfterSuccess, AfterFailure, WizardStates
  <1> QED
    BY <1>0, <1>1, <1>2, <1>3, <1>4, <1>5 DEF Ops

\* A chain of requests ends with its answer.
LEMMA BadgeEnds ==
    ASSUME AdminTypes, BadgeInv, NEW r \in Requests, Answer(r),
           NextOp(request[r]) = Null
    PROVE  BadgeInv'
  <1> DEFINE q == request[r]
  <1>1. /\ q \in RequestStates /\ Proper(q) /\ WizardFields
        /\ q.pc \in {"ok", "failed"} /\ q.op # "preset"
        /\ wizard \in WizardStates
    BY DEF AdminTypes, BadgeInv, WizardFields, Answer, Answered
  <1>2. Only(r) /\ idp' = idp /\ request'[r] = Idle
    BY DEF Answer, Becomes, AdminTypes, Only
  <1>3. /\ wizard' = Shown(q)
        /\ assigning' = IF q.op = "role" THEN Null ELSE assigning
        /\ overlap' = overlap
        /\ doubt' = CASE q.op = "role" -> doubt
                      [] q.op \in {"get", "revoke"} ->
                             overlap \/ q.pc = "failed"
                             \/ (doubt /\ q.op = "get" /\ q.row = Null)
                      [] OTHER -> doubt \/ overlap \/ q.pc = "failed"
    BY DEF Answer, Shown
  <1>4. q.op \in {"get", "revoke", "role"} \/ q.pc = "failed"
    <2>1. "test" # Null /\ "get" # Null
      BY NullAssumption DEF Ops
    <2> QED
      BY <1>1, <2>1 DEF NextOp, Proper, Ops
  <1>5. /\ q.op = "role" => doubt' = doubt
        /\ q.op # "role" /\ q.pc = "failed" => doubt'
        /\ q.op # "role" /\ overlap => doubt'
        /\ q.op = "get" /\ q.row = Null /\ doubt => doubt'
        /\ doubt' \in BOOLEAN
    BY <1>1, <1>3 DEF WizardFields
  <1>6. WizardFields'
    BY <1>1, <1>3, <1>5, ShownFacts DEF WizardFields
  <1>7. /\ Live' = Live /\ OneLive' /\ \A s \in Requests : Proper(request[s])'
        /\ \A x : /\ Settled(x)' <=> Settled(x)
                  /\ InUse(x)' <=> InUse(x)
    BY <1>2, IdleFacts, IdleIsQuiet, BadgeMoves
  <1>8. Idle.pc = "idle" /\ Settled(Idle)
    BY IdleFacts, IdleIsQuiet
  <1>9. \A s \in Requests :
            request'[s].pc # "idle" => s # r /\ request'[s] = request[s]
    BY <1>2, <1>8 DEF Only
  <1>10. MountInv'
    <2>1. CASE q.op = "role"
      BY <1>1, <1>3, <1>9, <2>1, ShownFacts DEF BadgeInv, MountInv
    <2>2. CASE q.op # "role"
      <3>1. wizard.loading # "mount"
        BY <1>1, <2>2 DEF BadgeInv, MountInv
      <3> QED
        BY <1>1, <1>3, <3>1, ShownFacts DEF MountInv
    <2> QED
      BY <2>1, <2>2
  <1>11. AloneInv'
    <2> SUFFICES ASSUME ~overlap
                 PROVE  (/\ \A o, s \in Requests :
                                request[o].pc # "idle" /\ request[s].pc # "idle"
                                => o = s
                         /\ \A s \in Requests : Settled(request[s]))'
      BY <1>3 DEF AloneInv
    <2>1. \A s \in Requests : Settled(request'[s])
      BY <1>2, <1>8 DEF BadgeInv, AloneInv, Only
    <2>2. \A o, s \in Requests :
              request'[o].pc # "idle" /\ request'[s].pc # "idle" => o = s
      BY <1>9 DEF BadgeInv, AloneInv
    <2> QED
      BY <1>7, <2>1, <2>2 DEF Settled, InUse
  <1>12. SureInv'
    <2> SUFFICES ASSUME ~overlap, NEW s \in Requests
                 PROVE  Sure(request[s])'
      BY <1>3 DEF SureInv
    <2>1. request'[s].pc = "idle"
      BY <1>1, <1>2, <1>8, <1>9 DEF BadgeInv, AloneInv, Only
    <2> QED
      BY <2>1 DEF Sure
  <1>13. PresetInv'
    BY <1>3, <1>5, <1>9 DEF BadgeInv, PresetInv
  <1>14. AgreeInv'
    <2> SUFFICES ASSUME ~doubt', wizard'.loading = "no",
                        \A s \in Requests : Aside(request'[s])
                 PROVE  Agrees'
      BY DEF AgreeInv, Aside
    <2>1. CASE q.op = "role"
      <3>1. wizard' = wizard /\ ~doubt
        BY <1>1, <1>3, <1>5, <2>1, ShownFacts
      <3>2. \A s \in Requests : Aside(request[s])
        BY <1>2, <2>1 DEF Only, Aside
      <3> QED
        BY <1>7, <3>1, <3>2 DEF BadgeInv, AgreeInv, Agrees, InUse
    <2>2. CASE q.op # "role"
      <3>1. ~overlap /\ q.pc = "ok" /\ q.op \in {"get", "revoke"}
            /\ Settled(q)
        BY <1>1, <1>4, <1>5, <2>2 DEF BadgeInv, AloneInv
      <3>2. CASE q.op = "revoke"
        BY <1>1, <1>3, <1>7, <3>1, <3>2, ShownFacts DEF Settled, Agrees
      <3>3. CASE q.op = "get" /\ q.row = Null
        <4>1. ~doubt /\ Live = {}
          BY <1>5, <3>1, <3>3 DEF Settled
        <4>2. wizard.known = Null /\ wizard.phase # "connected"
          BY <3>1, <3>3, <4>1 DEF BadgeInv, SureInv, Sure
        <4> QED
          BY <1>1, <1>3, <1>7, <3>1, <3>3, <4>1, <4>2, ShownFacts DEF Agrees
      <3>4. CASE q.op = "get" /\ q.row # Null
        <4>1. InUse(q.row)
          BY <3>1, <3>4 DEF Settled
        <4>2. wizard'.known = q.row /\ wizard'.phase = PhaseOf(q.row)
          BY <1>1, <1>3, <3>1, <3>4, ShownFacts
        <4>3. PhaseOf(q.row) = "connected" => q.row.status = "connected"
          BY DEF PhaseOf
        <4>4. InUse(wizard.known)'
          BY <1>2, <1>7, <4>1, <4>2 DEF InUse
        <4> QED
          BY <3>4, <4>2, <4>3, <4>4 DEF Agrees
      <3> QED
        BY <3>1, <3>2, <3>3, <3>4
    <2> QED
      BY <2>1, <2>2
  <1> QED
    BY <1>6, <1>7, <1>10, <1>11, <1>12, <1>13, <1>14 DEF BadgeInv

\* It goes on with the next request: the test of what was saved, or the
\* reading again of what was tested.
LEMMA BadgeGoesOn ==
    ASSUME AdminTypes, BadgeInv, NEW r \in Requests, Answer(r),
           NextOp(request[r]) # Null
    PROVE  BadgeInv'
  <1> DEFINE q == request[r]
             next == NextOp(q)
             state == [Idle EXCEPT !.pc = "access", !.op = next, !.user = Owner]
  <1>1. /\ q \in RequestStates /\ Proper(q) /\ WizardFields
        /\ q.pc = "ok" /\ wizard \in WizardStates
        /\ \/ q.op = "upsert" /\ next = "test"
           \/ q.op = "test" /\ next = "get"
    BY DEF AdminTypes, BadgeInv, WizardFields, Answer, Answered, NextOp
  <1>2. state.pc = "access" /\ state.op = next
    BY DEF Idle
  <1>3. /\ Becomes(r, state)
        /\ wizard' = Shown(q) /\ assigning' = assigning
        /\ overlap' = (\E s \in Requests \ {r} : ~At(s, "idle"))
        /\ doubt' = (doubt \/ overlap \/ q.pc = "failed")
    BY <1>1 DEF Answer, Shown
  <1> HIDE DEF state, next
  <1>4. Only(r) /\ idp' = idp /\ request'[r] = state
    BY <1>3 DEF Becomes, AdminTypes, Only
  <1>5. /\ overlap' <=> \E s \in Requests \ {r} : request[s].pc # "idle"
        /\ doubt' <=> doubt \/ overlap
        /\ overlap' \in BOOLEAN /\ doubt' \in BOOLEAN
    BY <1>1, <1>3 DEF At
  <1>6. Proper(state) /\ Settled(state)
    BY <1>1, <1>2 DEF Proper, Settled, Ops
  <1>7. /\ Live' = Live /\ OneLive' /\ \A s \in Requests : Proper(request[s])'
        /\ \A x : Settled(x)' <=> Settled(x)
    BY <1>4, <1>6, BadgeMoves
  <1>8. WizardFields'
    BY <1>1, <1>3, <1>5, ShownFacts DEF WizardFields
  <1>9. MountInv'
    <2>1. wizard.loading # "mount"
      BY <1>1 DEF BadgeInv, MountInv
    <2> QED
      BY <1>1, <1>3, <2>1, ShownFacts DEF MountInv
  <1>10. ASSUME ~overlap', NEW s \in Requests, s # r
         PROVE  request'[s].pc = "idle"
    BY <1>4, <1>5, <1>10 DEF Only
  <1>11. AloneInv'
    <2> SUFFICES ASSUME ~overlap'
                 PROVE  (/\ \A o, s \in Requests :
                                request[o].pc # "idle" /\ request[s].pc # "idle"
                                => o = s
                         /\ \A s \in Requests : Settled(request[s]))'
      BY DEF AloneInv
    <2>1. \A s \in Requests : Settled(request'[s])
      BY <1>4, <1>6, <1>10, IdleIsQuiet
    <2> QED
      BY <1>7, <1>10, <2>1 DEF Settled, InUse
  <1>12. SureInv'
    <2> SUFFICES ASSUME ~overlap', ~doubt', NEW s \in Requests
                 PROVE  Sure(request[s])'
      BY DEF SureInv
    <2>1. CASE s = r
      <3>1. ~doubt /\ ~overlap
        BY <1>5
      <3>2. Settled(q) /\ Sure(q)
        BY <3>1 DEF BadgeInv, AloneInv, SureInv
      <3>3. Live # {}
        BY <1>1, <3>2 DEF Settled, Sure, InUse
      <3> QED
        BY <1>4, <1>7, <2>1, <3>3 DEF Sure
    <2>2. CASE s # r
      BY <1>10, <2>2 DEF Sure
    <2> QED
      BY <2>1, <2>2
  <1>13. PresetInv'
    <2> SUFFICES ASSUME NEW s \in Requests, request'[s].pc # "idle",
                        request'[s].op = "preset"
                 PROVE  overlap' /\ doubt'
      BY DEF PresetInv
    <2>1. s # r /\ request[s].pc # "idle" /\ request[s].op = "preset"
      BY <1>1, <1>2, <1>4 DEF Only
    <2> QED
      BY <1>5, <2>1 DEF BadgeInv, PresetInv
  <1>14. AgreeInv'
    <2>1. ~Aside(request'[r])
      BY <1>1, <1>2, <1>4 DEF Aside
    <2> QED
      BY <2>1 DEF AgreeInv, Aside
  <1> QED
    BY <1>7, <1>8, <1>9, <1>11, <1>12, <1>13, <1>14 DEF BadgeInv

LEMMA BadgeStep ==
    ASSUME AdminTypes, BadgeInv, [Next]_vars
    PROVE  BadgeInv'
  <1>1. ASSUME NEW r \in Requests, Answer(r)
        PROVE  BadgeInv'
    BY <1>1, BadgeEnds, BadgeGoesOn
  <1>2. ASSUME LoginStep, UNCHANGED <<wizard, assigning, overlap, doubt>>
        PROVE  BadgeInv'
    <2>1. UNCHANGED <<idp, request>>
      BY <1>2 DEF LoginStep, StartLogin, LoginLost, FlowBecomes, TakeState,
                  CheckProvider, CallbackBecomes, JoinMember, OpenSession,
                  CallbackFails
    <2> QED
      BY <1>2, <2>1, BadgeQuiet
  <1>3. CASE UNCHANGED vars
    BY <1>3, BadgeQuiet DEF vars, ssoVars, adminVars
  <1> QED
    BY <1>1, <1>2, <1>3, BadgeServe, BadgePreset, BadgeVisitor, BadgeStays,
       BadgeSends DEF Next

LEMMA BadgeInvariant == Spec => []BadgeInv
  <1>1. Init => BadgeInv
    <2> SUFFICES ASSUME Init PROVE BadgeInv
      OBVIOUS
    <2>1. /\ request = [r \in Requests |-> Idle]
          /\ idp = [p \in Providers |-> Null]
          /\ wizard = [phase |-> "idle", loading |-> "mount", known |-> Null,
                       revokeOpen |-> FALSE]
          /\ assigning = Null /\ overlap = FALSE /\ doubt = FALSE
      BY DEF Init, SsoInit, AdminInit
    <2>2. Live = {}
      BY <2>1 DEF Live
    <2>3. \A r \in Requests : request[r].pc = "idle"
      BY <2>1, IdleFacts
    <2>4. WizardFields /\ OneLive
      BY <2>1, <2>2 DEF WizardFields, WizardStates, OneLive
    <2>5. \A r \in Requests : /\ Proper(request[r]) /\ Settled(request[r])
                             /\ Sure(request[r])
      BY <2>3, IdleIsQuiet
    <2>6. MountInv /\ AloneInv /\ SureInv /\ PresetInv /\ AgreeInv
      BY <2>1, <2>3, <2>5 DEF MountInv, AloneInv, SureInv, PresetInv, AgreeInv
    <2> QED
      BY <2>4, <2>5, <2>6 DEF BadgeInv
  <1>2. AdminTypes /\ BadgeInv /\ [Next]_vars => BadgeInv'
    BY BadgeStep
  <1> QED
    BY <1>1, <1>2, TypesInvariant, PTL DEF Spec

\* sso-wizard.tsx:139-215: for any number of requests, providers, presets and
\* logins, as long as one chain of requests ends before the next begins and
\* nothing fails, the page that rests shows the provider as it is stored, and
\* says "Connecte" of no other than the provider in use.
THEOREM BadgeIsTruthful == Spec => []BadgeTellsTruth
  <1>1. BadgeInv => BadgeTellsTruth
    BY DEF BadgeInv, AgreeInv, Agrees, Aside, At, InUse, BadgeTellsTruth
  <1> QED
    BY <1>1, BadgeInvariant, PTL
-----------------------------------------------------------------------------
(* Types.  Those of the members follow from RoleInv: a member is what its   *)
(* appointment made of it.                                                  *)

AppointedTypes == appointed \in [Users -> Roles \cup {Null}]

LEMMA AppointedStep ==
    ASSUME AdminTypes, AppointedTypes, [Next]_vars
    PROVE  AppointedTypes'
  <1>1. ASSUME NEW r \in Requests, AssignRole(r)
        PROVE  AppointedTypes'
    <2>1. request[r].data \in Appointments
      BY <1>1 DEF AssignRole, At, AdminTypes, WellFormed
    <2>2. request[r].data.role \in Roles
      BY <2>1 DEF Appointments
    <2>3. \/ appointed' = appointed
          \/ appointed' = [appointed EXCEPT ![request[r].data.user]
                                         = request[r].data.role]
      BY <1>1 DEF AssignRole, Moves, Becomes
    <2> QED
      BY <2>2, <2>3 DEF AppointedTypes
  <1>2. ASSUME NEW c \in Callbacks, JoinMember(c)
        PROVE  AppointedTypes'
    BY <1>2 DEF JoinMember, AppointedTypes
  <1> QED
    BY <1>1, <1>2, WritersOfMembers DEF AppointedTypes

\* Every variable of the pages, the logins and the administration keeps its
\* type.
THEOREM TypeCorrect == Spec => []TypeOK
  <1>1. Init => AppointedTypes
    BY ProvidersAssumption DEF Init, SsoInit, AdminInit, AppointedTypes
  <1>2. AdminTypes /\ AppointedTypes /\ [Next]_vars => AppointedTypes'
    BY AppointedStep
  <1>3. ASSUME AdminTypes, LoginInv, ClosedInv, RoleInv, BadgeInv,
               AppointedTypes
        PROVE  TypeOK
    <2>1. /\ NewMember \in Members
          /\ \A role \in Roles : Assigned(role) \in Members
      BY DEF NewMember, Assigned, Members, Roles
    <2>2. \A u \in Users : member[u] \in Members \cup {Null}
      BY <1>3, <2>1 DEF AppointedTypes, RoleInv, RolesAreAppointed
    <2>3. member \in [Users -> Members \cup {Null}]
      BY <1>3, <2>2 DEF RoleInv
    <2>4. LoginTypeOK
      BY <1>3, <2>3 DEF LoginTypeOK, AdminTypes, LoginInv, LoginTypes,
                        ClosedInv, AppointedTypes
    <2> QED
      BY <1>3, <2>4 DEF TypeOK, BadgeInv, WizardFields
  <1>4. AdminTypes /\ LoginInv /\ ClosedInv /\ RoleInv /\ BadgeInv
        /\ AppointedTypes => TypeOK
    BY <1>3
  <1> QED
    BY <1>1, <1>2, <1>4, TypesInvariant, LoginInvariant, ClosedInvariant,
       RoleInvariant, BadgeInvariant, PTL DEF Spec
=============================================================================
