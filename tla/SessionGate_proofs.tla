------------------------- MODULE SessionGate_proofs -------------------------
(***************************************************************************)
(* For any number of users, links, sessions, organisations and requests,   *)
(* with failures and restarts: a link creates one session at most, a       *)
(* session that is marked completed has an organisation whose onboarding   *)
(* was completed, and a session that has ended stays ended.                *)
(***************************************************************************)
EXTENDS SessionGate, TLAPS

-----------------------------------------------------------------------------
(* Types. *)

\* What a request has read when it comes to an await.
Known(q) ==
    /\ q.op \in {"verify", "guarded", "complete"}
    /\ q.op = "verify" => q.token \in Tokens /\ q.user = TokenUser[q.token]
    /\ q.op # "verify" => q.session \in Sessions /\ q.user \in Users

WellFormed(q) ==
    /\ q.pc \in {"take", "cached", "store"} => q.op = "verify"
    /\ q.pc \in {"guard", "remember", "reload", "save"}
           => q.op \in {"guarded", "complete"}
    /\ q.pc = "guard" => q.session \in Sessions
    /\ q.pc = "persist" => q.op \in {"create", "complete"}
    /\ q.pc \in {"persist", "remember", "reload", "save"} => q.org \in Orgs
    /\ q.pc \notin {"idle", "guard"} /\ q.op # "create" => Known(q)
    /\ q.pc \in {"userOrg", "select"} => q.op # "create"
    /\ q.pc = "select" => q.op # "complete"
    /\ q.pc = "save" => q.loaded \in Record

RequestsTyped ==
    /\ request \in [Requests -> Request]
    /\ \A r \in Requests : WellFormed(request[r])

StateTyped ==
    /\ token \in [Tokens -> {"unissued", "live", "gone"}]
    /\ session \in [Sessions -> Record \cup {Null}]
    /\ userOrg \in [Users -> Orgs \cup {Null}]
    /\ memory \in [Orgs -> OrgStates] /\ table \in [Orgs -> OrgStates]
    /\ origin \in [Sessions -> Tokens \cup {Null}]
    /\ onboarded \subseteq Orgs

TypeInv == StateTyped /\ RequestsTyped

LEMMA TypesImplied == TypeInv => TypeOK
  BY NullIsNoRecord
     DEF TypeInv, TypeOK, StateTyped, RequestsTyped, WellFormed, At

LEMMA IdleType == Idle \in Request /\ WellFormed(Idle)
  BY DEF Idle, Request, WellFormed, Pcs, Known

LEMMA SeedType == Seed \in [Orgs -> OrgStates]
  BY DEF Seed, OrgStates

LEMMA MovesType ==
    ASSUME RequestsTyped, NEW r \in Requests, NEW state \in Request,
           WellFormed(state), Moves(r, state)
    PROVE  RequestsTyped'
  <1>1. request' = [request EXCEPT ![r] = state]
    BY DEF Moves
  <1>2. request' \in [Requests -> Request]
    BY <1>1 DEF RequestsTyped
  <1>3. ASSUME NEW q \in Requests
        PROVE  WellFormed(request[q])'
    <2>1. CASE q = r
      <3>1. request'[q] = state
        BY <1>1, <2>1 DEF RequestsTyped
      <3> QED
        BY <3>1 DEF WellFormed, Known
    <2>2. CASE q # r
      <3>1. request'[q] = request[q]
        BY <1>1, <2>2 DEF RequestsTyped
      <3> QED
        BY <3>1 DEF RequestsTyped, WellFormed, Known
    <2> QED
      BY <2>1, <2>2
  <1> QED
    BY <1>2, <1>3 DEF RequestsTyped

LEMMA BecomesType ==
    ASSUME TypeInv, NEW r \in Requests, NEW state \in Request,
           WellFormed(state), Becomes(r, state)
    PROVE  TypeInv'
  <1>1. RequestsTyped'
    BY MovesType DEF Becomes, TypeInv
  <1>2. StateTyped'
    BY DEF Becomes, redis, orgs, history, TypeInv, StateTyped
  <1> QED
    BY <1>1, <1>2 DEF TypeInv

LEMMA FoundType ==
    ASSUME NEW q \in Request, Known(q), NEW x \in Orgs
    PROVE  /\ Found(q, x) \in Request
           /\ q.op # "complete" => WellFormed(Found(q, x))
  <1> DEFINE pc == IF q.op = "verify" THEN "store" ELSE "reload"
             next == [q EXCEPT !.pc = pc, !.org = x, !.completed = TRUE]
  <1>1. pc \in Pcs
    BY DEF Pcs
  <1>2. Found(q, x) = next
    BY DEF Found
  <1> HIDE DEF pc
  <1>3. next \in Request /\ next.pc = pc /\ next.org = x
        /\ next.op = q.op /\ next.token = q.token /\ next.user = q.user
        /\ next.session = q.session
    BY <1>1 DEF Request
  <1> HIDE DEF next
  <1> QED
    BY <1>2, <1>3 DEF WellFormed, Known, pc

\* What follows once the organisation to look for is known.
LEMMA ContinueType ==
    ASSUME TypeInv, NEW r \in Requests, NEW q \in Request, Known(q),
           NEW o \in Orgs \cup {Null}, Continue(r, q, o)
    PROVE  TypeInv'
  <1>1. CASE q.op = "complete"
    <2>1. PICK target \in Target(o) :
              /\ memory' = [memory EXCEPT ![target] = "completed"]
              /\ onboarded' = onboarded \cup {target}
              /\ Moves(r, [q EXCEPT !.pc = "persist", !.org = target,
                                    !.completed = TRUE])
              /\ UNCHANGED <<redis, table, origin>>
      BY <1>1 DEF Continue
    <2>2. target \in Orgs
      BY DEF Target, Present
    <2> DEFINE next == [q EXCEPT !.pc = "persist", !.org = target,
                                 !.completed = TRUE]
    <2>3. next \in Request /\ next.pc = "persist" /\ next.org = target
          /\ next.op = "complete" /\ next.user = q.user
          /\ next.session = q.session
      BY <1>1, <2>2 DEF Request, Pcs
    <2>4. Moves(r, next)
      BY <2>1
    <2> HIDE DEF next
    <2>5. WellFormed(next)
      BY <2>3, <2>2, <1>1 DEF WellFormed, Known
    <2>6. RequestsTyped'
      BY <2>3, <2>4, <2>5, MovesType DEF TypeInv
    <2>7. StateTyped'
      BY <2>1, <2>2 DEF TypeInv, StateTyped, redis, OrgStates
    <2> QED
      BY <2>6, <2>7 DEF TypeInv
  <1>2. CASE q.op # "complete" /\ CompletedInMemory(o) = {}
    <2> DEFINE next == [q EXCEPT !.pc = "select", !.org = o]
    <2>1. next \in Request /\ next.pc = "select" /\ next.op = q.op
          /\ next.token = q.token /\ next.user = q.user
          /\ next.session = q.session
      BY DEF Request, Pcs
    <2>2. Becomes(r, next)
      BY <1>2 DEF Continue
    <2> HIDE DEF next
    <2>3. WellFormed(next)
      BY <1>2, <2>1 DEF WellFormed, Known
    <2> QED
      BY <2>1, <2>2, <2>3, BecomesType
  <1>3. CASE q.op # "complete" /\ CompletedInMemory(o) # {}
    <2>1. PICK x \in CompletedInMemory(o) : Becomes(r, Found(q, x))
      BY <1>3 DEF Continue
    <2>2. x \in Orgs
      BY DEF CompletedInMemory
    <2> QED
      BY <2>1, <2>2, <1>3, FoundType, BecomesType
  <1> QED
    BY <1>1, <1>2, <1>3

\* A request that stays on its way keeps what it knows.
LEMMA StepType ==
    ASSUME NEW q \in Request, WellFormed(q), q.pc # "idle",
           NEW pc \in Pcs \ {"guard", "take", "persist", "select"},
           pc = "save" => q.loaded \in Record,
           pc \in {"cached", "store"} => q.op = "verify",
           pc \in {"remember", "reload", "save"}
               => q.op \in {"guarded", "complete"} /\ q.org \in Orgs,
           q.pc # "guard" /\ q.op # "create"
    PROVE  /\ [q EXCEPT !.pc = pc] \in Request
           /\ WellFormed([q EXCEPT !.pc = pc])
  <1> DEFINE next == [q EXCEPT !.pc = pc]
  <1>1. next \in Request /\ next.pc = pc /\ next.org = q.org
        /\ next.op = q.op /\ next.token = q.token /\ next.user = q.user
        /\ next.session = q.session /\ next.loaded = q.loaded
    BY DEF Request
  <1> HIDE DEF next
  <1>2. WellFormed(next)
    BY <1>1 DEF WellFormed, Known
  <1> QED
    BY <1>1, <1>2 DEF next

\* A guarded request or a completion whose session is updated.
LEMMA AfterUpdateType ==
    ASSUME TypeInv, NEW r \in Requests, request[r].pc \in {"reload", "save"}
    PROVE  AfterUpdate(r) \in Request /\ WellFormed(AfterUpdate(r))
  <1> DEFINE q == request[r]
             next == [q EXCEPT !.pc = "remember", !.loaded = Null]
  <1>1. q \in Request /\ WellFormed(q)
    BY DEF TypeInv, RequestsTyped
  <1>2. AfterUpdate(r) = IF q.op = "guarded" THEN next ELSE Idle
    BY DEF AfterUpdate
  <1>3. next \in Request /\ next.pc = "remember" /\ next.org = q.org
        /\ next.op = q.op /\ next.user = q.user /\ next.session = q.session
    BY <1>1 DEF Request, Pcs
  <1> HIDE DEF next
  <1>4. q.op = "guarded" => WellFormed(next)
    BY <1>1, <1>3 DEF WellFormed, Known
  <1> QED
    BY <1>2, <1>3, <1>4, IdleType

\* The steps that only move a request.
LEMMA MovingTypes ==
    ASSUME TypeInv, NEW r \in Requests,
           \/ \E t \in Tokens : Verify(r, t)
           \/ \E s \in Sessions :
                  Call(r, s, "guarded") \/ Call(r, s, "complete")
           \/ AnswerFromSession(r) \/ SelectNone(r) \/ ReadCached(r)
           \/ PersistFails(r) \/ ReloadSession(r) \/ CallFails(r)
    PROVE  TypeInv'
  <1> DEFINE q == request[r]
  <1>0. q \in Request /\ WellFormed(q) /\ StateTyped
    BY DEF TypeInv, RequestsTyped
  <1>1. ASSUME NEW t \in Tokens, Verify(r, t)
        PROVE  TypeInv'
    <2> DEFINE next == [Idle EXCEPT !.pc = "take", !.op = "verify",
                                    !.token = t, !.user = TokenUser[t]]
    <2>1. Becomes(r, next)
      BY <1>1 DEF Verify, Start
    <2>2. next \in Request /\ WellFormed(next)
      BY SessionAssumption
         DEF Idle, Request, WellFormed, Known, Pcs, Operations
    <2> HIDE DEF next
    <2> QED
      BY <2>1, <2>2, BecomesType
  <1>2. ASSUME NEW s \in Sessions, NEW op \in {"guarded", "complete"},
               Call(r, s, op)
        PROVE  TypeInv'
    <2> DEFINE next == [Idle EXCEPT !.pc = "guard", !.op = op, !.session = s]
    <2>1. Becomes(r, next)
      BY <1>2 DEF Call, Start
    <2>2. next \in Request /\ WellFormed(next)
      BY DEF Idle, Request, WellFormed, Known, Pcs, Operations
    <2> HIDE DEF next
    <2> QED
      BY <2>1, <2>2, BecomesType
  <1>3. ASSUME AnswerFromSession(r) \/ CallFails(r)
        PROVE  TypeInv'
    BY <1>3, IdleType, BecomesType DEF AnswerFromSession, CallFails
  <1>4. ASSUME SelectNone(r)
        PROVE  TypeInv'
    <2>1. CASE q.op = "verify"
      <3>1. Becomes(r, [q EXCEPT !.pc = "cached"]) /\ q.pc = "select"
        BY <1>4, <2>1 DEF SelectNone, At
      <3>2. "cached" \in Pcs \ {"guard", "take", "persist", "select"}
        BY DEF Pcs
      <3>3. [q EXCEPT !.pc = "cached"] \in Request
            /\ WellFormed([q EXCEPT !.pc = "cached"])
        BY <1>0, <2>1, <3>1, <3>2, StepType
      <3> QED
        BY <3>1, <3>3, BecomesType
    <2>2. CASE q.op # "verify"
      BY <1>4, <2>2, IdleType, BecomesType DEF SelectNone
    <2> QED
      BY <2>1, <2>2
  <1>5. ASSUME ReadCached(r)
        PROVE  TypeInv'
    <2> DEFINE next == [q EXCEPT !.pc = "store", !.org = userOrg[q.user]]
    <2>1. Becomes(r, next) /\ q.pc = "cached"
      BY <1>5 DEF ReadCached, At
    <2>2. q.op = "verify" /\ Known(q)
      BY <1>0, <2>1 DEF WellFormed
    <2>3. userOrg[q.user] \in Orgs \cup {Null}
      BY <1>0, <2>2, SessionAssumption DEF StateTyped, Known
    <2>4. next \in Request /\ next.pc = "store" /\ next.op = q.op
          /\ next.token = q.token /\ next.user = q.user
      BY <1>0, <2>3 DEF Request, Pcs
    <2> HIDE DEF next
    <2>5. WellFormed(next)
      BY <2>2, <2>4 DEF WellFormed, Known
    <2> QED
      BY <2>1, <2>4, <2>5, BecomesType
  <1>6. ASSUME PersistFails(r)
        PROVE  TypeInv'
    <2>1. CASE q.op = "create"
      BY <1>6, <2>1, IdleType, BecomesType DEF PersistFails, Persisted
    <2>2. CASE q.op # "create"
      <3>1. Becomes(r, [q EXCEPT !.pc = "remember"]) /\ q.pc = "persist"
        BY <1>6, <2>2 DEF PersistFails, Persisted, At
      <3>2. "remember" \in Pcs \ {"guard", "take", "persist", "select"}
        BY DEF Pcs
      <3>3. q.op = "complete" /\ q.org \in Orgs
        BY <1>0, <2>2, <3>1 DEF WellFormed
      <3>4. [q EXCEPT !.pc = "remember"] \in Request
            /\ WellFormed([q EXCEPT !.pc = "remember"])
        BY <1>0, <3>1, <3>2, <3>3, StepType
      <3> QED
        BY <3>1, <3>4, BecomesType
    <2> QED
      BY <2>1, <2>2
  <1>7. ASSUME ReloadSession(r)
        PROVE  TypeInv'
    <2> DEFINE record == session[q.session]
               next == [q EXCEPT !.pc = "save", !.loaded = record]
    <2>1. Becomes(r, IF record = Null THEN AfterUpdate(r) ELSE next)
          /\ q.pc = "reload"
      BY <1>7 DEF ReloadSession, At
    <2>2. Known(q) /\ q.op \in {"guarded", "complete"} /\ q.org \in Orgs
      BY <1>0, <2>1 DEF WellFormed
    <2>3. record \in Record \cup {Null}
      BY <1>0, <2>2 DEF StateTyped, Known
    <2> HIDE DEF record
    <2>4. CASE record = Null
      BY <2>1, <2>4, AfterUpdateType, BecomesType
    <2>5. CASE record # Null
      <3>1. next \in Request /\ next.pc = "save" /\ next.op = q.op
            /\ next.org = q.org /\ next.user = q.user
            /\ next.session = q.session /\ next.loaded = record
        BY <1>0, <2>3 DEF Request, Pcs
      <3>2. Becomes(r, next)
        BY <2>1, <2>5
      <3> HIDE DEF next
      <3>3. WellFormed(next)
        BY <2>2, <2>3, <2>5, <3>1 DEF WellFormed, Known
      <3> QED
        BY <3>1, <3>2, <3>3, BecomesType
    <2> QED
      BY <2>4, <2>5
  <1> QED
    BY <1>1, <1>2, <1>3, <1>4, <1>5, <1>6, <1>7

\* The steps that read or write the organisations.
LEMMA OrgTypes ==
    ASSUME TypeInv, NEW r \in Requests,
           \/ LoadSession(r) \/ ReadUserOrg(r) \/ SelectFound(r)
           \/ \E o \in Orgs : CreateOrg(r, o)
           \/ PersistOrg(r)
    PROVE  TypeInv'
  <1> DEFINE q == request[r]
  <1>0. q \in Request /\ WellFormed(q) /\ StateTyped
    BY DEF TypeInv, RequestsTyped
  <1>1. ASSUME LoadSession(r)
        PROVE  TypeInv'
    <2> DEFINE record == session[q.session]
               loaded == [q EXCEPT !.user = record.user]
    <2>1. q.pc = "guard" /\ record # Null
      BY <1>1 DEF LoadSession, At
    <2>2. q.op \in {"guarded", "complete"} /\ q.session \in Sessions
      BY <1>0, <2>1 DEF WellFormed
    <2>3. record \in Record
      BY <1>0, <2>1, <2>2 DEF StateTyped
    <2>4. record.user \in Users /\ record.org \in Orgs \cup {Null}
      BY <2>3 DEF Record
    <2>5. IF record.org = Null
          THEN Becomes(r, [loaded EXCEPT !.pc = "userOrg"])
          ELSE Continue(r, loaded, record.org)
      BY <1>1 DEF LoadSession
    <2> HIDE DEF record
    <2>6. loaded \in Request /\ loaded.op = q.op
          /\ loaded.session = q.session /\ loaded.user \in Users
      BY <1>0, <2>4 DEF Request
    <2> HIDE DEF loaded
    <2>7. Known(loaded)
      BY <2>2, <2>6 DEF Known
    <2>8. CASE record.org = Null
      <3> DEFINE next == [loaded EXCEPT !.pc = "userOrg"]
      <3>1. next \in Request /\ next.pc = "userOrg" /\ next.op = loaded.op
            /\ next.session = loaded.session /\ next.user = loaded.user
        BY <2>6 DEF Request, Pcs
      <3>2. Becomes(r, next)
        BY <2>5, <2>8
      <3> HIDE DEF next
      <3>3. WellFormed(next)
        BY <2>2, <2>6, <3>1 DEF WellFormed, Known
      <3> QED
        BY <3>1, <3>2, <3>3, BecomesType
    <2>9. CASE record.org # Null
      BY <2>4, <2>5, <2>6, <2>7, <2>9, ContinueType
    <2> QED
      BY <2>8, <2>9
  <1>2. ASSUME ReadUserOrg(r)
        PROVE  TypeInv'
    <2>1. q.pc = "userOrg" /\ Continue(r, q, userOrg[q.user])
      BY <1>2 DEF ReadUserOrg, At
    <2>2. Known(q)
      BY <1>0, <2>1 DEF WellFormed
    <2>3. userOrg[q.user] \in Orgs \cup {Null}
      BY <1>0, <2>2, SessionAssumption DEF Known, StateTyped
    <2> QED
      BY <1>0, <2>1, <2>2, <2>3, ContinueType
  <1>3. ASSUME SelectFound(r)
        PROVE  TypeInv'
    <2>1. PICK x \in CompletedInTable(q.org) :
              /\ memory' = [memory EXCEPT ![x] = "completed"]
              /\ Moves(r, Found(q, x))
      BY <1>3 DEF SelectFound
    <2>2. q.pc = "select" /\ UNCHANGED <<redis, table, history>>
      BY <1>3 DEF SelectFound, At
    <2>3. x \in Orgs
      BY DEF CompletedInTable
    <2>4. Known(q)
      BY <1>0, <2>2 DEF WellFormed
    <2>5. StateTyped'
      BY <1>0, <2>1, <2>2 DEF StateTyped, redis, history, OrgStates
    <2>6. CASE q.op # "complete"
      BY <1>0, <2>1, <2>3, <2>4, <2>5, <2>6, FoundType, MovesType DEF TypeInv
    <2>7. q.op # "complete"
      BY <1>0, <2>2 DEF WellFormed
    <2> QED
      BY <2>6, <2>7
  <1>4. ASSUME NEW o \in Orgs, CreateOrg(r, o)
        PROVE  TypeInv'
    <2> DEFINE next == [Idle EXCEPT !.pc = "persist", !.op = "create",
                                    !.org = o]
    <2>1. next \in Request /\ WellFormed(next)
      BY DEF Idle, Request, WellFormed, Known, Pcs, Operations
    <2>2. Moves(r, next)
      BY <1>4 DEF CreateOrg
    <2> HIDE DEF next
    <2>3. RequestsTyped'
      BY <2>1, <2>2, MovesType DEF TypeInv
    <2>4. StateTyped'
      BY <1>0, <1>4 DEF CreateOrg, StateTyped, redis, history, OrgStates
    <2> QED
      BY <2>3, <2>4 DEF TypeInv
  <1>5. ASSUME PersistOrg(r)
        PROVE  TypeInv'
    <2>1. q.pc = "persist" /\ Moves(r, Persisted(r))
      BY <1>5 DEF PersistOrg, At
    <2>2. q.op \in {"create", "complete"} /\ q.org \in Orgs
      BY <1>0, <2>1 DEF WellFormed
    <2>3. Persisted(r) \in Request /\ WellFormed(Persisted(r))
      <3>1. CASE q.op = "create"
        BY <3>1, IdleType DEF Persisted
      <3>2. CASE q.op # "create"
        <4>1. Persisted(r) = [q EXCEPT !.pc = "remember"]
          BY <3>2 DEF Persisted
        <4>2. "remember" \in Pcs \ {"guard", "take", "persist", "select"}
          BY DEF Pcs
        <4> QED
          BY <1>0, <2>1, <2>2, <3>2, <4>1, <4>2, StepType
      <3> QED
        BY <3>1, <3>2
    <2>4. RequestsTyped'
      BY <2>1, <2>3, MovesType DEF TypeInv
    <2>5. StateTyped'
      BY <1>0, <1>5 DEF PersistOrg, StateTyped, redis, history, OrgStates
    <2> QED
      BY <2>4, <2>5 DEF TypeInv
  <1> QED
    BY <1>1, <1>2, <1>3, <1>4, <1>5

\* The steps that write Redis.
LEMMA RedisTypes ==
    ASSUME TypeInv, NEW r \in Requests,
           TakeToken(r) \/ CreateSession(r) \/ RememberOrg(r) \/ SaveSession(r)
    PROVE  TypeInv'
  <1> DEFINE q == request[r]
  <1>0. q \in Request /\ WellFormed(q) /\ StateTyped
    BY DEF TypeInv, RequestsTyped
  <1>1. ASSUME TakeToken(r)
        PROVE  TypeInv'
    <2> DEFINE next == [q EXCEPT !.pc = "userOrg"]
    <2>1. q.pc = "take"
      BY <1>1 DEF TakeToken, At
    <2>2. q.op = "verify"
      BY <1>0, <2>1 DEF WellFormed
    <2>3. "userOrg" \in Pcs \ {"guard", "take", "persist", "select"}
      BY DEF Pcs
    <2>4. next \in Request /\ WellFormed(next)
      BY <1>0, <2>1, <2>2, <2>3, StepType
    <2>5. Moves(r, next) \/ Moves(r, Idle)
      BY <1>1 DEF TakeToken
    <2>6. RequestsTyped'
      BY <2>4, <2>5, IdleType, MovesType DEF TypeInv
    <2>7. StateTyped'
      BY <1>0, <1>1 DEF TakeToken, StateTyped, orgs, history
    <2> QED
      BY <2>6, <2>7 DEF TypeInv
  <1>2. ASSUME CreateSession(r)
        PROVE  TypeInv'
    <2>1. q.pc = "store" /\ Moves(r, Idle)
      BY <1>2 DEF CreateSession, At
    <2>2. q.op = "verify" /\ Known(q)
      BY <1>0, <2>1 DEF WellFormed
    <2> DEFINE record == [user |-> q.user, org |-> q.org,
                          completed |-> q.completed]
    <2>3. PICK s \in Sessions :
              /\ origin' = [origin EXCEPT ![s] = q.token]
              /\ session' = [session EXCEPT ![s] = record]
      BY <1>2 DEF CreateSession
    <2>4. record \in Record /\ q.token \in Tokens
      BY <1>0, <2>2, SessionAssumption DEF Known, Record, Request
    <2> HIDE DEF record
    <2>5. StateTyped'
      BY <1>0, <1>2, <2>3, <2>4 DEF CreateSession, StateTyped, orgs
    <2>6. RequestsTyped'
      BY <2>1, IdleType, MovesType DEF TypeInv
    <2> QED
      BY <2>5, <2>6 DEF TypeInv
  <1>3. ASSUME RememberOrg(r)
        PROVE  TypeInv'
    <2> DEFINE next == [q EXCEPT !.pc = "reload"]
    <2>1. q.pc = "remember" /\ (Moves(r, next) \/ Moves(r, Idle))
      BY <1>3 DEF RememberOrg, At
    <2>2. q.op \in {"guarded", "complete"} /\ q.org \in Orgs
      BY <1>0, <2>1 DEF WellFormed
    <2>3. "reload" \in Pcs \ {"guard", "take", "persist", "select"}
      BY DEF Pcs
    <2>4. next \in Request /\ WellFormed(next)
      BY <1>0, <2>1, <2>2, <2>3, StepType
    <2> HIDE DEF next
    <2>5. RequestsTyped'
      BY <2>1, <2>4, IdleType, MovesType DEF TypeInv
    <2>6. StateTyped'
      BY <1>0, <1>3, <2>2 DEF RememberOrg, StateTyped, orgs, history
    <2> QED
      BY <2>5, <2>6 DEF TypeInv
  <1>4. ASSUME SaveSession(r)
        PROVE  TypeInv'
    <2>1. q.pc = "save" /\ Moves(r, AfterUpdate(r))
      BY <1>4 DEF SaveSession, At
    <2>2. q.loaded \in Record /\ q.org \in Orgs
      BY <1>0, <2>1 DEF WellFormed
    <2>3. Mirrored(q.loaded, q.org) \in Record
      BY <2>2 DEF Mirrored, Record
    <2>4. session' = [session EXCEPT ![q.session] = Mirrored(q.loaded, q.org)]
      BY <1>4 DEF SaveSession
    <2>5. StateTyped'
      BY <1>0, <1>4, <2>3, <2>4 DEF SaveSession, StateTyped, orgs, history
    <2>6. RequestsTyped'
      BY <2>1, AfterUpdateType, MovesType DEF TypeInv
    <2> QED
      BY <2>5, <2>6 DEF TypeInv
  <1> QED
    BY <1>1, <1>2, <1>3, <1>4

LEMMA TypeStep == TypeInv /\ [Next]_vars => TypeInv'
  <1> SUFFICES ASSUME TypeInv, [Next]_vars
               PROVE  TypeInv'
    OBVIOUS
  <1>1. ASSUME NEW r \in Requests, Receive(r) \/ Serve(r) \/ CallFails(r)
        PROVE  TypeInv'
    BY <1>1, MovingTypes, OrgTypes, RedisTypes DEF Receive, Serve
  <1>2. ASSUME NEW t \in Tokens, RequestLink(t) \/ LinkExpires(t)
        PROVE  TypeInv'
    <2>1. StateTyped'
      BY <1>2 DEF RequestLink, LinkExpires, TypeInv, StateTyped, orgs, history
    <2>2. request' = request
      BY <1>2 DEF RequestLink, LinkExpires
    <2> QED
      BY <2>1, <2>2 DEF TypeInv, RequestsTyped, WellFormed, Known
  <1>3. ASSUME NEW s \in Sessions, Logout(s) \/ SessionExpires(s)
        PROVE  TypeInv'
    <2>1. StateTyped'
      BY <1>3 DEF Logout, SessionExpires, TypeInv, StateTyped, orgs, history
    <2>2. request' = request
      BY <1>3 DEF Logout, SessionExpires
    <2> QED
      BY <2>1, <2>2 DEF TypeInv, RequestsTyped, WellFormed, Known
  <1>4. ASSUME NEW u \in Users, UserOrgExpires(u)
        PROVE  TypeInv'
    <2>1. StateTyped'
      BY <1>4 DEF UserOrgExpires, TypeInv, StateTyped, orgs, history
    <2>2. request' = request
      BY <1>4 DEF UserOrgExpires
    <2> QED
      BY <2>1, <2>2 DEF TypeInv, RequestsTyped, WellFormed, Known
  <1>5. ASSUME Crash
        PROVE  TypeInv'
    <2>1. StateTyped'
      BY <1>5, SeedType DEF Crash, TypeInv, StateTyped, redis, history
    <2>2. request' = [r \in Requests |-> Idle]
      BY <1>5 DEF Crash
    <2>3. RequestsTyped'
      BY <2>2, IdleType DEF RequestsTyped, WellFormed, Known
    <2> QED
      BY <2>1, <2>3 DEF TypeInv
  <1>6. ASSUME UNCHANGED vars
        PROVE  TypeInv'
    BY <1>6 DEF vars, redis, orgs, history, TypeInv, StateTyped, RequestsTyped,
                WellFormed, Known
  <1> QED
    BY <1>1, <1>2, <1>3, <1>4, <1>5, <1>6 DEF Next

LEMMA TypeInvariant == Spec => []TypeInv
  <1>1. Init => TypeInv
    <2> SUFFICES ASSUME Init
                 PROVE  TypeInv
      OBVIOUS
    <2>1. StateTyped
      BY SeedType DEF Init, StateTyped
    <2>2. RequestsTyped
      BY IdleType DEF Init, RequestsTyped
    <2> QED
      BY <2>1, <2>2 DEF TypeInv
  <1> QED
    BY <1>1, TypeStep, PTL DEF Spec

\* Every state of the model has its type: requests, sessions and links are
\* what session.service.ts and auth.service.ts keep in them.
THEOREM TypeCorrect == Spec => []TypeOK
  BY TypeInvariant, TypesImplied, PTL

-----------------------------------------------------------------------------
(* A link creates one session at most. *)

\* A request that has taken link t, and has not created its session yet.
Holds(q, t) ==
    q.pc \in {"userOrg", "select", "cached", "store"} /\ q.op = "verify"
    /\ q.token = t

\* The record that an update is about to write is of the session's user.
OwnRecord(q) ==
    q.pc = "save"
    => origin[q.session] # Null
       /\ q.loaded.user = TokenUser[origin[q.session]]

\* A link that was taken is gone, and is with one request or one session.
LinkInv ==
    /\ LinksOneShot
    /\ \A s \in Sessions : origin[s] # Null => token[origin[s]] = "gone"
    /\ \A r \in Requests, t \in Tokens :
           Holds(request[r], t)
           => token[t] = "gone" /\ \A s \in Sessions : origin[s] # t
    /\ \A r, p \in Requests, t \in Tokens :
           Holds(request[r], t) /\ Holds(request[p], t) => r = p
    /\ \A r \in Requests : OwnRecord(request[r])

\* A request moves, and takes no link.
LEMMA MovesLink ==
    ASSUME TypeInv, LinkInv, NEW r \in Requests, NEW state, Moves(r, state),
           UNCHANGED <<token, session, origin>>,
           \A t \in Tokens : Holds(state, t) => Holds(request[r], t),
           OwnRecord(state)
    PROVE  LinkInv'
  <1>1. request'[r] = state
        /\ \A p \in Requests \ {r} : request'[p] = request[p]
    BY DEF Moves, TypeInv, RequestsTyped
  <1>2. \A p \in Requests, t \in Tokens :
            Holds(request[p], t)' => Holds(request[p], t)
    BY <1>1 DEF Holds
  <1>3. \A p \in Requests : OwnRecord(request[p])'
    BY <1>1 DEF OwnRecord, LinkInv
  <1>4. LinksOneShot'
    BY DEF LinkInv, LinksOneShot
  <1> QED
    BY <1>2, <1>3, <1>4 DEF LinkInv

LEMMA ContinueLink ==
    ASSUME TypeInv, LinkInv, NEW r \in Requests, NEW q \in Request,
           q.op = request[r].op, q.token = request[r].token,
           request[r].pc \in {"guard", "userOrg"},
           request[r].pc = "guard" => q.op # "verify",
           NEW o \in Orgs \cup {Null}, Continue(r, q, o)
    PROVE  LinkInv'
  <1> DEFINE harmless(state) ==
                 /\ Moves(r, state)
                 /\ state.op = q.op /\ state.token = q.token
                 /\ state.pc # "save"
  <1>1. PICK state : harmless(state)
    <2>1. CASE q.op = "complete"
      <3>1. PICK target \in Target(o) :
                Moves(r, [q EXCEPT !.pc = "persist", !.org = target,
                                   !.completed = TRUE])
        BY <2>1 DEF Continue
      <3> DEFINE next == [q EXCEPT !.pc = "persist", !.org = target,
                                   !.completed = TRUE]
      <3>2. Moves(r, next)
        BY <3>1
      <3>3. next.op = q.op /\ next.token = q.token /\ next.pc # "save"
        BY DEF Request
      <3> HIDE DEF next
      <3> QED
        BY <3>2, <3>3
    <2>2. CASE q.op # "complete" /\ CompletedInMemory(o) = {}
      <3> DEFINE next == [q EXCEPT !.pc = "select", !.org = o]
      <3>1. Moves(r, next)
        BY <2>2 DEF Continue, Becomes
      <3>2. next.op = q.op /\ next.token = q.token /\ next.pc # "save"
        BY DEF Request
      <3> HIDE DEF next
      <3> QED
        BY <3>1, <3>2
    <2>3. CASE q.op # "complete" /\ CompletedInMemory(o) # {}
      <3>1. PICK x \in CompletedInMemory(o) : Moves(r, Found(q, x))
        BY <2>3 DEF Continue, Becomes
      <3> DEFINE pc == IF q.op = "verify" THEN "store" ELSE "reload"
      <3>2. Found(q, x) = [q EXCEPT !.pc = pc, !.org = x, !.completed = TRUE]
        BY DEF Found
      <3>3. pc # "save"
        OBVIOUS
      <3> HIDE DEF pc
      <3>4. /\ Found(q, x).op = q.op /\ Found(q, x).token = q.token
            /\ Found(q, x).pc = pc
        BY <3>2 DEF Request
      <3> QED
        BY <3>1, <3>3, <3>4
    <2> QED
      BY <2>1, <2>2, <2>3
  <1>2. UNCHANGED <<token, session, origin>>
    BY DEF Continue, Becomes, redis, history
  <1>3. \A t \in Tokens : Holds(state, t) => Holds(request[r], t)
    BY <1>1 DEF Holds
  <1>4. OwnRecord(state)
    BY <1>1 DEF OwnRecord
  <1> QED
    BY <1>1, <1>2, <1>3, <1>4, MovesLink

\* A state on the same way as before, past which no record is written.
OnTheWay(q, state) ==
    /\ state.op = q.op /\ state.token = q.token
    /\ state.pc # "save"
    /\ state.op = "verify" => q.pc \in {"userOrg", "select", "cached", "store"}

\* ... or a state that holds no link.
Linkless(state) ==
    /\ state.op # "verify" \/ state.pc \in {"idle", "take"}
    /\ state.pc # "save"

LEMMA PlainLink ==
    ASSUME TypeInv, LinkInv, NEW r \in Requests, NEW state, Moves(r, state),
           UNCHANGED <<token, session, origin>>,
           OnTheWay(request[r], state) \/ Linkless(state)
    PROVE  LinkInv'
  <1>1. \A t \in Tokens : Holds(state, t) => Holds(request[r], t)
    BY DEF Holds, OnTheWay, Linkless
  <1>2. OwnRecord(state)
    BY DEF OwnRecord, OnTheWay, Linkless
  <1> QED
    BY <1>1, <1>2, MovesLink

LEMMA IdleLinkless == Linkless(Idle)
  BY DEF Linkless, Idle

LEMMA AfterUpdateLinkless ==
    ASSUME TypeInv, NEW r \in Requests, request[r].pc \in {"reload", "save"}
    PROVE  Linkless(AfterUpdate(r))
  <1> DEFINE q == request[r]
             next == [q EXCEPT !.pc = "remember", !.loaded = Null]
  <1>1. q \in Request
    BY DEF TypeInv, RequestsTyped
  <1>2. next.pc = "remember" /\ next.op = q.op
    BY <1>1 DEF Request
  <1>3. AfterUpdate(r) = IF q.op = "guarded" THEN next ELSE Idle
    BY DEF AfterUpdate
  <1> HIDE DEF next
  <1> QED
    BY <1>2, <1>3, IdleLinkless DEF Linkless

LEMMA PersistedLinkless ==
    ASSUME TypeInv, NEW r \in Requests, request[r].pc = "persist"
    PROVE  Linkless(Persisted(r))
  <1> DEFINE q == request[r]
             next == [q EXCEPT !.pc = "remember"]
  <1>1. q \in Request /\ q.op # "verify"
    BY DEF TypeInv, RequestsTyped, WellFormed
  <1>2. next.pc = "remember" /\ next.op = q.op
    BY <1>1 DEF Request
  <1>3. Persisted(r) = IF q.op = "create" THEN Idle ELSE next
    BY DEF Persisted
  <1> HIDE DEF next
  <1> QED
    BY <1>1, <1>2, <1>3, IdleLinkless DEF Linkless

\* The steps of a request that leave links and sessions alone.
LEMMA PlainSteps ==
    ASSUME TypeInv, LinkInv, NEW r \in Requests,
           \/ Receive(r)
           \/ AnswerFromSession(r) \/ LoadSession(r) \/ ReadUserOrg(r)
           \/ SelectFound(r) \/ SelectNone(r) \/ ReadCached(r)
           \/ PersistOrg(r) \/ PersistFails(r) \/ RememberOrg(r)
           \/ CallFails(r)
    PROVE  LinkInv'
  <1> DEFINE q == request[r]
  <1>0. q \in Request /\ WellFormed(q) /\ StateTyped
    BY DEF TypeInv, RequestsTyped
  <1> USE DEF Becomes, redis, history
  <1>1. ASSUME NEW t \in Tokens, Verify(r, t)
        PROVE  LinkInv'
    <2> DEFINE next == [Idle EXCEPT !.pc = "take", !.op = "verify",
                                    !.token = t, !.user = TokenUser[t]]
    <2>1. Moves(r, next) /\ UNCHANGED <<token, session, origin>>
      BY <1>1 DEF Verify, Start
    <2>2. Linkless(next)
      BY DEF Idle, Linkless
    <2> HIDE DEF next
    <2> QED
      BY <2>1, <2>2, PlainLink
  <1>2. ASSUME NEW s \in Sessions, NEW op \in {"guarded", "complete"},
               Call(r, s, op)
        PROVE  LinkInv'
    <2> DEFINE next == [Idle EXCEPT !.pc = "guard", !.op = op, !.session = s]
    <2>1. Moves(r, next) /\ UNCHANGED <<token, session, origin>>
      BY <1>2 DEF Call, Start
    <2>2. Linkless(next)
      BY DEF Idle, Linkless
    <2> HIDE DEF next
    <2> QED
      BY <2>1, <2>2, PlainLink
  <1>3. ASSUME NEW o \in Orgs, CreateOrg(r, o)
        PROVE  LinkInv'
    <2> DEFINE next == [Idle EXCEPT !.pc = "persist", !.op = "create",
                                    !.org = o]
    <2>1. Moves(r, next) /\ UNCHANGED <<token, session, origin>>
      BY <1>3 DEF CreateOrg
    <2>2. Linkless(next)
      BY DEF Idle, Linkless
    <2> HIDE DEF next
    <2> QED
      BY <2>1, <2>2, PlainLink
  <1>4. ASSUME AnswerFromSession(r) \/ CallFails(r)
        PROVE  LinkInv'
    BY <1>4, IdleLinkless, PlainLink DEF AnswerFromSession, CallFails
  <1>5. ASSUME LoadSession(r)
        PROVE  LinkInv'
    <2> DEFINE record == session[q.session]
               loaded == [q EXCEPT !.user = record.user]
    <2>1. q.pc = "guard" /\ record # Null
      BY <1>5 DEF LoadSession, At
    <2>2. q.op \in {"guarded", "complete"} /\ q.session \in Sessions
      BY <1>0, <2>1 DEF WellFormed
    <2>3. record.user \in Users /\ record.org \in Orgs \cup {Null}
      BY <1>0, <2>1, <2>2 DEF StateTyped, Record
    <2>4. IF record.org = Null
          THEN Becomes(r, [loaded EXCEPT !.pc = "userOrg"])
          ELSE Continue(r, loaded, record.org)
      BY <1>5 DEF LoadSession
    <2> HIDE DEF record
    <2>5. loaded \in Request /\ loaded.op = q.op /\ loaded.token = q.token
      BY <1>0, <2>3 DEF Request
    <2> HIDE DEF loaded
    <2>6. CASE record.org = Null
      <3> DEFINE next == [loaded EXCEPT !.pc = "userOrg"]
      <3>1. next.pc = "userOrg" /\ next.op = q.op
        BY <2>5 DEF Request
      <3>2. Moves(r, next) /\ UNCHANGED <<token, session, origin>>
        BY <2>4, <2>6
      <3> HIDE DEF next
      <3>3. Linkless(next)
        BY <2>2, <3>1 DEF Linkless
      <3> QED
        BY <3>2, <3>3, PlainLink
    <2>7. CASE record.org # Null
      BY <2>1, <2>2, <2>3, <2>4, <2>5, <2>7, ContinueLink
    <2> QED
      BY <2>6, <2>7
  <1>6. ASSUME ReadUserOrg(r)
        PROVE  LinkInv'
    <2>1. q.pc = "userOrg" /\ Continue(r, q, userOrg[q.user])
      BY <1>6 DEF ReadUserOrg, At
    <2>2. userOrg[q.user] \in Orgs \cup {Null}
      BY <1>0, <2>1, SessionAssumption DEF WellFormed, Known, StateTyped
    <2> QED
      BY <1>0, <2>1, <2>2, ContinueLink
  <1>7. ASSUME SelectFound(r)
        PROVE  LinkInv'
    <2>1. PICK x \in CompletedInTable(q.org) : Moves(r, Found(q, x))
      BY <1>7 DEF SelectFound
    <2>2. q.pc = "select" /\ UNCHANGED <<token, session, origin>>
      BY <1>7 DEF SelectFound, At
    <2> DEFINE pc == IF q.op = "verify" THEN "store" ELSE "reload"
    <2>3. Found(q, x) = [q EXCEPT !.pc = pc, !.org = x, !.completed = TRUE]
      BY DEF Found
    <2>4. pc # "save"
      OBVIOUS
    <2> HIDE DEF pc
    <2>5. /\ Found(q, x).op = q.op /\ Found(q, x).token = q.token
          /\ Found(q, x).pc = pc
      BY <1>0, <2>3 DEF Request
    <2>6. OnTheWay(q, Found(q, x))
      BY <2>2, <2>4, <2>5 DEF OnTheWay
    <2> QED
      BY <2>1, <2>2, <2>6, PlainLink
  <1>8. ASSUME SelectNone(r)
        PROVE  LinkInv'
    <2> DEFINE next == [q EXCEPT !.pc = "cached"]
    <2>1. q.pc = "select" /\ (Moves(r, next) \/ Moves(r, Idle))
          /\ UNCHANGED <<token, session, origin>>
      BY <1>8 DEF SelectNone, At
    <2>2. next.pc = "cached" /\ next.op = q.op /\ next.token = q.token
      BY <1>0 DEF Request
    <2> HIDE DEF next
    <2>3. OnTheWay(q, next)
      BY <2>1, <2>2 DEF OnTheWay
    <2> QED
      BY <2>1, <2>3, IdleLinkless, PlainLink
  <1>9. ASSUME ReadCached(r)
        PROVE  LinkInv'
    <2> DEFINE next == [q EXCEPT !.pc = "store", !.org = userOrg[q.user]]
    <2>1. q.pc = "cached" /\ Moves(r, next)
          /\ UNCHANGED <<token, session, origin>>
      BY <1>9 DEF ReadCached, At
    <2>2. next.pc = "store" /\ next.op = q.op /\ next.token = q.token
      BY <1>0 DEF Request
    <2> HIDE DEF next
    <2>3. OnTheWay(q, next)
      BY <2>1, <2>2 DEF OnTheWay
    <2> QED
      BY <2>1, <2>3, PlainLink
  <1>10. ASSUME PersistOrg(r) \/ PersistFails(r)
         PROVE  LinkInv'
    BY <1>10, PersistedLinkless, PlainLink DEF PersistOrg, PersistFails, At
  <1>11. ASSUME RememberOrg(r)
         PROVE  LinkInv'
    <2> DEFINE next == [q EXCEPT !.pc = "reload"]
    <2>1. q.pc = "remember" /\ (Moves(r, next) \/ Moves(r, Idle))
          /\ UNCHANGED <<token, session, origin>>
      BY <1>11 DEF RememberOrg, At
    <2>2. next.pc = "reload" /\ next.op = q.op
      BY <1>0 DEF Request
    <2> HIDE DEF next
    <2>3. Linkless(next)
      BY <1>0, <2>1, <2>2 DEF WellFormed, Linkless
    <2> QED
      BY <2>1, <2>3, IdleLinkless, PlainLink
  <1> QED
    BY <1>1, <1>2, <1>3, <1>4, <1>5, <1>6, <1>7, <1>8, <1>9, <1>10, <1>11
       DEF Receive

\* The link is taken: it was live, so nobody held it and no session had it.
LEMMA TakeLink ==
    ASSUME TypeInv, LinkInv, NEW r \in Requests, TakeToken(r)
    PROVE  LinkInv'
  <1> DEFINE q == request[r]
             t == q.token
             next == [q EXCEPT !.pc = "userOrg"]
  <1>1. q \in Request /\ q.pc = "take" /\ t \in Tokens
    BY DEF TakeToken, At, TypeInv, RequestsTyped, WellFormed, Known
  <1>2. token' = [token EXCEPT ![t] = "gone"] /\ UNCHANGED <<session, origin>>
    BY DEF TakeToken, history
  <1>3. /\ token'[t] = "gone"
        /\ \A u \in Tokens : token[u] = "gone" => token'[u] = "gone"
    BY <1>1, <1>2 DEF TypeInv, StateTyped
  <1>4. LinksOneShot'
    BY <1>2 DEF LinkInv, LinksOneShot
  <1>5. \A s \in Sessions : origin'[s] # Null => token'[origin'[s]] = "gone"
    BY <1>2, <1>3 DEF LinkInv, TypeInv, StateTyped
  <1>6. next.pc = "userOrg" /\ next.token = t /\ next.op = q.op
    BY <1>1 DEF Request
  <1>7. Moves(r, IF token[t] = "live" THEN next ELSE Idle)
    BY DEF TakeToken
  <1> HIDE DEF next
  <1>8. \A p \in Requests \ {r} : request'[p] = request[p]
    BY <1>7 DEF Moves, TypeInv, RequestsTyped
  <1>9. CASE token[t] = "live"
    <2>1. request'[r] = next
      BY <1>7, <1>9 DEF Moves, TypeInv, RequestsTyped
    <2>2. \A s \in Sessions : origin[s] # t
      BY <1>1, <1>9, SessionAssumption DEF LinkInv
    <2>3. \A p \in Requests : ~Holds(request[p], t)
      BY <1>1, <1>9 DEF LinkInv
    <2>4. \A p \in Requests \ {r}, u \in Tokens :
              Holds(request[p], u)' <=> Holds(request[p], u)
      BY <1>8 DEF Holds
    <2>5. \A u \in Tokens : Holds(request[r], u)' => u = t
      BY <2>1, <1>6 DEF Holds
    <2>6. \A p \in Requests : OwnRecord(request[p])'
      BY <1>2, <1>6, <1>8, <2>1 DEF OwnRecord, LinkInv
    <2>7. \A p \in Requests, u \in Tokens :
              Holds(request[p], u)'
              => token'[u] = "gone" /\ \A s \in Sessions : origin'[s] # u
      BY <1>2, <1>3, <2>2, <2>4, <2>5 DEF LinkInv
    <2>8. \A p1, p2 \in Requests, u \in Tokens :
              Holds(request[p1], u)' /\ Holds(request[p2], u)' => p1 = p2
      BY <2>3, <2>4, <2>5 DEF LinkInv
    <2> QED
      BY <1>4, <1>5, <2>6, <2>7, <2>8 DEF LinkInv
  <1>10. CASE token[t] # "live"
    <2>1. request'[r] = Idle
      BY <1>7, <1>10 DEF Moves, TypeInv, RequestsTyped
    <2>2. \A p \in Requests, u \in Tokens :
              Holds(request[p], u)' => Holds(request[p], u)
      BY <1>8, <2>1 DEF Holds, Idle
    <2>3. \A p \in Requests : OwnRecord(request[p])'
      BY <1>2, <1>8, <2>1 DEF OwnRecord, LinkInv, Idle
    <2> QED
      BY <1>2, <1>3, <1>4, <1>5, <2>2, <2>3 DEF LinkInv
  <1> QED
    BY <1>9, <1>10

\* The session is created: the request gives up the link it held.
LEMMA CreateLink ==
    ASSUME TypeInv, LinkInv, NEW r \in Requests, CreateSession(r)
    PROVE  LinkInv'
  <1> DEFINE q == request[r]
             t == q.token
             record == [user |-> q.user, org |-> q.org,
                        completed |-> q.completed]
  <1>1. /\ q.pc = "store" /\ q.op = "verify" /\ t \in Tokens
        /\ q.user = TokenUser[t]
    BY DEF CreateSession, At, TypeInv, RequestsTyped, WellFormed, Known
  <1>2. PICK s \in Sessions :
            /\ origin[s] = Null
            /\ origin' = [origin EXCEPT ![s] = t]
            /\ session' = [session EXCEPT ![s] = record]
    BY DEF CreateSession
  <1>3. Holds(q, t)
    BY <1>1 DEF Holds
  <1>4. token[t] = "gone" /\ \A x \in Sessions : origin[x] # t
    BY <1>1, <1>3 DEF LinkInv
  <1>5. t # Null
    BY <1>1, SessionAssumption
  <1>6. token' = token /\ Moves(r, Idle)
    BY DEF CreateSession
  <1>7. record.user = TokenUser[t]
    BY <1>1
  <1> HIDE DEF record
  <1>8. /\ origin'[s] = t /\ session'[s] = record
        /\ \A x \in Sessions \ {s} :
               origin'[x] = origin[x] /\ session'[x] = session[x]
    BY <1>2 DEF TypeInv, StateTyped
  <1>9. LinksOneShot'
    BY <1>4, <1>5, <1>7, <1>8 DEF LinkInv, LinksOneShot
  <1>10. \A x \in Sessions : origin'[x] # Null => token'[origin'[x]] = "gone"
    BY <1>4, <1>6, <1>8 DEF LinkInv
  <1>11. /\ request'[r] = Idle
         /\ \A p \in Requests \ {r} : request'[p] = request[p]
    BY <1>6 DEF Moves, TypeInv, RequestsTyped
  <1>12. \A p \in Requests, u \in Tokens :
             Holds(request[p], u)' => Holds(request[p], u) /\ p # r
    BY <1>11 DEF Holds, Idle
  <1>13. \A p \in Requests, u \in Tokens :
             Holds(request[p], u)'
             => token'[u] = "gone" /\ \A x \in Sessions : origin'[x] # u
    BY <1>1, <1>3, <1>6, <1>8, <1>12 DEF LinkInv
  <1>14. \A p \in Requests : OwnRecord(request[p])'
    <2> SUFFICES ASSUME NEW p \in Requests
                 PROVE  OwnRecord(request[p])'
      OBVIOUS
    <2>1. CASE p = r
      BY <1>11, <2>1 DEF OwnRecord, Idle
    <2>2. CASE p # r
      <3>1. request'[p] = request[p] /\ OwnRecord(request[p])
        BY <1>11, <2>2 DEF LinkInv
      <3>2. request[p].pc = "save" => request[p].session \in Sessions
        BY DEF TypeInv, RequestsTyped, WellFormed, Known
      <3> QED
        BY <1>2, <1>8, <3>1, <3>2 DEF OwnRecord
    <2> QED
      BY <2>1, <2>2
  <1> QED
    BY <1>9, <1>10, <1>12, <1>13, <1>14 DEF LinkInv

\* An update reads the session's own record ...
LEMMA ReloadLink ==
    ASSUME TypeInv, LinkInv, NEW r \in Requests, ReloadSession(r)
    PROVE  LinkInv'
  <1> DEFINE q == request[r]
             record == session[q.session]
             next == [q EXCEPT !.pc = "save", !.loaded = record]
  <1>1. /\ q \in Request /\ q.pc = "reload" /\ q.session \in Sessions
        /\ q.op # "verify"
    BY DEF ReloadSession, At, TypeInv, RequestsTyped, WellFormed, Known
  <1>2. /\ Moves(r, IF record = Null THEN AfterUpdate(r) ELSE next)
        /\ UNCHANGED <<token, session, origin>>
    BY DEF ReloadSession, Becomes, redis, history
  <1>3. CASE record = Null
    BY <1>1, <1>2, <1>3, AfterUpdateLinkless, PlainLink
  <1>4. CASE record # Null
    <2>1. origin[q.session] # Null
          /\ record.user = TokenUser[origin[q.session]]
      BY <1>1, <1>4 DEF LinkInv, LinksOneShot
    <2> HIDE DEF record
    <2>2. next.op = q.op /\ next.session = q.session /\ next.loaded = record
      BY <1>1 DEF Request
    <2>3. Moves(r, next)
      BY <1>2, <1>4
    <2> HIDE DEF next
    <2>4. \A t \in Tokens : ~Holds(next, t)
      BY <1>1, <2>2 DEF Holds
    <2>5. OwnRecord(next)
      BY <2>1, <2>2 DEF OwnRecord
    <2> QED
      BY <1>2, <2>3, <2>4, <2>5, MovesLink
  <1> QED
    BY <1>3, <1>4

\* ... and writes it back to a session that has an origin.
LEMMA SaveLink ==
    ASSUME TypeInv, LinkInv, NEW r \in Requests, SaveSession(r)
    PROVE  LinkInv'
  <1> DEFINE q == request[r]
             record == Mirrored(q.loaded, q.org)
  <1>1. q.pc = "save" /\ q.session \in Sessions /\ q.loaded \in Record
    BY DEF SaveSession, At, TypeInv, RequestsTyped, WellFormed, Known
  <1>2. /\ session' = [session EXCEPT ![q.session] = record]
        /\ Moves(r, AfterUpdate(r)) /\ UNCHANGED <<token, origin>>
    BY DEF SaveSession, history
  <1>3. record.user = q.loaded.user
    BY <1>1 DEF Mirrored, Record
  <1>4. origin[q.session] # Null
        /\ q.loaded.user = TokenUser[origin[q.session]]
    BY <1>1 DEF LinkInv, OwnRecord
  <1> HIDE DEF record
  <1>5. /\ session'[q.session] = record
        /\ \A x \in Sessions \ {q.session} : session'[x] = session[x]
    BY <1>1, <1>2 DEF TypeInv, StateTyped
  <1>6. LinksOneShot'
    BY <1>2, <1>3, <1>4, <1>5 DEF LinkInv, LinksOneShot
  <1>7. Linkless(AfterUpdate(r))
    BY <1>1, AfterUpdateLinkless
  <1>8. /\ request'[r] = AfterUpdate(r)
        /\ \A p \in Requests \ {r} : request'[p] = request[p]
    BY <1>2 DEF Moves, TypeInv, RequestsTyped
  <1>9. \A p \in Requests, t \in Tokens :
            Holds(request[p], t)' => Holds(request[p], t)
    BY <1>7, <1>8 DEF Holds, Linkless
  <1>10. \A p \in Requests : OwnRecord(request[p])'
    BY <1>2, <1>7, <1>8 DEF OwnRecord, LinkInv, Linkless
  <1> QED
    BY <1>2, <1>6, <1>9, <1>10 DEF LinkInv

\* Links and sessions may end at any time.
LEMMA EndingsLink ==
    ASSUME TypeInv, LinkInv, UNCHANGED <<request, origin>>,
           \A t \in Tokens : token[t] = "gone" => token'[t] = "gone",
           \A s \in Sessions : session'[s] \in {session[s], Null}
    PROVE  LinkInv'
  <1>1. LinksOneShot'
    BY DEF LinkInv, LinksOneShot
  <1>2. \A s \in Sessions : origin'[s] # Null => token'[origin'[s]] = "gone"
    BY DEF LinkInv, TypeInv, StateTyped
  <1>3. \A p \in Requests, t \in Tokens :
            Holds(request[p], t)' <=> Holds(request[p], t)
    BY DEF Holds
  <1>4. \A p \in Requests : OwnRecord(request[p])'
    BY DEF OwnRecord, LinkInv
  <1> QED
    BY <1>1, <1>2, <1>3, <1>4 DEF LinkInv

LEMMA LinkStep == TypeInv /\ LinkInv /\ [Next]_vars => LinkInv'
  <1> SUFFICES ASSUME TypeInv, LinkInv, [Next]_vars
               PROVE  LinkInv'
    OBVIOUS
  <1>1. ASSUME NEW r \in Requests, Receive(r) \/ Serve(r) \/ CallFails(r)
        PROVE  LinkInv'
    BY <1>1, PlainSteps, TakeLink, CreateLink, ReloadLink, SaveLink DEF Serve
  <1>2. ASSUME NEW t \in Tokens, RequestLink(t) \/ LinkExpires(t)
        PROVE  LinkInv'
    <2>1. \A u \in Tokens : token[u] = "gone" => token'[u] = "gone"
      BY <1>2 DEF RequestLink, LinkExpires, TypeInv, StateTyped
    <2>2. UNCHANGED <<request, origin, session>>
      BY <1>2 DEF RequestLink, LinkExpires, history
    <2> QED
      BY <2>1, <2>2, EndingsLink
  <1>3. ASSUME NEW s \in Sessions, Logout(s) \/ SessionExpires(s)
        PROVE  LinkInv'
    <2>1. \A x \in Sessions : session'[x] \in {session[x], Null}
      BY <1>3 DEF Logout, SessionExpires, TypeInv, StateTyped
    <2>2. UNCHANGED <<request, origin, token>>
      BY <1>3 DEF Logout, SessionExpires, history
    <2> QED
      BY <2>1, <2>2, EndingsLink
  <1>4. ASSUME (\E u \in Users : UserOrgExpires(u)) \/ UNCHANGED vars
        PROVE  LinkInv'
    <2>1. UNCHANGED <<request, origin, token, session>>
      BY <1>4 DEF UserOrgExpires, history, vars, redis
    <2> QED
      BY <2>1, EndingsLink
  <1>5. ASSUME Crash
        PROVE  LinkInv'
    <2>1. \A r \in Requests : request'[r] = Idle
      BY <1>5 DEF Crash
    <2>2. UNCHANGED <<token, session, origin>>
      BY <1>5 DEF Crash, redis, history
    <2>3. \A r \in Requests, t \in Tokens : ~Holds(request[r], t)'
      BY <2>1 DEF Holds, Idle
    <2>4. \A r \in Requests : OwnRecord(request[r])'
      BY <2>1 DEF OwnRecord, Idle
    <2>5. LinksOneShot'
      BY <2>2 DEF LinkInv, LinksOneShot
    <2> QED
      BY <2>2, <2>3, <2>4, <2>5 DEF LinkInv
  <1> QED
    BY <1>1, <1>2, <1>3, <1>4, <1>5 DEF Next

LEMMA LinkInvariant == Spec => [](TypeInv /\ LinkInv)
  <1>1. Init => LinkInv
    <2> SUFFICES ASSUME Init
                 PROVE  LinkInv
      OBVIOUS
    <2>1. \A s \in Sessions : origin[s] = Null /\ session[s] = Null
      BY DEF Init
    <2>2. \A r \in Requests : request[r] = Idle
      BY DEF Init
    <2> QED
      BY <2>1, <2>2 DEF LinkInv, LinksOneShot, Holds, OwnRecord, Idle
  <1> QED
    BY <1>1, LinkStep, TypeInvariant, PTL DEF Spec

\* However often a link is followed, at the same time or again, it creates at
\* most one session, of the user it was sent to (auth.service.ts:89).
THEOREM LinkCreatesOneSession == Spec => []LinksOneShot
  BY LinkInvariant, PTL DEF LinkInv

-----------------------------------------------------------------------------
(* The gate opens only after an onboarding. *)

\* A request that says "completed" does so for an organisation whose
\* onboarding was; it says so exactly once it has found or completed it.
Sound(q, completed) ==
    /\ q.completed => q.org \in completed
    /\ q.pc \in {"take", "guard", "userOrg", "select", "cached"}
           => ~q.completed
    /\ q.pc \in {"remember", "reload", "save"} => q.completed
    /\ q.pc = "persist" /\ q.op = "complete" => q.completed

OrgsSound ==
    \A x \in Orgs : memory[x] = "completed" \/ table[x] = "completed"
                    => x \in onboarded

GateInv ==
    /\ GateNeedsOnboarding
    /\ OrgsSound
    /\ \A r \in Requests : Sound(request[r], onboarded)

LEMMA MovesGate ==
    ASSUME TypeInv, GateInv, NEW r \in Requests, NEW state, Moves(r, state),
           Sound(state, onboarded'), onboarded \subseteq onboarded', OrgsSound',
           GateNeedsOnboarding'
    PROVE  GateInv'
  <1>1. /\ request'[r] = state
        /\ \A p \in Requests \ {r} : request'[p] = request[p]
    BY DEF Moves, TypeInv, RequestsTyped
  <1>2. \A p \in Requests : Sound(request[p], onboarded)'
    BY <1>1 DEF GateInv, Sound
  <1> QED
    BY <1>2 DEF GateInv

LEMMA BecomesGate ==
    ASSUME TypeInv, GateInv, NEW r \in Requests, NEW state,
           Becomes(r, state), Sound(state, onboarded)
    PROVE  GateInv'
  <1>1. Moves(r, state) /\ UNCHANGED <<session, memory, table, onboarded>>
    BY DEF Becomes, redis, orgs, history
  <1>2. Sound(state, onboarded') /\ OrgsSound' /\ GateNeedsOnboarding'
    BY <1>1 DEF Sound, GateInv, OrgsSound, GateNeedsOnboarding
  <1> QED
    BY <1>1, <1>2, MovesGate

LEMMA IdleSound == \A set : Sound(Idle, set)
  BY DEF Sound, Idle

LEMMA FoundSound ==
    ASSUME NEW q \in Request, NEW x \in Orgs
    PROVE  /\ Found(q, x).completed = TRUE /\ Found(q, x).org = x
           /\ Found(q, x).pc \in {"store", "reload"}
  <1> DEFINE pc == IF q.op = "verify" THEN "store" ELSE "reload"
  <1>1. Found(q, x) = [q EXCEPT !.pc = pc, !.org = x, !.completed = TRUE]
    BY DEF Found
  <1>2. pc \in {"store", "reload"}
    OBVIOUS
  <1> HIDE DEF pc
  <1> QED
    BY <1>1, <1>2 DEF Request

LEMMA ContinueGate ==
    ASSUME TypeInv, GateInv, NEW r \in Requests, NEW q \in Request,
           ~q.completed, NEW o \in Orgs \cup {Null}, Continue(r, q, o)
    PROVE  GateInv'
  <1>1. CASE q.op = "complete"
    <2>1. PICK target \in Target(o) :
              /\ memory' = [memory EXCEPT ![target] = "completed"]
              /\ onboarded' = onboarded \cup {target}
              /\ Moves(r, [q EXCEPT !.pc = "persist", !.org = target,
                                    !.completed = TRUE])
              /\ UNCHANGED <<redis, table, origin>>
      BY <1>1 DEF Continue
    <2>2. target \in Orgs
      BY DEF Target, Present
    <2> DEFINE next == [q EXCEPT !.pc = "persist", !.org = target,
                                 !.completed = TRUE]
    <2>3. next.pc = "persist" /\ next.org = target /\ next.completed = TRUE
      BY DEF Request
    <2>4. Moves(r, next)
      BY <2>1
    <2> HIDE DEF next
    <2>5. Sound(next, onboarded')
      BY <2>1, <2>3 DEF Sound
    <2>6. OrgsSound'
      BY <2>1, <2>2 DEF GateInv, OrgsSound, TypeInv, StateTyped
    <2>7. GateNeedsOnboarding'
      BY <2>1 DEF GateInv, GateNeedsOnboarding, redis
    <2> QED
      BY <2>1, <2>4, <2>5, <2>6, <2>7, MovesGate
  <1>2. CASE q.op # "complete" /\ CompletedInMemory(o) = {}
    <2> DEFINE next == [q EXCEPT !.pc = "select", !.org = o]
    <2>1. next.pc = "select" /\ ~next.completed
      BY DEF Request
    <2>2. Becomes(r, next)
      BY <1>2 DEF Continue
    <2> HIDE DEF next
    <2> QED
      BY <2>1, <2>2, BecomesGate DEF Sound
  <1>3. CASE q.op # "complete" /\ CompletedInMemory(o) # {}
    <2>1. PICK x \in CompletedInMemory(o) : Becomes(r, Found(q, x))
      BY <1>3 DEF Continue
    <2>2. x \in Orgs /\ memory[x] = "completed"
      BY DEF CompletedInMemory
    <2>3. x \in onboarded
      BY <2>2 DEF GateInv, OrgsSound
    <2>4. Sound(Found(q, x), onboarded)
      BY <2>2, <2>3, FoundSound DEF Sound
    <2> QED
      BY <2>1, <2>4, BecomesGate
  <1> QED
    BY <1>1, <1>2, <1>3

\* A request that goes on, with the organisation and the mark it has.
LEMMA AfterUpdateSound ==
    ASSUME TypeInv, GateInv, NEW r \in Requests,
           request[r].pc \in {"reload", "save"}
    PROVE  Sound(AfterUpdate(r), onboarded)
  <1> DEFINE q == request[r]
             next == [q EXCEPT !.pc = "remember", !.loaded = Null]
  <1>1. q \in Request /\ Sound(q, onboarded)
    BY DEF TypeInv, RequestsTyped, GateInv
  <1>2. next.pc = "remember" /\ next.completed = q.completed
        /\ next.org = q.org
    BY <1>1 DEF Request
  <1>3. AfterUpdate(r) = IF q.op = "guarded" THEN next ELSE Idle
    BY DEF AfterUpdate
  <1> HIDE DEF next
  <1> QED
    BY <1>1, <1>2, <1>3, IdleSound DEF Sound

LEMMA PersistedSound ==
    ASSUME TypeInv, GateInv, NEW r \in Requests, request[r].pc = "persist"
    PROVE  Sound(Persisted(r), onboarded)
  <1> DEFINE q == request[r]
             next == [q EXCEPT !.pc = "remember"]
  <1>1. q \in Request /\ Sound(q, onboarded) /\ q.op \in {"create", "complete"}
    BY DEF TypeInv, RequestsTyped, WellFormed, GateInv
  <1>2. next.pc = "remember" /\ next.completed = q.completed
        /\ next.org = q.org
    BY <1>1 DEF Request
  <1>3. Persisted(r) = IF q.op = "create" THEN Idle ELSE next
    BY DEF Persisted
  <1> HIDE DEF next
  <1> QED
    BY <1>1, <1>2, <1>3, IdleSound DEF Sound

\* The steps that only move a request.
LEMMA MovingGate ==
    ASSUME TypeInv, GateInv, NEW r \in Requests,
           \/ \E t \in Tokens : Verify(r, t)
           \/ \E s \in Sessions :
                  Call(r, s, "guarded") \/ Call(r, s, "complete")
           \/ AnswerFromSession(r) \/ SelectNone(r) \/ ReadCached(r)
           \/ PersistFails(r) \/ ReloadSession(r) \/ CallFails(r)
    PROVE  GateInv'
  <1> DEFINE q == request[r]
  <1>0. q \in Request /\ Sound(q, onboarded)
    BY DEF TypeInv, RequestsTyped, GateInv
  <1>1. ASSUME NEW t \in Tokens, Verify(r, t)
        PROVE  GateInv'
    <2> DEFINE next == [Idle EXCEPT !.pc = "take", !.op = "verify",
                                    !.token = t, !.user = TokenUser[t]]
    <2>1. Becomes(r, next)
      BY <1>1 DEF Verify, Start
    <2>2. Sound(next, onboarded)
      BY DEF Idle, Sound
    <2> HIDE DEF next
    <2> QED
      BY <2>1, <2>2, BecomesGate
  <1>2. ASSUME NEW s \in Sessions, NEW op \in {"guarded", "complete"},
               Call(r, s, op)
        PROVE  GateInv'
    <2> DEFINE next == [Idle EXCEPT !.pc = "guard", !.op = op, !.session = s]
    <2>1. Becomes(r, next)
      BY <1>2 DEF Call, Start
    <2>2. Sound(next, onboarded)
      BY DEF Idle, Sound
    <2> HIDE DEF next
    <2> QED
      BY <2>1, <2>2, BecomesGate
  <1>3. ASSUME AnswerFromSession(r) \/ CallFails(r)
        PROVE  GateInv'
    BY <1>3, IdleSound, BecomesGate DEF AnswerFromSession, CallFails
  <1>4. ASSUME SelectNone(r)
        PROVE  GateInv'
    <2> DEFINE next == [q EXCEPT !.pc = "cached"]
    <2>1. q.pc = "select" /\ (Becomes(r, next) \/ Becomes(r, Idle))
      BY <1>4 DEF SelectNone, At
    <2>2. next.pc = "cached" /\ next.completed = q.completed
      BY <1>0 DEF Request
    <2> HIDE DEF next
    <2>3. Sound(next, onboarded)
      BY <1>0, <2>1, <2>2 DEF Sound
    <2> QED
      BY <2>1, <2>3, IdleSound, BecomesGate
  <1>5. ASSUME ReadCached(r)
        PROVE  GateInv'
    <2> DEFINE next == [q EXCEPT !.pc = "store", !.org = userOrg[q.user]]
    <2>1. q.pc = "cached" /\ Becomes(r, next)
      BY <1>5 DEF ReadCached, At
    <2>2. next.pc = "store" /\ next.completed = q.completed
      BY <1>0 DEF Request
    <2> HIDE DEF next
    <2>3. Sound(next, onboarded)
      BY <1>0, <2>1, <2>2 DEF Sound
    <2> QED
      BY <2>1, <2>3, BecomesGate
  <1>6. ASSUME PersistFails(r)
        PROVE  GateInv'
    BY <1>6, PersistedSound, BecomesGate DEF PersistFails, At
  <1>7. ASSUME ReloadSession(r)
        PROVE  GateInv'
    <2> DEFINE record == session[q.session]
               next == [q EXCEPT !.pc = "save", !.loaded = record]
    <2>1. q.pc = "reload"
          /\ (Becomes(r, next) \/ Becomes(r, AfterUpdate(r)))
      BY <1>7 DEF ReloadSession, At
    <2>2. next.pc = "save" /\ next.completed = q.completed
          /\ next.org = q.org
      BY <1>0 DEF Request
    <2> HIDE DEF next
    <2>3. Sound(next, onboarded)
      BY <1>0, <2>1, <2>2 DEF Sound
    <2> QED
      BY <2>1, <2>3, AfterUpdateSound, BecomesGate
  <1> QED
    BY <1>1, <1>2, <1>3, <1>4, <1>5, <1>6, <1>7

\* The steps that read or write the organisations.
LEMMA OrgsGate ==
    ASSUME TypeInv, GateInv, NEW r \in Requests,
           \/ LoadSession(r) \/ ReadUserOrg(r) \/ SelectFound(r)
           \/ \E o \in Orgs : CreateOrg(r, o)
           \/ PersistOrg(r)
    PROVE  GateInv'
  <1> DEFINE q == request[r]
  <1>0. q \in Request /\ WellFormed(q) /\ StateTyped /\ Sound(q, onboarded)
    BY DEF TypeInv, RequestsTyped, GateInv
  <1>1. ASSUME LoadSession(r)
        PROVE  GateInv'
    <2> DEFINE record == session[q.session]
               loaded == [q EXCEPT !.user = record.user]
    <2>1. q.pc = "guard" /\ record # Null
      BY <1>1 DEF LoadSession, At
    <2>2. record.user \in Users /\ record.org \in Orgs \cup {Null}
      BY <1>0, <2>1 DEF WellFormed, StateTyped, Record
    <2>3. IF record.org = Null
          THEN Becomes(r, [loaded EXCEPT !.pc = "userOrg"])
          ELSE Continue(r, loaded, record.org)
      BY <1>1 DEF LoadSession
    <2> HIDE DEF record
    <2>4. loaded \in Request /\ ~loaded.completed
      BY <1>0, <2>1, <2>2 DEF Request, Sound
    <2> HIDE DEF loaded
    <2>5. CASE record.org = Null
      <3> DEFINE next == [loaded EXCEPT !.pc = "userOrg"]
      <3>1. next.pc = "userOrg" /\ ~next.completed
        BY <2>4 DEF Request
      <3>2. Becomes(r, next)
        BY <2>3, <2>5
      <3> HIDE DEF next
      <3> QED
        BY <3>1, <3>2, BecomesGate DEF Sound
    <2>6. CASE record.org # Null
      BY <2>2, <2>3, <2>4, <2>6, ContinueGate
    <2> QED
      BY <2>5, <2>6
  <1>2. ASSUME ReadUserOrg(r)
        PROVE  GateInv'
    <2>1. q.pc = "userOrg" /\ Continue(r, q, userOrg[q.user])
      BY <1>2 DEF ReadUserOrg, At
    <2>2. userOrg[q.user] \in Orgs \cup {Null}
      BY <1>0, <2>1, SessionAssumption DEF WellFormed, Known, StateTyped
    <2>3. ~q.completed
      BY <1>0, <2>1 DEF Sound
    <2> QED
      BY <1>0, <2>1, <2>2, <2>3, ContinueGate
  <1>3. ASSUME SelectFound(r)
        PROVE  GateInv'
    <2>1. PICK x \in CompletedInTable(q.org) :
              /\ memory' = [memory EXCEPT ![x] = "completed"]
              /\ Moves(r, Found(q, x))
      BY <1>3 DEF SelectFound
    <2>2. UNCHANGED <<session, table, onboarded>>
      BY <1>3 DEF SelectFound, redis, history
    <2>3. x \in Orgs /\ table[x] = "completed"
      BY DEF CompletedInTable
    <2>4. x \in onboarded
      BY <2>3 DEF GateInv, OrgsSound
    <2>5. Sound(Found(q, x), onboarded')
      BY <1>0, <2>2, <2>3, <2>4, FoundSound DEF Sound
    <2>6. OrgsSound'
      BY <1>0, <2>1, <2>2, <2>4 DEF GateInv, OrgsSound, StateTyped
    <2>7. GateNeedsOnboarding'
      BY <2>2 DEF GateInv, GateNeedsOnboarding
    <2> QED
      BY <2>1, <2>2, <2>5, <2>6, <2>7, MovesGate
  <1>4. ASSUME NEW o \in Orgs, CreateOrg(r, o)
        PROVE  GateInv'
    <2> DEFINE next == [Idle EXCEPT !.pc = "persist", !.op = "create",
                                    !.org = o]
    <2>1. Moves(r, next) /\ UNCHANGED <<session, table, onboarded>>
          /\ memory' = [memory EXCEPT ![o] = "open"]
      BY <1>4 DEF CreateOrg, redis, history
    <2>2. Sound(next, onboarded')
      BY DEF Idle, Sound
    <2> HIDE DEF next
    <2>3. OrgsSound'
      BY <1>0, <2>1 DEF GateInv, OrgsSound, StateTyped
    <2>4. GateNeedsOnboarding'
      BY <2>1 DEF GateInv, GateNeedsOnboarding
    <2> QED
      BY <2>1, <2>2, <2>3, <2>4, MovesGate
  <1>5. ASSUME PersistOrg(r)
        PROVE  GateInv'
    <2>1. /\ q.pc = "persist" /\ Moves(r, Persisted(r))
          /\ UNCHANGED <<session, memory, onboarded>>
          /\ table' = [table EXCEPT ![q.org] = IF q.completed
                                               THEN "completed" ELSE "open"]
      BY <1>5 DEF PersistOrg, At, redis, history
    <2>2. Sound(Persisted(r), onboarded)
      BY <2>1, PersistedSound
    <2>3. Sound(Persisted(r), onboarded') /\ onboarded \subseteq onboarded'
      BY <2>1, <2>2
    <2>4. OrgsSound'
      <3>1. q.org \in Orgs
        BY <1>0, <2>1 DEF WellFormed
      <3> DEFINE mark == IF q.completed THEN "completed" ELSE "open"
      <3>a. mark = "completed" => q.completed
        OBVIOUS
      <3>b. table' = [table EXCEPT ![q.org] = mark]
        BY <2>1
      <3> HIDE DEF mark
      <3>2. \A x \in Orgs : table'[x] = "completed"
                => table[x] = "completed" \/ (x = q.org /\ q.completed)
        BY <1>0, <3>1, <3>a, <3>b DEF StateTyped
      <3>3. q.completed => q.org \in onboarded
        BY <1>0 DEF Sound
      <3> QED
        BY <2>1, <3>2, <3>3 DEF GateInv, OrgsSound
    <2>5. GateNeedsOnboarding'
      BY <2>1 DEF GateInv, GateNeedsOnboarding
    <2> QED
      BY <2>1, <2>3, <2>4, <2>5, MovesGate
  <1> QED
    BY <1>1, <1>2, <1>3, <1>4, <1>5

\* The steps that write Redis.
LEMMA RedisGate ==
    ASSUME TypeInv, GateInv, NEW r \in Requests,
           TakeToken(r) \/ CreateSession(r) \/ RememberOrg(r) \/ SaveSession(r)
    PROVE  GateInv'
  <1> DEFINE q == request[r]
  <1>0. q \in Request /\ WellFormed(q) /\ StateTyped /\ Sound(q, onboarded)
    BY DEF TypeInv, RequestsTyped, GateInv
  <1>1. UNCHANGED <<memory, table, onboarded>> /\ OrgsSound'
    BY DEF TakeToken, CreateSession, RememberOrg, SaveSession, orgs, history,
           GateInv, OrgsSound
  <1>2. ASSUME TakeToken(r)
        PROVE  GateInv'
    <2> DEFINE next == [q EXCEPT !.pc = "userOrg"]
    <2>1. /\ q.pc = "take" /\ session' = session
          /\ Moves(r, next) \/ Moves(r, Idle)
      BY <1>2 DEF TakeToken, At
    <2>2. next.pc = "userOrg" /\ next.completed = q.completed
      BY <1>0 DEF Request
    <2> HIDE DEF next
    <2>3. Sound(next, onboarded)
      BY <1>0, <2>1, <2>2 DEF Sound
    <2>4. GateNeedsOnboarding'
      BY <1>1, <2>1 DEF GateInv, GateNeedsOnboarding
    <2> QED
      BY <1>1, <2>1, <2>3, <2>4, IdleSound, MovesGate
  <1>3. ASSUME CreateSession(r)
        PROVE  GateInv'
    <2> DEFINE record == [user |-> q.user, org |-> q.org,
                          completed |-> q.completed]
    <2>1. PICK s \in Sessions : session' = [session EXCEPT ![s] = record]
      BY <1>3 DEF CreateSession
    <2>2. record.completed => record.org \in onboarded
      BY <1>0 DEF Sound
    <2> HIDE DEF record
    <2>3. GateNeedsOnboarding'
      BY <1>0, <1>1, <2>1, <2>2 DEF GateInv, GateNeedsOnboarding, StateTyped
    <2>4. Moves(r, Idle)
      BY <1>3 DEF CreateSession
    <2> QED
      BY <1>1, <2>3, <2>4, IdleSound, MovesGate
  <1>4. ASSUME RememberOrg(r)
        PROVE  GateInv'
    <2> DEFINE next == [q EXCEPT !.pc = "reload"]
    <2>1. /\ q.pc = "remember" /\ session' = session
          /\ Moves(r, next) \/ Moves(r, Idle)
      BY <1>4 DEF RememberOrg, At
    <2>2. next.pc = "reload" /\ next.completed = q.completed
          /\ next.org = q.org
      BY <1>0 DEF Request
    <2> HIDE DEF next
    <2>3. Sound(next, onboarded)
      BY <1>0, <2>1, <2>2 DEF Sound
    <2>4. GateNeedsOnboarding'
      BY <1>1, <2>1 DEF GateInv, GateNeedsOnboarding
    <2> QED
      BY <1>1, <2>1, <2>3, <2>4, IdleSound, MovesGate
  <1>5. ASSUME SaveSession(r)
        PROVE  GateInv'
    <2> DEFINE record == Mirrored(q.loaded, q.org)
    <2>1. /\ q.pc = "save" /\ Moves(r, AfterUpdate(r))
          /\ session' = [session EXCEPT ![q.session] = record]
      BY <1>5 DEF SaveSession, At
    <2>2. q.loaded \in Record
      BY <1>0, <2>1 DEF WellFormed
    <2>3. record.org = q.org
      BY <2>2 DEF Mirrored, Record
    <2>4. q.org \in onboarded
      BY <1>0, <2>1 DEF Sound
    <2> HIDE DEF record
    <2>5. GateNeedsOnboarding'
      BY <1>0, <1>1, <2>1, <2>3, <2>4
         DEF GateInv, GateNeedsOnboarding, StateTyped
    <2>6. Sound(AfterUpdate(r), onboarded)
      BY <2>1, AfterUpdateSound
    <2> QED
      BY <1>1, <2>1, <2>5, <2>6, MovesGate
  <1> QED
    BY <1>2, <1>3, <1>4, <1>5

\* The requests stay where they are, or all end; sessions may end.
LEMMA EndingsGate ==
    ASSUME TypeInv, GateInv, OrgsSound', onboarded' = onboarded,
           \A s \in Sessions : session'[s] \in {session[s], Null},
           \A r \in Requests : request'[r] \in {request[r], Idle}
    PROVE  GateInv'
  <1>1. GateNeedsOnboarding'
    BY DEF GateInv, GateNeedsOnboarding
  <1>2. ASSUME NEW r \in Requests
        PROVE  Sound(request[r], onboarded)'
    <2>1. Sound(request[r], onboarded) /\ Sound(Idle, onboarded)
      BY IdleSound DEF GateInv
    <2> QED
      BY <2>1 DEF Sound
  <1> QED
    BY <1>1, <1>2 DEF GateInv

LEMMA GateStep == TypeInv /\ GateInv /\ [Next]_vars => GateInv'
  <1> SUFFICES ASSUME TypeInv, GateInv, [Next]_vars
               PROVE  GateInv'
    OBVIOUS
  <1>1. ASSUME NEW r \in Requests, Receive(r) \/ Serve(r) \/ CallFails(r)
        PROVE  GateInv'
    BY <1>1, MovingGate, OrgsGate, RedisGate DEF Receive, Serve
  <1>2. ASSUME \/ \E t \in Tokens : RequestLink(t) \/ LinkExpires(t)
               \/ \E s \in Sessions : Logout(s) \/ SessionExpires(s)
               \/ \E u \in Users : UserOrgExpires(u)
               \/ UNCHANGED vars
        PROVE  GateInv'
    <2>1. UNCHANGED <<memory, table, onboarded, request>>
      BY <1>2 DEF RequestLink, LinkExpires, Logout, SessionExpires,
                  UserOrgExpires, vars, orgs, history
    <2>2. \A s \in Sessions : session'[s] \in {session[s], Null}
      BY <1>2 DEF RequestLink, LinkExpires, Logout, SessionExpires,
                  UserOrgExpires, vars, redis, TypeInv, StateTyped
    <2>3. OrgsSound'
      BY <2>1 DEF GateInv, OrgsSound
    <2> QED
      BY <2>1, <2>2, <2>3, EndingsGate
  <1>3. ASSUME Crash
        PROVE  GateInv'
    <2>1. memory' = Seed /\ UNCHANGED <<session, table, onboarded>>
      BY <1>3 DEF Crash, redis, history
    <2>2. OrgsSound'
      BY <2>1 DEF Seed, GateInv, OrgsSound
    <2>3. \A r \in Requests : request'[r] = Idle
      BY <1>3 DEF Crash
    <2> QED
      BY <2>1, <2>2, <2>3, EndingsGate
  <1> QED
    BY <1>1, <1>2, <1>3 DEF Next

LEMMA GateInvariant == Spec => []GateInv
  <1>1. Init => GateInv
    <2> SUFFICES ASSUME Init
                 PROVE  GateInv
      OBVIOUS
    <2>1. \A s \in Sessions : session[s] = Null
      BY DEF Init
    <2>2. \A r \in Requests : Sound(request[r], onboarded)
      BY IdleSound DEF Init
    <2>3. OrgsSound
      BY DEF Init, Seed, OrgsSound
    <2> QED
      BY <2>1, <2>2, <2>3 DEF GateInv, GateNeedsOnboarding
  <1> QED
    BY <1>1, GateStep, TypeInvariant, PTL DEF Spec

\* A session is marked completed only with an organisation whose onboarding
\* was completed, whichever of the three copies said so (orgs.service.ts:102,
\* onboarding.service.ts:36), through restarts and failed writes.
THEOREM GateSound == Spec => []GateNeedsOnboarding
  BY GateInvariant, PTL DEF GateInv

-----------------------------------------------------------------------------
(* A session that has ended stays ended. *)

\* The request moves to a state that writes no session.
MovesOff(r) == \E state : Moves(r, state) /\ state.pc # "save"

LEMMA IdleOff == Idle.pc # "save"
  BY DEF Idle

LEMMA AfterUpdateOff ==
    ASSUME TypeInv, NEW r \in Requests, request[r].pc \in {"reload", "save"}
    PROVE  AfterUpdate(r).pc # "save"
  BY AfterUpdateLinkless DEF Linkless

LEMMA ContinueOff ==
    ASSUME NEW r \in Requests, NEW q \in Request, NEW o, Continue(r, q, o)
    PROVE  MovesOff(r)
  <1>1. CASE q.op = "complete"
    <2>1. PICK target \in Target(o) :
              Moves(r, [q EXCEPT !.pc = "persist", !.org = target,
                                 !.completed = TRUE])
      BY <1>1 DEF Continue
    <2> DEFINE next == [q EXCEPT !.pc = "persist", !.org = target,
                                 !.completed = TRUE]
    <2>2. next.pc # "save"
      BY DEF Request
    <2> QED
      BY <2>1, <2>2 DEF MovesOff
  <1>2. CASE q.op # "complete" /\ CompletedInMemory(o) = {}
    <2> DEFINE next == [q EXCEPT !.pc = "select", !.org = o]
    <2>1. next.pc # "save" /\ Moves(r, next)
      BY <1>2 DEF Continue, Becomes, Request
    <2> QED
      BY <2>1 DEF MovesOff
  <1>3. CASE q.op # "complete" /\ CompletedInMemory(o) # {}
    <2>1. PICK x \in CompletedInMemory(o) : Moves(r, Found(q, x))
      BY <1>3 DEF Continue, Becomes
    <2>2. Found(q, x).pc # "save"
      BY DEF Found, Request
    <2> QED
      BY <2>1, <2>2 DEF MovesOff
  <1> QED
    BY <1>1, <1>2, <1>3

\* Only the reload of a session that is there leads to a save.
LEMMA OnlyReloadSaves ==
    ASSUME TypeInv, NEW r \in Requests,
           Receive(r) \/ Serve(r) \/ CallFails(r), ~ReloadSession(r)
    PROVE  MovesOff(r)
  <1> DEFINE q == request[r]
  <1>0. q \in Request /\ WellFormed(q) /\ StateTyped
    BY DEF TypeInv, RequestsTyped
  <1>1. ASSUME Receive(r)
        PROVE  MovesOff(r)
    <2>1. ASSUME NEW t \in Tokens, Verify(r, t)
          PROVE  MovesOff(r)
      <3> DEFINE next == [Idle EXCEPT !.pc = "take", !.op = "verify",
                                      !.token = t, !.user = TokenUser[t]]
      <3>1. next.pc # "save" /\ Moves(r, next)
        BY <2>1 DEF Verify, Start, Becomes, Idle
      <3> QED
        BY <3>1 DEF MovesOff
    <2>2. ASSUME NEW s \in Sessions, NEW op, Call(r, s, op)
          PROVE  MovesOff(r)
      <3> DEFINE next == [Idle EXCEPT !.pc = "guard", !.op = op,
                                      !.session = s]
      <3>1. next.pc # "save" /\ Moves(r, next)
        BY <2>2 DEF Call, Start, Becomes, Idle
      <3> QED
        BY <3>1 DEF MovesOff
    <2>3. ASSUME NEW o \in Orgs, CreateOrg(r, o)
          PROVE  MovesOff(r)
      <3> DEFINE next == [Idle EXCEPT !.pc = "persist", !.op = "create",
                                      !.org = o]
      <3>1. next.pc # "save" /\ Moves(r, next)
        BY <2>3 DEF CreateOrg, Idle
      <3> QED
        BY <3>1 DEF MovesOff
    <2> QED
      BY <1>1, <2>1, <2>2, <2>3 DEF Receive
  <1>2. ASSUME AnswerFromSession(r) \/ CallFails(r) \/ CreateSession(r)
        PROVE  MovesOff(r)
    BY <1>2, IdleOff
       DEF AnswerFromSession, CallFails, CreateSession, Becomes, MovesOff
  <1>3. ASSUME LoadSession(r)
        PROVE  MovesOff(r)
    <2> DEFINE record == session[q.session]
               loaded == [q EXCEPT !.user = record.user]
    <2>1. q.pc = "guard" /\ record # Null
      BY <1>3 DEF LoadSession, At
    <2>2. q.session \in Sessions
      BY <1>0, <2>1 DEF WellFormed
    <2>3. record.user \in Users
      BY <1>0, <2>1, <2>2 DEF StateTyped, Record
    <2>4. IF record.org = Null
          THEN Becomes(r, [loaded EXCEPT !.pc = "userOrg"])
          ELSE Continue(r, loaded, record.org)
      BY <1>3 DEF LoadSession
    <2> HIDE DEF record
    <2>5. loaded \in Request
      BY <1>0, <2>3 DEF Request
    <2> HIDE DEF loaded
    <2>6. CASE record.org = Null
      <3> DEFINE next == [loaded EXCEPT !.pc = "userOrg"]
      <3>1. next.pc # "save" /\ Moves(r, next)
        BY <2>4, <2>5, <2>6 DEF Request, Becomes
      <3> QED
        BY <3>1 DEF MovesOff
    <2>7. CASE record.org # Null
      BY <2>4, <2>5, <2>7, ContinueOff
    <2> QED
      BY <2>6, <2>7
  <1>4. ASSUME ReadUserOrg(r)
        PROVE  MovesOff(r)
    BY <1>0, <1>4, ContinueOff DEF ReadUserOrg
  <1>5. ASSUME SelectFound(r)
        PROVE  MovesOff(r)
    <2>1. PICK x : Moves(r, Found(q, x))
      BY <1>5 DEF SelectFound
    <2>2. Found(q, x).pc # "save"
      BY <1>0 DEF Found, Request
    <2> QED
      BY <2>1, <2>2 DEF MovesOff
  <1>6. ASSUME TakeToken(r) \/ SelectNone(r) \/ ReadCached(r)
        PROVE  MovesOff(r)
    <2> DEFINE takes == [q EXCEPT !.pc = "userOrg"]
               caches == [q EXCEPT !.pc = "cached"]
               stores == [q EXCEPT !.pc = "store",
                                   !.org = userOrg[q.user]]
    <2>1. /\ takes.pc # "save" /\ caches.pc # "save" /\ stores.pc # "save"
      BY <1>0 DEF Request
    <2>2. Moves(r, takes) \/ Moves(r, caches) \/ Moves(r, stores)
          \/ Moves(r, Idle)
      BY <1>6 DEF TakeToken, SelectNone, ReadCached, Becomes
    <2> HIDE DEF takes, caches, stores
    <2> QED
      BY <2>1, <2>2, IdleOff DEF MovesOff
  <1>7. ASSUME PersistOrg(r) \/ PersistFails(r)
        PROVE  MovesOff(r)
    <2>1. Moves(r, Persisted(r)) /\ q.pc = "persist"
      BY <1>7 DEF PersistOrg, PersistFails, Becomes, At
    <2> QED
      BY <2>1, PersistedLinkless DEF MovesOff, Linkless
  <1>8. ASSUME RememberOrg(r)
        PROVE  MovesOff(r)
    <2> DEFINE next == [q EXCEPT !.pc = "reload"]
    <2>1. next.pc # "save" /\ (Moves(r, next) \/ Moves(r, Idle))
      BY <1>0, <1>8 DEF RememberOrg, Request
    <2> HIDE DEF next
    <2> QED
      BY <2>1, IdleOff DEF MovesOff
  <1>9. ASSUME SaveSession(r)
        PROVE  MovesOff(r)
    BY <1>9, AfterUpdateOff DEF SaveSession, At, MovesOff
  <1> QED
    BY <1>1, <1>2, <1>3, <1>4, <1>5, <1>6, <1>7, <1>8, <1>9 DEF Serve

\* What a step of a request does to the sessions.
LEMMA SessionWriters ==
    ASSUME [Next]_vars
    PROVE  \/ session' = session
           \/ \E r \in Requests : CreateSession(r) \/ SaveSession(r)
           \/ \E x \in Sessions : Logout(x) \/ SessionExpires(x)
  <1>1. ASSUME NEW r \in Requests, Receive(r) \/ CallFails(r)
        PROVE  session' = session
    BY <1>1 DEF Receive, Verify, Call, CreateOrg, CallFails, Start, Becomes,
                redis
  <1>2. ASSUME NEW r \in Requests, Serve(r)
        PROVE  session' = session \/ CreateSession(r) \/ SaveSession(r)
    BY <1>2 DEF Serve, TakeToken, AnswerFromSession, LoadSession,
                ReadUserOrg, SelectFound, SelectNone, ReadCached,
                PersistOrg, PersistFails, RememberOrg, ReloadSession,
                Continue, Becomes, redis
  <1> QED
    BY <1>1, <1>2 DEF Next, RequestLink, LinkExpires, UserOrgExpires, Crash,
                      vars, redis

\* An ended session is not written ...
LEMMA EndedUnwritten ==
    ASSUME TypeInv, [Next]_vars, NEW s \in Sessions, Ended(s)
    PROVE  session'[s] = Null
  <1>1. ASSUME NEW r \in Requests, CreateSession(r)
        PROVE  session'[s] = session[s]
    <2>1. PICK x \in Sessions :
              /\ origin[x] = Null
              /\ \E record : session' = [session EXCEPT ![x] = record]
      BY <1>1 DEF CreateSession
    <2> QED
      BY <2>1 DEF Ended, TypeInv, StateTyped
  <1>2. ASSUME NEW r \in Requests, SaveSession(r)
        PROVE  session'[s] = session[s]
    BY <1>2 DEF SaveSession, Ended, TypeInv, StateTyped
  <1>3. ASSUME NEW x \in Sessions, Logout(x) \/ SessionExpires(x)
        PROVE  session'[s] \in {session[s], Null}
    BY <1>3 DEF Logout, SessionExpires, TypeInv, StateTyped
  <1> QED
    BY <1>1, <1>2, <1>3, SessionWriters DEF Ended

\* ... and not read for an update.
LEMMA EndedUnread ==
    ASSUME TypeInv, [Next]_vars, NEW s \in Sessions, Ended(s),
           NEW r \in Requests, request'[r].pc = "save"
    PROVE  request'[r].session # s
  <1>1. CASE request'[r] = request[r]
    BY <1>1 DEF Ended, At
  <1>2. ASSUME NEW p \in Requests, MovesOff(p)
        PROVE  request'[r] = request[r]
    BY <1>2 DEF MovesOff, Moves, TypeInv, RequestsTyped
  <1>3. ASSUME NEW p \in Requests, ReloadSession(p)
        PROVE  request'[r].session # s
    <2> DEFINE q == request[p]
               record == session[q.session]
               next == [q EXCEPT !.pc = "save", !.loaded = record]
    <2>1. /\ q \in Request /\ q.pc = "reload"
          /\ Moves(p, IF record = Null THEN AfterUpdate(p) ELSE next)
      BY <1>3 DEF ReloadSession, At, Becomes, TypeInv, RequestsTyped
    <2>2. next.session = q.session
      BY <2>1 DEF Request
    <2>3. AfterUpdate(p).pc # "save"
      BY <2>1, AfterUpdateOff
    <2>4. q.session = s => record = Null
      BY DEF Ended
    <2> HIDE DEF next, record
    <2> QED
      BY <1>1, <2>1, <2>2, <2>3, <2>4 DEF Moves, TypeInv, RequestsTyped
  <1>4. ASSUME Crash
        PROVE  request'[r].pc # "save"
    BY <1>4, IdleOff DEF Crash
  <1> QED
    BY <1>1, <1>2, <1>3, <1>4, OnlyReloadSaves
       DEF Next, RequestLink, LinkExpires, Logout, SessionExpires,
           UserOrgExpires, vars

\* A session id is drawn once.
LEMMA OriginStays ==
    ASSUME TypeInv, [Next]_vars, NEW s \in Sessions, origin[s] # Null
    PROVE  origin'[s] # Null
  <1>1. ASSUME NEW r \in Requests, CreateSession(r)
        PROVE  origin'[s] = origin[s]
    <2>1. PICK x \in Sessions :
              /\ origin[x] = Null
              /\ origin' = [origin EXCEPT ![x] = request[r].token]
      BY <1>1 DEF CreateSession
    <2> QED
      BY <2>1 DEF TypeInv, StateTyped
  <1>2. ASSUME NEW r \in Requests, Receive(r) \/ CallFails(r)
        PROVE  origin' = origin
    BY <1>2 DEF Receive, Verify, Call, CreateOrg, CallFails, Start, Becomes,
                history
  <1>3. ASSUME NEW r \in Requests, Serve(r)
        PROVE  origin' = origin \/ CreateSession(r)
    BY <1>3 DEF Serve, TakeToken, AnswerFromSession, LoadSession,
                ReadUserOrg, SelectFound, SelectNone, ReadCached,
                PersistOrg, PersistFails, RememberOrg, ReloadSession,
                SaveSession, Continue, Becomes, history
  <1> QED
    BY <1>1, <1>2, <1>3
       DEF Next, RequestLink, LinkExpires, Logout, SessionExpires,
           UserOrgExpires, Crash, vars, history

\* A logout or an expiry is final, but for an update that had read the record
\* before it (session.service.ts:65-86): a cookie that is still sent, a link
\* followed again, or a restart brings no session back.
THEOREM EndedStaysEnded == Spec => EndedForGood
  <1> DEFINE Stays == \A s \in Sessions : Ended(s) => Ended(s)'
  <1>1. ASSUME TypeInv, [Next]_vars
        PROVE  Stays
    BY <1>1, EndedUnwritten, EndedUnread, OriginStays DEF Ended, At
  <1>2. TypeInv /\ [Next]_vars => [Stays]_vars
    BY <1>1
  <1> HIDE DEF Stays
  <1>3. Spec => [][Stays]_vars
    BY <1>2, TypeInvariant, PTL DEF Spec
  <1> QED
    BY <1>3 DEF EndedForGood, Stays

=============================================================================
