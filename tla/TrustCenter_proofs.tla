------------------------- MODULE TrustCenter_proofs -------------------------
(***************************************************************************)
(* For any number of centers, of requests and of clients that overlap,     *)
(* with patches and failures: types; that an unattested draft is never     *)
(* public; that the audit trail is truthful about it; that a center        *)
(* becomes public by a publication that passed the checklist, or by a      *)
(* patch that puts back what it read; and that the rows implement          *)
(* TrustLifecycle, with or without the editor, which shows the row as it   *)
(* is stored.                                                              *)
(***************************************************************************)
EXTENDS TrustEditorPanel, TLAPS

\* A request that is not idle works on a center; one that is about to save or
\* to answer holds a row; only patches carry a patch.
WellFormed(q) ==
    /\ q.pc # "idle" => q.center \in Centers /\ q.op \in Operations
    /\ q.pc # "idle" /\ q.op = "patch" => q.patch \in Patch
    /\ q.pc \in {"save", "audit"} => q.snap \in Center

TypeInv ==
    /\ TypeOK
    /\ \A r \in Requests : WellFormed(request[r])

\* A row that may be public: its center was seeded public, or is attested.
MayBePublic(c) == c \in Attested \/ Seed[c].status = "published"

\* What a request has loaded, and may still save, is a row that may be.
HarmlessSave(q) ==
    q.pc = "save" /\ q.snap.status = "published" => MayBePublic(q.center)

PublicInv ==
    /\ NeverPublicUnattested
    /\ \A r \in Requests : HarmlessSave(request[r])

-----------------------------------------------------------------------------

LEMMA IdleFacts == Idle \in Request /\ WellFormed(Idle) /\ HarmlessSave(Idle)
  BY DEF Idle, Request, WellFormed, HarmlessSave

\* A request is replaced, and the rows and the trail stay.
Replaced(r, state) ==
    /\ request' = [request EXCEPT ![r] = state]
    /\ UNCHANGED <<center, audit>>

LEMMA BecomesReplaced ==
    ASSUME TypeInv, NEW r \in Requests, NEW state, Becomes(r, state)
    PROVE  /\ Replaced(r, state)
           /\ seen' \in [Requests -> SUBSET Center]
  BY DEF Becomes, Replaced, TypeInv, TypeOK

\* A request is replaced by one that satisfies the invariants.
LEMMA ReplacedType ==
    ASSUME TypeInv, NEW r \in Requests, NEW state \in Request,
           WellFormed(state), Replaced(r, state),
           seen' \in [Requests -> SUBSET Center]
    PROVE  TypeInv'
  BY DEF TypeInv, TypeOK, Replaced, WellFormed

LEMMA ReplacedPublic ==
    ASSUME TypeInv, PublicInv, NEW r \in Requests, NEW state,
           HarmlessSave(state), Replaced(r, state)
    PROVE  PublicInv'
  BY DEF TypeInv, TypeOK, Replaced, PublicInv, NeverPublicUnattested,
         HarmlessSave, MayBePublic

LEMMA PatchedType ==
    ASSUME NEW row \in Center, NEW patch \in Patch
    PROVE  Patched(row, patch) \in Center
           /\ Patched(row, patch).status = row.status
  BY TrustAssumption DEF Patched, Center, Patch

\* A request starts, with any patch that the API accepts.
Starts(r, c) ==
    \E op \in Operations, patch \in Patch \cup {Null} :
        /\ Start(r, c, op, patch)
        /\ op = "patch" => patch \in Patch

\* A step of the API, whoever its client is.
ApiNext ==
    \E r \in Requests :
        (\E c \in Centers : Starts(r, c)) \/ Serve(r) \/ QueryFails(r)

\* What a request that starts, and one that has loaded a row, look like.
LEMMA StartType ==
    ASSUME TypeInv, NEW r \in Requests, NEW c \in Centers,
           NEW op \in Operations, NEW patch \in Patch \cup {Null},
           op = "patch" => patch \in Patch, Start(r, c, op, patch)
    PROVE  \E state \in Request :
               /\ Replaced(r, state) /\ WellFormed(state)
               /\ state.pc = "load" /\ state.op = op /\ state.center = c
               /\ request[r].pc = "idle"
               /\ seen' = [seen EXCEPT ![r] = {center[c]}]
               /\ seen' \in [Requests -> SUBSET Center]
  <1> DEFINE state == [Idle EXCEPT !.pc = "load", !.op = op, !.center = c,
                                   !.patch = patch]
  <1>1. /\ state \in Request /\ WellFormed(state)
        /\ state.pc = "load" /\ state.op = op /\ state.center = c
    BY DEF Idle, Request, WellFormed
  <1>2. Replaced(r, state) /\ request[r].pc = "idle"
    BY DEF Start, Replaced
  <1> HIDE DEF state
  <1>3. /\ seen' = [seen EXCEPT ![r] = {center[c]}]
        /\ seen' \in [Requests -> SUBSET Center]
    BY DEF Start, TypeInv, TypeOK
  <1> QED
    BY <1>1, <1>2, <1>3

LEMMA ReceiveStarts ==
    ASSUME NEW r \in Requests, NEW c \in Centers, Receive(r, c)
    PROVE  Starts(r, c)
  <1>1. PICK op \in Operations, patch \in Patch \cup {Null} :
            /\ Start(r, c, op, patch)
            /\ op = "patch" => patch \in Patches
    BY TrustAssumption DEF Receive, Operations
  <1>2. op = "patch" => patch \in Patch
    BY <1>1, TrustAssumption
  <1> QED
    BY <1>1, <1>2 DEF Starts

LEMMA StartFacts ==
    ASSUME TypeInv, NEW r \in Requests, NEW c \in Centers, Starts(r, c)
    PROVE  \E state \in Request :
               /\ Replaced(r, state) /\ WellFormed(state)
               /\ state.pc = "load" /\ state.op \in Operations
               /\ state.center = c
               /\ request[r].pc = "idle"
               /\ seen' = [seen EXCEPT ![r] = {center[c]}]
               /\ seen' \in [Requests -> SUBSET Center]
  BY StartType DEF Starts

LEMMA SaveFacts ==
    ASSUME TypeInv, NEW r \in Requests, request[r].pc = "load",
           NEW row \in Center, Save(r, row)
    PROVE  \E state \in Request :
               /\ Becomes(r, state) /\ WellFormed(state)
               /\ state.pc = "save" /\ state.snap = row
               /\ state.op = request[r].op /\ state.center = request[r].center
               /\ Replaced(r, state)
               /\ seen' \in [Requests -> SUBSET Center]
  <1> DEFINE state == [request[r] EXCEPT !.pc = "save", !.snap = row]
  <1>1. request[r] \in Request /\ WellFormed(request[r])
    BY DEF TypeInv, TypeOK
  <1>2. state \in Request /\ WellFormed(state)
        /\ state.pc = "save" /\ state.snap = row
        /\ state.op = request[r].op /\ state.center = request[r].center
    BY <1>1 DEF Request, WellFormed
  <1>3. Becomes(r, state)
    BY DEF Save
  <1> QED
    BY <1>2, <1>3, BecomesReplaced

\* The row is saved: nothing is held any more.
LEMMA SavedFacts ==
    ASSUME TypeInv, NEW r \in Requests, SaveTrust(r)
    PROVE  \E state \in Request :
               /\ request' = [request EXCEPT ![r] = state]
               /\ WellFormed(state)
               /\ state.pc = "reread" /\ state.op = request[r].op
               /\ state.center = request[r].center
  <1> DEFINE state == [request[r] EXCEPT !.pc = "reread", !.snap = Null]
  <1>1. request[r] \in Request /\ WellFormed(request[r])
        /\ request[r].pc = "save"
    BY DEF SaveTrust, TypeInv, TypeOK
  <1>2. /\ state \in Request /\ WellFormed(state)
        /\ state.pc = "reread" /\ state.op = request[r].op
        /\ state.center = request[r].center
    BY <1>1 DEF Request, WellFormed
  <1>3. request' = [request EXCEPT ![r] = state]
    BY DEF SaveTrust
  <1> QED
    BY <1>2, <1>3

\* The row is read again, for the answer.
LEMMA RereadFacts ==
    ASSUME TypeInv, NEW r \in Requests, Reread(r)
    PROVE  \E state \in Request :
               /\ Becomes(r, state) /\ WellFormed(state)
               /\ state.pc = "audit" /\ state.op = request[r].op
               /\ state.center = request[r].center
               /\ state.snap = center[state.center]
               /\ Replaced(r, state)
               /\ seen' \in [Requests -> SUBSET Center]
               /\ request[r].pc = "reread"
  <1> DEFINE state == [request[r] EXCEPT !.pc = "audit", !.snap = Row(r)]
  <1>1. /\ request[r] \in Request /\ WellFormed(request[r])
        /\ request[r].pc = "reread" /\ Row(r) \in Center
    BY DEF Reread, TypeInv, TypeOK, WellFormed, Row
  <1>2. /\ state \in Request /\ WellFormed(state)
        /\ state.pc = "audit" /\ state.op = request[r].op
        /\ state.center = request[r].center /\ state.snap = Row(r)
    BY <1>1 DEF Request, WellFormed
  <1>3. Becomes(r, state)
    BY DEF Reread
  <1> QED
    BY <1>1, <1>2, <1>3, BecomesReplaced DEF Row

LEMMA RowFacts ==
    ASSUME TypeInv, NEW r \in Requests, request[r].pc = "load"
    PROVE  /\ request[r].center \in Centers
           /\ Row(r) \in Center
           /\ [Row(r) EXCEPT !.status = "published", !.ack = TRUE] \in Center
           /\ [Row(r) EXCEPT !.status = "draft"] \in Center
           /\ [Row(r) EXCEPT !.status = "draft"].status = "draft"
  BY DEF TypeInv, TypeOK, WellFormed, Row, Center

-----------------------------------------------------------------------------

LEMMA TypeStep ==
    ASSUME TypeInv, [ApiNext]_vars
    PROVE  TypeInv'
  <1>1. ASSUME NEW r \in Requests, NEW c \in Centers, Starts(r, c)
        PROVE  TypeInv'
    BY <1>1, StartFacts, ReplacedType
  <1>2. ASSUME NEW r \in Requests, LoadPublish(r) \/ LoadUnpublish(r)
        PROVE  TypeInv'
    <2>1. request[r].pc = "load"
      BY <1>2 DEF LoadPublish, LoadUnpublish, Loaded
    <2>2. Becomes(r, Idle) \/ \E row \in Center : Save(r, row)
      BY <1>2, <2>1, RowFacts DEF LoadPublish, LoadUnpublish
    <2> QED
      BY <2>1, <2>2, SaveFacts, IdleFacts, BecomesReplaced, ReplacedType
  <1>3. ASSUME NEW r \in Requests, LoadPatch(r)
        PROVE  TypeInv'
    <2>1. request[r].pc = "load" /\ request[r].patch \in Patch
          /\ Row(r) \in Center
      BY <1>3, RowFacts, TrustAssumption
         DEF LoadPatch, Loaded, TypeInv, WellFormed
    <2>2. \E row \in Center : Save(r, row)
      BY <1>3, <2>1, PatchedType DEF LoadPatch
    <2> QED
      BY <2>1, <2>2, SaveFacts, ReplacedType
  <1>4. ASSUME NEW r \in Requests, SaveTrust(r)
        PROVE  TypeInv'
    <2>1. PICK state \in Request :
              /\ request' = [request EXCEPT ![r] = state]
              /\ WellFormed(state)
      BY <1>4, SavedFacts
    <2>2. request[r].center \in Centers /\ request[r].snap \in Center
      BY <1>4 DEF SaveTrust, TypeInv, WellFormed
    <2>3. /\ center' = [center EXCEPT ![request[r].center] = request[r].snap]
          /\ audit' = audit
          /\ seen' \in [Requests -> SUBSET Center]
      BY <1>4, <2>2 DEF SaveTrust, TypeInv, TypeOK
    <2>4. TypeOK'
      BY <2>1, <2>2, <2>3 DEF TypeInv, TypeOK
    <2>5. \A q \in Requests : WellFormed(request'[q])
      BY <2>1 DEF TypeInv, TypeOK
    <2> QED
      BY <2>4, <2>5 DEF TypeInv, WellFormed
  <1>5. ASSUME NEW r \in Requests, Reread(r)
        PROVE  TypeInv'
    BY <1>5, RereadFacts, ReplacedType
  <1>6. ASSUME NEW r \in Requests, AppendAudit(r)
        PROVE  TypeInv'
    <2>1. /\ request' = [request EXCEPT ![r] = Idle] /\ center' = center
          /\ audit' \in [Centers -> SUBSET Actions] /\ seen' = seen
      BY <1>6 DEF AppendAudit, ActionOf, Actions, TypeInv, TypeOK
    <2> QED
      BY <2>1, IdleFacts DEF TypeInv, TypeOK, WellFormed
  <1>7. ASSUME NEW r \in Requests, QueryFails(r)
        PROVE  TypeInv'
    BY <1>7, IdleFacts, BecomesReplaced, ReplacedType DEF QueryFails
  <1>8. CASE UNCHANGED vars
    BY <1>8 DEF vars, TypeInv, TypeOK, WellFormed
  <1> QED
    BY <1>1, <1>2, <1>3, <1>4, <1>5, <1>6, <1>7, <1>8 DEF ApiNext, Serve

LEMMA NextIsApi == Next => ApiNext
  BY ReceiveStarts DEF Next, ApiNext

LEMMA TypeInvariant == Spec => []TypeInv
  <1>1. Init => TypeInv
    BY IdleFacts, TrustAssumption DEF Init, TypeInv, TypeOK
  <1>2. TypeInv /\ [Next]_vars => TypeInv'
    BY TypeStep, NextIsApi
  <1> QED
    BY <1>1, <1>2, PTL DEF Spec

\* Every variable keeps its type.
THEOREM TypeCorrect == Spec => []TypeOK
  BY TypeInvariant, PTL DEF TypeInv

-----------------------------------------------------------------------------

LEMMA PublicStep ==
    ASSUME TypeInv, PublicInv, [ApiNext]_vars
    PROVE  PublicInv'
  <1>1. ASSUME NEW r \in Requests, NEW c \in Centers, Starts(r, c)
        PROVE  PublicInv'
    BY <1>1, StartFacts, ReplacedPublic DEF HarmlessSave
  <1>2. ASSUME NEW r \in Requests,
               LoadPublish(r) \/ LoadUnpublish(r) \/ LoadPatch(r)
        PROVE  PublicInv'
    <2>1. request[r].pc = "load" /\ request[r].center \in Centers
          /\ Row(r) \in Center /\ Row(r) = center[request[r].center]
      BY <1>2, RowFacts DEF LoadPublish, LoadUnpublish, LoadPatch, Loaded, Row
    <2>2. request[r].op = "patch" => request[r].patch \in Patch
      BY <2>1, TrustAssumption DEF TypeInv, WellFormed
    <2>3. \/ Becomes(r, Idle)
          \/ \E row \in Center :
                 /\ Save(r, row)
                 /\ row.status = "published" => MayBePublic(request[r].center)
      <3>1. CASE LoadPublish(r)
        BY <2>1, <3>1, RowFacts
           DEF LoadPublish, Publishable, ChecklistReady, MayBePublic
      <3>2. CASE LoadUnpublish(r)
        BY <2>1, <3>2, RowFacts DEF LoadUnpublish
      <3>3. CASE LoadPatch(r)
        <4>1. Patched(Row(r), request[r].patch) \in Center
              /\ Patched(Row(r), request[r].patch).status = Row(r).status
          BY <2>1, <2>2, <3>3, PatchedType DEF LoadPatch, Loaded
        <4> QED
          BY <2>1, <3>3, <4>1
             DEF LoadPatch, PublicInv, NeverPublicUnattested, MayBePublic
      <3> QED
        BY <1>2, <3>1, <3>2, <3>3
    <2> QED
      BY <2>1, <2>3, SaveFacts, IdleFacts, BecomesReplaced, ReplacedPublic
         DEF HarmlessSave
  <1>3. ASSUME NEW r \in Requests, SaveTrust(r)
        PROVE  PublicInv'
    <2> DEFINE c == request[r].center
    <2>1. /\ request[r].pc = "save" /\ c \in Centers
          /\ request[r].snap \in Center
          /\ center' = [center EXCEPT ![c] = request[r].snap]
      BY <1>3 DEF SaveTrust, TypeInv, WellFormed
    <2>2. PICK state \in Request :
              /\ request' = [request EXCEPT ![r] = state]
              /\ state.pc = "reread"
      BY <1>3, SavedFacts
    <2>3. request[r].snap.status = "published" => MayBePublic(c)
      BY <2>1 DEF PublicInv, HarmlessSave
    <2>4. NeverPublicUnattested'
      BY <2>1, <2>3
         DEF PublicInv, NeverPublicUnattested, MayBePublic, TypeInv, TypeOK
    <2>5. \A q \in Requests : HarmlessSave(request'[q])
      BY <2>2 DEF PublicInv, HarmlessSave, TypeInv, TypeOK
    <2> QED
      BY <2>4, <2>5 DEF PublicInv, HarmlessSave, MayBePublic
  <1>4. ASSUME NEW r \in Requests, Reread(r)
        PROVE  PublicInv'
    BY <1>4, RereadFacts, ReplacedPublic DEF HarmlessSave
  <1>5. ASSUME NEW r \in Requests, AppendAudit(r)
        PROVE  PublicInv'
    BY <1>5, IdleFacts
       DEF AppendAudit, PublicInv, NeverPublicUnattested, HarmlessSave,
           MayBePublic, TypeInv, TypeOK
  <1>6. ASSUME NEW r \in Requests, QueryFails(r)
        PROVE  PublicInv'
    BY <1>6, IdleFacts, BecomesReplaced, ReplacedPublic DEF QueryFails
  <1>7. CASE UNCHANGED vars
    BY <1>7 DEF vars, PublicInv, NeverPublicUnattested, HarmlessSave,
                MayBePublic
  <1> QED
    BY <1>1, <1>2, <1>3, <1>4, <1>5, <1>6, <1>7 DEF ApiNext, Serve

\* RG-07 for a center that no one attested: whatever overlaps, it stays a
\* draft unless it was seeded as public.
THEOREM UnattestedStaysDraft == Spec => []NeverPublicUnattested
  <1>1. Init => PublicInv
    BY IdleFacts DEF Init, PublicInv, NeverPublicUnattested
  <1>2. TypeInv /\ PublicInv /\ [Next]_vars => PublicInv'
    BY NextIsApi, PublicStep
  <1>3. PublicInv => NeverPublicUnattested
    BY DEF PublicInv
  <1> QED
    BY <1>1, <1>2, <1>3, TypeInvariant, PTL DEF Spec

-----------------------------------------------------------------------------
(* What a request will tell the trail was true of the row it loaded.        *)

TruthfulEvent(q) ==
    q.pc \in {"save", "reread", "audit"} =>
        /\ q.op = "publish" => q.center \in Attested
        /\ q.op = "unpublish" => MayBePublic(q.center)

TrailInv ==
    /\ AuditTellsTruth
    /\ \A r \in Requests : TruthfulEvent(request[r])

LEMMA ReplacedTrail ==
    ASSUME TypeInv, TrailInv, NEW r \in Requests, NEW state,
           TruthfulEvent(state), Replaced(r, state)
    PROVE  TrailInv'
  BY DEF TypeInv, TypeOK, Replaced, TrailInv, AuditTellsTruth, TruthfulEvent,
         MayBePublic

LEMMA TrailStep ==
    ASSUME TypeInv, PublicInv, TrailInv, [ApiNext]_vars
    PROVE  TrailInv'
  <1>0. TruthfulEvent(Idle)
    BY DEF TruthfulEvent, Idle
  <1>1. ASSUME NEW r \in Requests, NEW c \in Centers, Starts(r, c)
        PROVE  TrailInv'
    BY <1>1, StartFacts, ReplacedTrail DEF TruthfulEvent
  <1>2. ASSUME NEW r \in Requests,
               LoadPublish(r) \/ LoadUnpublish(r) \/ LoadPatch(r)
        PROVE  TrailInv'
    <2>1. request[r].pc = "load" /\ request[r].center \in Centers
          /\ Row(r) \in Center /\ Row(r) = center[request[r].center]
      BY <1>2, RowFacts DEF LoadPublish, LoadUnpublish, LoadPatch, Loaded, Row
    <2> DEFINE Truthful == /\ request[r].op = "publish"
                                  => request[r].center \in Attested
                           /\ request[r].op = "unpublish"
                                  => MayBePublic(request[r].center)
    <2>2. \/ Becomes(r, Idle)
          \/ Truthful /\ \E row \in Center : Save(r, row)
      <3>1. CASE LoadPublish(r)
        BY <2>1, <3>1, RowFacts
           DEF LoadPublish, Loaded, Publishable, ChecklistReady
      <3>2. CASE LoadUnpublish(r)
        <4>1. Row(r).status = "published" => MayBePublic(request[r].center)
          BY <2>1 DEF PublicInv, NeverPublicUnattested, MayBePublic
        <4> QED
          BY <2>1, <3>2, <4>1, RowFacts DEF LoadUnpublish, Loaded
      <3>3. CASE LoadPatch(r)
        <4>1. request[r].op = "patch" /\ request[r].patch \in Patch
          BY <2>1, <3>3, TrustAssumption
             DEF LoadPatch, Loaded, TypeInv, WellFormed
        <4> QED
          BY <2>1, <3>3, <4>1, PatchedType DEF LoadPatch
      <3> QED
        BY <1>2, <3>1, <3>2, <3>3
    <2> QED
      BY <1>0, <2>1, <2>2, SaveFacts, BecomesReplaced, ReplacedTrail
         DEF TruthfulEvent
  <1>3. ASSUME NEW r \in Requests, SaveTrust(r)
        PROVE  TrailInv'
    <2>1. PICK state \in Request :
              /\ request' = [request EXCEPT ![r] = state]
              /\ state.op = request[r].op
              /\ state.center = request[r].center
      BY <1>3, SavedFacts
    <2>2. request[r].pc = "save" /\ audit' = audit
      BY <1>3 DEF SaveTrust
    <2>3. TruthfulEvent(state)
      BY <2>1, <2>2 DEF TrailInv, TruthfulEvent
    <2>4. \A q \in Requests : TruthfulEvent(request'[q])
      BY <2>1, <2>3 DEF TrailInv, TypeInv, TypeOK
    <2> QED
      BY <2>2, <2>4 DEF TrailInv, AuditTellsTruth, TruthfulEvent, MayBePublic
  <1>7. ASSUME NEW r \in Requests, Reread(r)
        PROVE  TrailInv'
    <2>1. PICK state \in Request :
              /\ Replaced(r, state) /\ state.op = request[r].op
              /\ state.center = request[r].center
              /\ request[r].pc = "reread"
      BY <1>7, RereadFacts
    <2>2. TruthfulEvent(state)
      BY <2>1 DEF TrailInv, TruthfulEvent
    <2> QED
      BY <2>1, <2>2, ReplacedTrail
  <1>4. ASSUME NEW r \in Requests, AppendAudit(r)
        PROVE  TrailInv'
    <2> DEFINE c == request[r].center
               event == ActionOf(request[r].op)
    <2>1. /\ c \in Centers /\ request[r].op \in Operations
          /\ TruthfulEvent(request[r]) /\ request[r].pc = "audit"
      BY <1>4 DEF AppendAudit, TypeInv, WellFormed, TrailInv
    <2>2. /\ event = "trust.published" => c \in Attested
          /\ event = "trust.unpublished" => MayBePublic(c)
      BY <2>1 DEF TruthfulEvent, ActionOf, Operations
    <2>3. /\ audit' = [audit EXCEPT ![c] = @ \cup {event}]
          /\ request' = [request EXCEPT ![r] = Idle]
      BY <1>4 DEF AppendAudit
    <2>4. \A d \in Centers :
              audit'[d] = IF d = c THEN audit[d] \cup {event} ELSE audit[d]
      BY <2>1, <2>3 DEF TypeInv, TypeOK
    <2>5. AuditTellsTruth'
      BY <2>2, <2>4 DEF TrailInv, AuditTellsTruth, MayBePublic
    <2>6. \A q \in Requests : TruthfulEvent(request'[q])
      BY <1>0, <2>3 DEF TrailInv, TypeInv, TypeOK
    <2> QED
      BY <2>5, <2>6 DEF TrailInv, TruthfulEvent, MayBePublic
  <1>5. ASSUME NEW r \in Requests, QueryFails(r)
        PROVE  TrailInv'
    BY <1>0, <1>5, BecomesReplaced, ReplacedTrail DEF QueryFails
  <1>6. CASE UNCHANGED vars
    BY <1>6 DEF vars, TrailInv, AuditTellsTruth, TruthfulEvent, MayBePublic
  <1> QED
    BY <1>1, <1>2, <1>3, <1>4, <1>5, <1>6, <1>7 DEF ApiNext, Serve

\* RG-15, trust.service.ts:117-160: whatever overlaps or fails, the trail has
\* a publication only of a center that is attested, and a withdrawal only of
\* one that may have been public.
THEOREM TrailIsTruthful == Spec => []AuditTellsTruth
  <1>1. Init => PublicInv /\ TrailInv
    BY IdleFacts DEF Init, PublicInv, NeverPublicUnattested, TrailInv,
                     AuditTellsTruth, TruthfulEvent, Idle
  <1>2. TypeInv /\ PublicInv /\ TrailInv /\ [Next]_vars
            => PublicInv' /\ TrailInv'
    BY NextIsApi, PublicStep, TrailStep
  <1>3. TrailInv => AuditTellsTruth
    BY DEF TrailInv
  <1> QED
    BY <1>1, <1>2, <1>3, TypeInvariant, PTL DEF Spec

-----------------------------------------------------------------------------
(* What a request is about to save is the change it was asked for, of a row *)
(* that the center had since it was received: its save is a step of         *)
(* TrustLifecycle, and every other step leaves the rows alone.              *)

\* The row to save is the operation applied to a row.
Applied(q, row) ==
    \/ /\ q.op = "publish"
       /\ row.status = "draft" /\ row.named /\ q.center \in Attested
       /\ q.snap = [row EXCEPT !.status = "published", !.ack = TRUE]
    \/ /\ q.op = "unpublish"
       /\ row.status = "published"
       /\ q.snap = [row EXCEPT !.status = "draft"]
    \/ /\ q.op = "patch"
       /\ q.snap.status = row.status

SavesSeen(q, rows) == q.pc = "save" => \E row \in rows : Applied(q, row)

SeenInv ==
    \A r \in Requests :
        /\ Pending(request[r]) => center[request[r].center] \in seen[r]
        /\ SavesSeen(request[r], seen[r])

\* A request goes on, or ends, and the rows stay.
LEMMA BecomesSeen ==
    ASSUME TypeInv, SeenInv, NEW r \in Requests, NEW state, Becomes(r, state),
           Pending(state) => /\ Pending(request[r])
                             /\ state.center = request[r].center
                             /\ SavesSeen(state, seen[r])
    PROVE  SeenInv'
  <1>1. /\ request' = [request EXCEPT ![r] = state] /\ center' = center
        /\ seen' = [seen EXCEPT ![r] = IF Pending(state) THEN @ ELSE {}]
    BY DEF Becomes
  <1>2. ASSUME NEW q \in Requests, q # r
        PROVE  request'[q] = request[q] /\ seen'[q] = seen[q]
    BY <1>1, <1>2 DEF TypeInv, TypeOK
  <1>3. /\ request'[r] = state
        /\ Pending(state) => seen'[r] = seen[r]
    BY <1>1 DEF TypeInv, TypeOK
  <1>4. state.pc = "save" => Pending(state)
    BY DEF Pending
  <1>5. ASSUME NEW q \in Requests
        PROVE  /\ Pending(request'[q])
                      => center[request'[q].center] \in seen'[q]
               /\ SavesSeen(request'[q], seen'[q])
    <2>1. CASE q = r
      BY <1>3, <1>4, <2>1 DEF SeenInv, SavesSeen
    <2>2. CASE q # r
      BY <1>2, <2>2 DEF SeenInv
    <2> QED
      BY <2>1, <2>2
  <1> QED
    BY <1>1, <1>5 DEF SeenInv, SavesSeen, Applied, Pending

LEMMA StartsSeen ==
    ASSUME TypeInv, SeenInv, NEW r \in Requests, NEW c \in Centers,
           Starts(r, c)
    PROVE  SeenInv'
  <1>1. PICK state \in Request :
            /\ Replaced(r, state)
            /\ state.pc = "load" /\ state.center = c
            /\ seen' = [seen EXCEPT ![r] = {center[c]}]
    BY StartFacts
  <1>2. /\ request' = [request EXCEPT ![r] = state] /\ center' = center
    BY <1>1 DEF Replaced
  <1>3. ASSUME NEW q \in Requests
        PROVE  /\ Pending(request'[q])
                      => center[request'[q].center] \in seen'[q]
               /\ SavesSeen(request'[q], seen'[q])
    <2>1. CASE q = r
      BY <1>1, <1>2, <2>1 DEF SavesSeen, TypeInv, TypeOK
    <2>2. CASE q # r
      BY <1>1, <1>2, <2>2 DEF SeenInv, TypeInv, TypeOK
    <2> QED
      BY <2>1, <2>2
  <1> QED
    BY <1>2, <1>3 DEF SeenInv, SavesSeen, Applied, Pending

LEMMA LoadSeen ==
    ASSUME TypeInv, SeenInv, NEW r \in Requests,
           LoadPublish(r) \/ LoadUnpublish(r) \/ LoadPatch(r)
    PROVE  SeenInv'
  <1>0. ~Pending(Idle)
    BY DEF Idle, Pending
  <1>1. /\ request[r].pc = "load" /\ request[r].center \in Centers
        /\ Row(r) \in Center /\ Row(r) = center[request[r].center]
    BY RowFacts DEF LoadPublish, LoadUnpublish, LoadPatch, Loaded, Row
  <1>2. Pending(request[r]) /\ Row(r) \in seen[r]
    BY <1>1 DEF Pending, SeenInv
  <1>3. ASSUME LoadPublish(r), ~Becomes(r, Idle)
        PROVE  SeenInv'
    <2> DEFINE row == [Row(r) EXCEPT !.status = "published", !.ack = TRUE]
    <2>1. /\ request[r].op = "publish" /\ Save(r, row) /\ row \in Center
          /\ Row(r).status # "published" /\ Row(r).named
          /\ request[r].center \in Attested
      BY <1>1, <1>3, RowFacts
         DEF LoadPublish, Loaded, Publishable, ChecklistReady, Center
    <2>2. Row(r).status = "draft"
      BY <1>1, <2>1 DEF Center
    <2>3. row = [Row(r) EXCEPT !.status = "published", !.ack = TRUE]
      OBVIOUS
    <2> HIDE DEF row
    <2>4. PICK state \in Request :
              /\ Becomes(r, state) /\ state.snap = row
              /\ state.op = "publish" /\ state.center = request[r].center
      BY <1>1, <2>1, SaveFacts
    <2>5. Applied(state, Row(r))
      BY <1>1, <2>1, <2>2, <2>3, <2>4 DEF Applied
    <2> QED
      BY <1>2, <2>4, <2>5, BecomesSeen DEF SavesSeen
  <1>4. ASSUME LoadUnpublish(r), ~Becomes(r, Idle)
        PROVE  SeenInv'
    <2> DEFINE row == [Row(r) EXCEPT !.status = "draft"]
    <2>1. /\ request[r].op = "unpublish" /\ Save(r, row) /\ row \in Center
          /\ Row(r).status = "published"
      BY <1>1, <1>4, RowFacts DEF LoadUnpublish, Loaded
    <2>2. row = [Row(r) EXCEPT !.status = "draft"]
      OBVIOUS
    <2> HIDE DEF row
    <2>3. PICK state \in Request :
              /\ Becomes(r, state) /\ state.snap = row
              /\ state.op = "unpublish" /\ state.center = request[r].center
      BY <1>1, <2>1, SaveFacts
    <2>4. Applied(state, Row(r))
      BY <1>1, <2>1, <2>2, <2>3 DEF Applied
    <2> QED
      BY <1>2, <2>3, <2>4, BecomesSeen DEF SavesSeen
  <1>5. ASSUME LoadPatch(r)
        PROVE  SeenInv'
    <2> DEFINE row == Patched(Row(r), request[r].patch)
    <2>1. request[r].op = "patch" /\ request[r].patch \in Patch
      BY <1>5, TrustAssumption DEF LoadPatch, Loaded, TypeInv, WellFormed
    <2>2. Save(r, row) /\ row \in Center /\ row.status = Row(r).status
      BY <1>1, <1>5, <2>1, PatchedType DEF LoadPatch
    <2> HIDE DEF row
    <2>3. PICK state \in Request :
              /\ Becomes(r, state) /\ state.snap = row
              /\ state.op = "patch" /\ state.center = request[r].center
      BY <1>1, <2>1, <2>2, SaveFacts
    <2>4. Applied(state, Row(r))
      BY <1>1, <2>2, <2>3 DEF Applied
    <2> QED
      BY <1>2, <2>3, <2>4, BecomesSeen DEF SavesSeen
  <1> QED
    BY <1>0, <1>3, <1>4, <1>5, BecomesSeen

\* The row of one center is replaced by the one its request has prepared.
LEMMA SaveReplaces ==
    ASSUME TypeInv, NEW r \in Requests, SaveTrust(r)
    PROVE  LET c == request[r].center  row == request[r].snap IN
           /\ request[r].pc = "save" /\ c \in Centers
           /\ center[c] \in Center /\ row \in Center
           /\ center' = [center EXCEPT ![c] = row]
           /\ center'[c] = row
           /\ \A d \in Centers \ {c} : center'[d] = center[d]
  BY DEF SaveTrust, TypeInv, TypeOK, WellFormed

LEMMA SaveSeen ==
    ASSUME TypeInv, SeenInv, NEW r \in Requests, SaveTrust(r)
    PROVE  SeenInv'
  <1> DEFINE c == request[r].center
             row == request[r].snap
  <1>1. /\ request[r].pc = "save" /\ center'[c] = row
        /\ \A d \in Centers \ {c} : center'[d] = center[d]
    BY SaveReplaces
  <1>2. PICK state \in Request :
            /\ request' = [request EXCEPT ![r] = state]
            /\ state.pc = "reread"
    BY SavedFacts
  <1>3. \A q \in Requests :
            seen'[q] = IF q = r THEN {}
                       ELSE IF Sees(q, r) THEN seen[q] \cup {row}
                       ELSE seen[q]
    BY DEF SaveTrust
  <1> HIDE DEF row
  <1>4. ASSUME NEW q \in Requests
        PROVE  /\ Pending(request'[q])
                      => center'[request'[q].center] \in seen'[q]
               /\ SavesSeen(request'[q], seen'[q])
    <2>1. CASE q = r
      <3>1. request'[q].pc = "reread"
        BY <1>2, <2>1 DEF TypeInv, TypeOK
      <3> QED
        BY <3>1 DEF Pending, SavesSeen
    <2>2. CASE q # r
      <3>1. request'[q] = request[q]
        BY <1>2, <2>2 DEF TypeInv, TypeOK
      <3>2. seen'[q] = IF Sees(q, r) THEN seen[q] \cup {row} ELSE seen[q]
        BY <1>3, <2>2
      <3>3. SavesSeen(request[q], seen'[q])
        BY <3>2 DEF SeenInv, SavesSeen
      <3>4. ASSUME Pending(request[q])
            PROVE  center'[request[q].center] \in seen'[q]
        <4>1. request[q].center \in Centers
          BY <3>4 DEF Pending, TypeInv, WellFormed
        <4>2. center[request[q].center] \in seen[q]
          BY <3>4 DEF SeenInv
        <4> QED
          BY <1>1, <3>2, <3>4, <4>1, <4>2 DEF Sees
      <3> QED
        BY <3>1, <3>3, <3>4
    <2> QED
      BY <2>1, <2>2
  <1> QED
    BY <1>4 DEF SeenInv, SavesSeen, Applied, Pending

LEMMA SeenStep ==
    ASSUME TypeInv, SeenInv, [ApiNext]_vars
    PROVE  SeenInv'
  <1>0. ~Pending(Idle) /\ Idle.pc # "save"
    BY DEF Idle, Pending
  <1>1. ASSUME NEW r \in Requests, Reread(r)
        PROVE  SeenInv'
    <2>1. PICK state \in Request : Becomes(r, state) /\ state.pc = "audit"
      BY <1>1, RereadFacts
    <2> QED
      BY <2>1, BecomesSeen DEF Pending
  <1>2. ASSUME NEW r \in Requests, AppendAudit(r)
        PROVE  SeenInv'
    <2>1. /\ request' = [request EXCEPT ![r] = Idle]
          /\ UNCHANGED <<center, seen>>
      BY <1>2 DEF AppendAudit
    <2>2. \A q \in Requests :
              request'[q] = IF q = r THEN Idle ELSE request[q]
      BY <2>1 DEF TypeInv, TypeOK
    <2>3. ASSUME NEW q \in Requests
          PROVE  /\ Pending(request'[q])
                      => center[request'[q].center] \in seen[q]
                 /\ SavesSeen(request'[q], seen[q])
      BY <1>0, <2>2 DEF SeenInv, SavesSeen
    <2> QED
      BY <2>1, <2>3 DEF SeenInv, SavesSeen, Applied, Pending
  <1>3. ASSUME NEW r \in Requests, QueryFails(r)
        PROVE  SeenInv'
    BY <1>0, <1>3, BecomesSeen DEF QueryFails
  <1>4. CASE UNCHANGED vars
    BY <1>4 DEF vars, SeenInv, SavesSeen, Applied, Pending
  <1> QED
    BY <1>1, <1>2, <1>3, <1>4, StartsSeen, LoadSeen, SaveSeen
       DEF ApiNext, Serve

\* Only a save changes a row.
LEMMA OnlySavesChange ==
    ASSUME [ApiNext]_vars, ~\E r \in Requests : SaveTrust(r)
    PROVE  UNCHANGED center
  BY DEF ApiNext, Starts, vars, Start, Serve, LoadPublish, LoadUnpublish,
         LoadPatch, Save, Reread, Becomes, AppendAudit, QueryFails

\* The only steps that make a center public.
LEMMA GateOpens ==
    ASSUME TypeInv, SeenInv, [ApiNext]_vars, NEW c \in Centers,
           center[c].status = "draft", center'[c].status = "published"
    PROVE  \E r \in Requests : GatedSave(r, c)
  <1>1. PICK r \in Requests : SaveTrust(r)
    BY OnlySavesChange
  <1> DEFINE q == request[r]
  <1>2. /\ c = q.center /\ q.pc = "save"
        /\ center'[c] = q.snap /\ q.snap.status = "published"
    BY <1>1, SaveReplaces
  <1>3. request'[r].pc # "save"
    BY <1>1, SavedFacts DEF TypeInv, TypeOK
  <1>4. PICK row \in seen[r] : Applied(q, row)
    BY <1>2 DEF SeenInv, SavesSeen
  <1>5. row \in Center
    BY DEF TypeInv, TypeOK
  <1>6. CASE q.op = "publish"
    <2>1. ChecklistReady(c, q.snap)
      BY <1>2, <1>4, <1>5, <1>6 DEF Applied, ChecklistReady, Center
    <2> QED
      BY <1>2, <1>3, <1>6, <2>1 DEF GatedSave
  <1>7. CASE q.op = "patch"
    <2>1. row.status = "published"
      BY <1>2, <1>4, <1>7 DEF Applied
    <2> QED
      BY <1>2, <1>3, <1>7, <2>1 DEF GatedSave
  <1>8. q.op \in {"publish", "patch"}
    BY <1>2, <1>4, <1>5 DEF Applied, Center
  <1> QED
    BY <1>6, <1>7, <1>8

LEMMA SeenInit == Init => SeenInv
  BY DEF Init, SeenInv, SavesSeen, Pending, Idle

\* "Publish gated checklist V1" (trust.service.ts:81-83): however requests
\* overlap and fail, a center becomes public by a publication with the whole
\* checklist satisfied, or by a patch that was received before the center was
\* withdrawn and puts back what it read (run trust_republished).
THEOREM PublicationGated == Spec => GatedPublication
  <1> DEFINE Gated == \A c \in Centers :
                 center[c].status = "draft" /\ center'[c].status = "published"
                 => \E r \in Requests : GatedSave(r, c)
  <1>1. TypeInv /\ SeenInv /\ [Next]_vars => SeenInv'
    BY NextIsApi, SeenStep
  <1>2. TypeInv /\ SeenInv /\ [Next]_vars => [Gated]_vars
    BY NextIsApi, GateOpens
  <1> HIDE DEF Gated
  <1>3. Spec => [][Gated]_vars
    BY <1>1, <1>2, SeenInit, TypeInvariant, PTL DEF Spec
  <1> QED
    BY <1>3 DEF GatedPublication, Gated

-----------------------------------------------------------------------------
(* Every step is one of TrustLifecycle, or leaves the rows and the calls.   *)

\* The call of a request, and what its steps do to it.
CallOf(q, rows) ==
    IF Pending(q) THEN [op |-> q.op, center |-> q.center, seen |-> rows]
    ELSE [op |-> "none"]

Calls == [r \in Requests |-> CallOf(request[r], seen[r])]

LEMMA AskStep ==
    ASSUME TypeInv, NEW r \in Requests, NEW c \in Centers, Starts(r, c)
    PROVE  Lifecycle!Next
  <1>1. PICK state \in Request :
            /\ Replaced(r, state)
            /\ state.pc = "load" /\ state.op \in Operations
            /\ state.center = c /\ request[r].pc = "idle"
            /\ seen' = [seen EXCEPT ![r] = {center[c]}]
    BY StartFacts
  <1>2. /\ request' = [request EXCEPT ![r] = state] /\ center' = center
        /\ request \in [Requests -> Request]
        /\ seen \in [Requests -> SUBSET Center]
    BY <1>1 DEF Replaced, TypeInv, TypeOK
  <1>3. Calls[r] = [op |-> "none"]
    BY <1>1 DEF Calls, CallOf, Pending
  <1>4. ASSUME NEW q \in Requests
        PROVE  CallOf(request'[q], seen'[q])
                   = IF q = r
                     THEN [op |-> state.op, center |-> c, seen |-> {center[c]}]
                     ELSE CallOf(request[q], seen[q])
    BY <1>1, <1>2 DEF CallOf, Pending
  <1>5. Calls' = [Calls EXCEPT ![r] =
                      [op |-> state.op, center |-> c, seen |-> {center[c]}]]
    BY <1>4 DEF Calls, CallOf, Pending
  <1>6. Lifecycle!Ask(r, c, state.op)
    BY <1>2, <1>3, <1>5
       DEF Lifecycle!Ask, Lifecycle!NoCall, Calls, CallOf, Pending
  <1> QED
    BY <1>1, <1>6 DEF Lifecycle!Next, Lifecycle!Operations, Operations

\* A request goes on: nobody sees it.
LEMMA CallStays ==
    ASSUME TypeInv, NEW r \in Requests, NEW state, Becomes(r, state),
           Pending(state) <=> Pending(request[r]),
           Pending(state) => /\ state.op = request[r].op
                             /\ state.center = request[r].center
    PROVE  UNCHANGED Lifecycle!vars
  <1>1. /\ request' = [request EXCEPT ![r] = state] /\ center' = center
        /\ seen' = [seen EXCEPT ![r] = IF Pending(state) THEN @ ELSE {}]
        /\ request \in [Requests -> Request]
        /\ seen \in [Requests -> SUBSET Center]
    BY DEF Becomes, TypeInv, TypeOK
  <1>2. ASSUME NEW q \in Requests
        PROVE  CallOf(request'[q], seen'[q]) = CallOf(request[q], seen[q])
    <2>1. CASE q = r
      BY <1>1, <2>1 DEF CallOf
    <2>2. CASE q # r
      BY <1>1, <2>2
    <2> QED
      BY <2>1, <2>2
  <1>3. Calls' = Calls
    BY <1>2 DEF Calls, CallOf, Pending
  <1> QED
    BY <1>1, <1>3 DEF Lifecycle!vars, Calls, CallOf

\* A request ends before its save.
LEMMA CallRefused ==
    ASSUME TypeInv, NEW r \in Requests, NEW state, Becomes(r, state),
           ~Pending(state)
    PROVE  [Lifecycle!Next]_(Lifecycle!vars)
  <1>1. CASE ~Pending(request[r])
    BY <1>1, CallStays
  <1>2. CASE Pending(request[r])
    <2>1. /\ request' = [request EXCEPT ![r] = state] /\ center' = center
          /\ seen' = [seen EXCEPT ![r] = {}]
          /\ request \in [Requests -> Request]
          /\ seen \in [Requests -> SUBSET Center]
      BY DEF Becomes, TypeInv, TypeOK
    <2>2. /\ Calls[r].op = request[r].op
          /\ request[r].op \in Operations
      BY <1>2 DEF Calls, CallOf, Pending, TypeInv, WellFormed
    <2>3. ASSUME NEW q \in Requests
          PROVE  CallOf(request'[q], seen'[q])
                     = IF q = r THEN [op |-> "none"]
                       ELSE CallOf(request[q], seen[q])
      BY <2>1 DEF CallOf
    <2>4. Calls' = [Calls EXCEPT ![r] = [op |-> "none"]]
      BY <2>3 DEF Calls, CallOf, Pending
    <2>5. Lifecycle!Refused(r)
      BY <2>1, <2>2, <2>4
         DEF Lifecycle!Refused, Lifecycle!NoCall, Lifecycle!Operations,
             Operations, Calls, CallOf
    <2> QED
      BY <2>5 DEF Lifecycle!Next
  <1> QED
    BY <1>1, <1>2

\* What TrustLifecycle says of the calls when one takes effect.
CallsAfter(r, row) ==
    [q \in Requests |->
        IF q = r THEN [op |-> "none"]
        ELSE IF Calls[q].op \in Operations /\ Calls[q].center = Calls[r].center
        THEN [Calls[q] EXCEPT !.seen = @ \cup {row}]
        ELSE Calls[q]]

TakesEffect(r, row) ==
    /\ center' = [center EXCEPT ![Calls[r].center] = row]
    /\ Calls' = CallsAfter(r, row)

\* A save takes effect, in the sight of the others that are pending.
LEMMA SaveEffect ==
    ASSUME TypeInv, NEW r \in Requests, SaveTrust(r)
    PROVE  /\ Calls[r] = [op |-> request[r].op, center |-> request[r].center,
                          seen |-> seen[r]]
           /\ TakesEffect(r, request[r].snap)
  <1> DEFINE c == request[r].center
             row == request[r].snap
  <1>1. /\ request[r].pc = "save"
        /\ center' = [center EXCEPT ![c] = row]
        /\ request \in [Requests -> Request]
        /\ seen \in [Requests -> SUBSET Center]
    BY DEF SaveTrust, TypeInv, TypeOK
  <1>2. Calls[r] = [op |-> request[r].op, center |-> c, seen |-> seen[r]]
    BY <1>1 DEF Calls, CallOf, Pending
  <1>3. PICK state \in Request :
            /\ request' = [request EXCEPT ![r] = state]
            /\ state.pc = "reread"
    BY SavedFacts
  <1>4. \A q \in Requests :
            seen'[q] = IF q = r THEN {}
                       ELSE IF Sees(q, r) THEN seen[q] \cup {row}
                       ELSE seen[q]
    BY DEF SaveTrust
  <1> HIDE DEF row
  <1>5. ASSUME NEW q \in Requests
        PROVE  CallOf(request'[q], seen'[q])
                   = IF q = r THEN [op |-> "none"]
                     ELSE IF Calls[q].op \in Operations /\ Calls[q].center = c
                     THEN [Calls[q] EXCEPT !.seen = @ \cup {row}]
                     ELSE Calls[q]
    <2>1. CASE q = r
      <3>1. request'[q].pc = "reread"
        BY <1>1, <1>3, <2>1
      <3> QED
        BY <2>1, <3>1 DEF CallOf, Pending
    <2>2. CASE q # r
      <3>1. request'[q] = request[q]
        BY <1>1, <1>3, <2>2
      <3>2. seen'[q] = IF Sees(q, r) THEN seen[q] \cup {row} ELSE seen[q]
        BY <1>4, <2>2
      <3>3. CASE Pending(request[q])
        <4>1. /\ Calls[q] = [op |-> request[q].op,
                             center |-> request[q].center, seen |-> seen[q]]
              /\ request[q].op \in Operations
          BY <3>3 DEF Calls, CallOf, Pending, TypeInv, WellFormed
        <4> QED
          BY <2>2, <3>1, <3>2, <3>3, <4>1 DEF CallOf, Sees
      <3>4. CASE ~Pending(request[q])
        <4>1. Calls[q] = [op |-> "none"]
          BY <3>4 DEF Calls, CallOf
        <4> QED
          BY <2>2, <3>1, <3>4, <4>1 DEF CallOf, Operations
      <3> QED
        BY <3>3, <3>4
    <2> QED
      BY <2>1, <2>2
  <1>6. c = Calls[r].center
    BY <1>2
  <1>7. Calls' = [q \in Requests |-> CallOf(request'[q], seen'[q])]
    BY DEF Calls, CallOf, Pending
  <1>8. Calls' = CallsAfter(r, row)
    BY <1>5, <1>6, <1>7 DEF CallsAfter
  <1> QED
    BY <1>1, <1>2, <1>6, <1>8 DEF row, TakesEffect

LEMMA EffectStep ==
    ASSUME TypeInv, SeenInv, NEW r \in Requests, SaveTrust(r)
    PROVE  Lifecycle!Next
  <1> DEFINE q == request[r]
  <1>1. /\ q.pc = "save" /\ q.snap \in Center
        /\ seen[r] \in SUBSET Center
    BY DEF SaveTrust, TypeInv, TypeOK, WellFormed
  <1>2. PICK row \in seen[r] : Applied(q, row)
    BY <1>1 DEF SeenInv, SavesSeen
  <1> DEFINE call == [op |-> q.op, center |-> q.center, seen |-> seen[r]]
  <1>3. /\ Calls[r] = call
        /\ TakesEffect(r, q.snap)
    BY SaveEffect
  <1>4. row \in Center
    BY <1>1
  <1>5. CASE q.op = "publish"
    <2>1. /\ q.center \in Attested /\ row.status = "draft" /\ row.named
          /\ q.snap = [row EXCEPT !.status = "published", !.ack = TRUE]
      BY <1>2, <1>5 DEF Applied
    <2>2. Lifecycle!Publish(r)
      <3>1. /\ Calls[r].op = q.op /\ row \in Calls[r].seen
            /\ Calls[r].center \in Attested
            /\ TakesEffect(
                       r, [row EXCEPT !.status = "published", !.ack = TRUE])
        BY <1>2, <1>3, <2>1 DEF TakesEffect
      <3>2. \E x \in Calls[r].seen :
                /\ x.status = "draft" /\ x.named
                /\ TakesEffect(
                       r, [x EXCEPT !.status = "published", !.ack = TRUE])
        <4> USE <3>1
        <4> WITNESS row \in Calls[r].seen
        <4> QED
          BY <2>1, <3>1
      <3> QED
        BY <1>5, <3>1, <3>2
           DEF Lifecycle!Publish, Lifecycle!TakesEffect, Lifecycle!Concerns,
               Lifecycle!NoCall, Lifecycle!Operations, Operations,
               TakesEffect, CallsAfter, Calls, CallOf, Pending
    <2> QED
      BY <2>2 DEF Lifecycle!Next
  <1>6. CASE q.op = "unpublish"
    <2>1. /\ row.status = "published"
          /\ q.snap = [row EXCEPT !.status = "draft"]
      BY <1>2, <1>6 DEF Applied
    <2>2. Lifecycle!Unpublish(r)
      <3>1. /\ Calls[r].op = q.op /\ row \in Calls[r].seen
            /\ TakesEffect(r, [row EXCEPT !.status = "draft"])
        BY <1>2, <1>3, <2>1 DEF TakesEffect
      <3>2. \E x \in Calls[r].seen :
                /\ x.status = "published"
                /\ TakesEffect(r, [x EXCEPT !.status = "draft"])
        <4> USE <3>1
        <4> WITNESS row \in Calls[r].seen
        <4> QED
          BY <2>1, <3>1
      <3> QED
        BY <1>6, <3>1, <3>2
           DEF Lifecycle!Unpublish, Lifecycle!TakesEffect, Lifecycle!Concerns,
               Lifecycle!NoCall, Lifecycle!Operations, Operations,
               TakesEffect, CallsAfter, Calls, CallOf, Pending
    <2> QED
      BY <2>2 DEF Lifecycle!Next
  <1>7. CASE q.op = "patch"
    <2> DEFINE contents == [named |-> q.snap.named, ack |-> q.snap.ack]
    <2>1. q.snap.status = row.status
      BY <1>2, <1>7 DEF Applied
    <2>2. q.snap = [row EXCEPT !.named = contents.named, !.ack = contents.ack]
      BY <1>1, <1>4, <2>1 DEF Center
    <2>3. contents \in Lifecycle!Contents
      BY <1>1 DEF Center, Lifecycle!Contents
    <2> HIDE DEF contents
    <2>4. Lifecycle!Edit(r, contents)
      <3>1. /\ Calls[r].op = q.op /\ row \in Calls[r].seen
            /\ TakesEffect(
                       r, [row EXCEPT !.named = contents.named,
                                      !.ack = contents.ack])
        BY <1>2, <1>3, <2>2 DEF TakesEffect
      <3>2. \E x \in Calls[r].seen :
                /\ TakesEffect(
                       r, [x EXCEPT !.named = contents.named,
                                    !.ack = contents.ack])
        <4> USE <3>1
        <4> WITNESS row \in Calls[r].seen
        <4> QED
          BY <2>2, <3>1
      <3> QED
        BY <1>7, <3>1, <3>2
           DEF Lifecycle!Edit, Lifecycle!TakesEffect, Lifecycle!Concerns,
               Lifecycle!NoCall, Lifecycle!Operations, Operations,
               TakesEffect, CallsAfter, Calls, CallOf, Pending
    <2> QED
      BY <2>3, <2>4 DEF Lifecycle!Next
  <1> QED
    BY <1>2, <1>5, <1>6, <1>7 DEF Applied

LEMMA LifecycleStep ==
    ASSUME TypeInv, SeenInv, [ApiNext]_vars
    PROVE  [Lifecycle!Next]_(Lifecycle!vars)
  <1>0. ~Pending(Idle)
    BY DEF Idle, Pending
  <1>1. ASSUME NEW r \in Requests,
               LoadPublish(r) \/ LoadUnpublish(r) \/ LoadPatch(r),
               ~Becomes(r, Idle)
        PROVE  UNCHANGED Lifecycle!vars
    <2>1. request[r].pc = "load"
      BY <1>1 DEF LoadPublish, LoadUnpublish, LoadPatch, Loaded
    <2>2. request[r].op = "patch" => request[r].patch \in Patch
      BY <2>1, TrustAssumption DEF TypeInv, WellFormed
    <2>3. \E row \in Center : Save(r, row)
      BY <1>1, <2>1, <2>2, RowFacts, PatchedType
         DEF LoadPublish, LoadUnpublish, LoadPatch, Loaded
    <2>4. PICK state \in Request :
              /\ Becomes(r, state) /\ state.pc = "save"
              /\ state.op = request[r].op /\ state.center = request[r].center
      BY <2>1, <2>3, SaveFacts
    <2> QED
      BY <2>1, <2>4, CallStays DEF Pending
  <1>2. ASSUME NEW r \in Requests, Reread(r)
        PROVE  UNCHANGED Lifecycle!vars
    <2>1. PICK state \in Request :
              /\ Becomes(r, state) /\ state.pc = "audit"
              /\ request[r].pc = "reread"
      BY <1>2, RereadFacts
    <2> QED
      BY <2>1, CallStays DEF Pending
  <1>3. ASSUME NEW r \in Requests, AppendAudit(r)
        PROVE  UNCHANGED Lifecycle!vars
    <2>1. /\ request' = [request EXCEPT ![r] = Idle] /\ request[r].pc = "audit"
          /\ UNCHANGED <<center, seen>>
      BY <1>3 DEF AppendAudit
    <2>2. \A q \in Requests :
              CallOf(request'[q], seen'[q]) = CallOf(request[q], seen[q])
      BY <1>0, <2>1 DEF CallOf, Pending, TypeInv, TypeOK
    <2>3. Calls' = Calls
      BY <2>2 DEF Calls, CallOf, Pending
    <2> QED
      BY <2>1, <2>3 DEF Lifecycle!vars, Calls, CallOf
  <1>4. ASSUME NEW r \in Requests, QueryFails(r) \/ Becomes(r, Idle)
        PROVE  [Lifecycle!Next]_(Lifecycle!vars)
    BY <1>0, <1>4, CallRefused DEF QueryFails
  <1>5. CASE UNCHANGED vars
    BY <1>5 DEF vars, Lifecycle!vars, Pending
  <1> QED
    BY <1>1, <1>2, <1>3, <1>4, <1>5, AskStep, EffectStep DEF ApiNext, Serve

LEMMA LifecycleInit == Init => Lifecycle!Init
  <1> SUFFICES ASSUME Init PROVE Lifecycle!Init
    OBVIOUS
  <1>1. center \in [Centers -> Lifecycle!Center]
    BY TrustAssumption DEF Init, Lifecycle!Center, Center
  <1>2. \A r \in Requests : ~Pending(request[r])
    BY DEF Init, Idle, Pending
  <1> QED
    BY <1>1, <1>2 DEF Lifecycle!Init, Lifecycle!NoCall

\* trust.service.ts:83 ("Jamais auto"): for any requests that overlap, patch,
\* and fail, the API implements TrustLifecycle: every operation takes effect
\* once, on a row that the center had since the request was received.
THEOREM LifecycleImplemented == Spec => LifecycleSpec
  <1>1. TypeInv /\ SeenInv /\ [Next]_vars
            => SeenInv' /\ [Lifecycle!Next]_(Lifecycle!vars)
    BY NextIsApi, SeenStep, LifecycleStep
  <1> QED
    BY <1>1, SeenInit, LifecycleInit, TypeInvariant, PTL
       DEF Spec, LifecycleSpec, Lifecycle!Spec

-----------------------------------------------------------------------------
(* The editor, beside other clients of the same API.                        *)

EditorTypes == page \in Pages /\ doubt \in BOOLEAN /\ stale \in BOOLEAN

\* The request of the page, if it has one, has not saved.
Unsaved == page.sent = Null \/ Pending(request[page.sent])

\* The request of the page works on its center, and is about to be answered
\* with the row as it is stored, unless that row is stale; until its save,
\* the page shows the row as it is stored, unless it is in doubt.
TruthInv ==
    /\ page.sent # Null =>
           /\ page.op \notin {"load", Null}
           /\ request[page.sent].pc # "idle"
           /\ request[page.sent].center = Edited
           /\ request[page.sent].pc = "audit" /\ ~stale
                  => request[page.sent].snap = center[Edited]
    /\ Shown /\ ~doubt /\ Unsaved => page.trust = center[Edited]

EditorInv == TypeInv /\ SeenInv /\ EditorTypes /\ TruthInv

\* What the page does with the API is what any client may do.
LEMMA PageCalls ==
    ASSUME EditorTypes, [EditorNext]_editorVars
    PROVE  [ApiNext]_vars
  <1>1. ASSUME NEW r \in Requests,
               SaveDraftFields(r) \/ ConfirmPublish(r)
               \/ PublishConfirmed(r) \/ OnUnpublish(r)
        PROVE  ApiNext
    <2> DEFINE saved == [named |-> page.named, ack |-> page.ack]
               confirmed == [named |-> page.named, ack |-> TRUE]
    <2>1. saved \in Patch /\ confirmed \in Patch
      BY DEF EditorTypes, Pages, Patch
    <2>2. \/ Start(r, Edited, "patch", saved)
          \/ Start(r, Edited, "patch", confirmed)
          \/ Start(r, Edited, "publish", Null)
          \/ Start(r, Edited, "unpublish", Null)
      BY <1>1 DEF SaveDraftFields, ConfirmPublish, PublishConfirmed,
                  OnUnpublish, Sends
    <2> HIDE DEF saved, confirmed
    <2>3. Starts(r, Edited)
      BY <2>1, <2>2 DEF Starts, Operations
    <2> QED
      BY <2>3, EditorAssumption DEF ApiNext
  <1>2. ASSUME NEW r \in Requests, Served(r) \/ Fails(r) \/ OtherClient(r)
        PROVE  ApiNext
    BY <1>2, ReceiveStarts DEF Served, Fails, OtherClient, ApiNext
  <1>3. ASSUME Reload \/ EditForm \/ OpenModal \/ CloseModal \/ Loads
        PROVE  UNCHANGED vars
    BY <1>3 DEF Reload, EditForm, OpenModal, CloseModal, Loads, Turns
  <1>4. CASE UNCHANGED editorVars
    BY <1>4 DEF editorVars
  <1> QED
    BY <1>1, <1>2, <1>3, <1>4 DEF EditorNext

LEMMA EditorTypesStep ==
    ASSUME TypeInv, EditorTypes, [EditorNext]_editorVars
    PROVE  EditorTypes'
  <1>0. /\ page \in Pages /\ doubt \in BOOLEAN /\ stale \in BOOLEAN
        /\ center[Edited] \in Center
        /\ center[Edited].named \in BOOLEAN /\ center[Edited].ack \in BOOLEAN
    BY EditorAssumption DEF EditorTypes, TypeInv, TypeOK, Center
  <1>1. ASSUME Reload \/ EditForm \/ OpenModal \/ CloseModal
        PROVE  EditorTypes'
    <2>1. page' \in Pages /\ UNCHANGED <<doubt, stale>>
      <3>1. CASE Reload
        BY <3>1 DEF Reload, Turns, Fresh, Pages, Sending
      <3>2. CASE EditForm
        <4>1. (~page.named) \in BOOLEAN /\ (~page.ack) \in BOOLEAN
          OBVIOUS
        <4>2. \A b \in BOOLEAN : /\ [page EXCEPT !.named = b] \in Pages
                                /\ [page EXCEPT !.ack = b] \in Pages
          BY <1>0 DEF Pages
        <4> QED
          BY <3>2, <4>1, <4>2 DEF EditForm, Turns
      <3>3. CASE OpenModal \/ CloseModal
        BY <1>0, <3>3 DEF OpenModal, CloseModal, Turns, Pages
      <3> QED
        BY <1>1, <3>1, <3>2, <3>3
    <2> QED
      BY <1>0, <2>1 DEF EditorTypes
  <1>2. CASE Loads
    BY <1>0, <1>2 DEF Loads, EditorTypes, Pages, Sending
  <1>3. ASSUME NEW r \in Requests,
               SaveDraftFields(r) \/ ConfirmPublish(r)
               \/ PublishConfirmed(r) \/ OnUnpublish(r)
        PROVE  EditorTypes'
    BY <1>0, <1>3 DEF SaveDraftFields, ConfirmPublish, PublishConfirmed,
                      OnUnpublish, Sends, EditorTypes, Pages, Sending
  <1>4. AfterFailure \in Pages
    BY <1>0 DEF AfterFailure, Pages, Sending
  <1>5. ASSUME NEW row \in Center
        PROVE  AfterSuccess(row) \in Pages
    BY <1>0, <1>4 DEF AfterSuccess, Pages, Sending
  <1>6. ASSUME NEW r \in Requests, Served(r) \/ Fails(r) \/ OtherClient(r)
        PROVE  EditorTypes'
    <2>1. request[r].pc = "audit" => request[r].snap \in Center
      BY DEF TypeInv, WellFormed
    <2>2. page' \in Pages
      BY <1>0, <1>4, <1>5, <1>6, <2>1 DEF Served, Fails, OtherClient
    <2>3. doubt' \in BOOLEAN /\ stale' \in BOOLEAN
      BY <1>0, <1>6 DEF Served, Fails, OtherClient
    <2> QED
      BY <2>2, <2>3 DEF EditorTypes
  <1>7. CASE UNCHANGED editorVars
    BY <1>0, <1>7 DEF editorVars, EditorTypes
  <1> QED
    BY <1>1, <1>2, <1>3, <1>6, <1>7 DEF EditorNext

\* The user turns the page, and nothing is sent.
LEMMA TurnsTruth ==
    ASSUME EditorTypes, TruthInv,
           Reload \/ EditForm \/ OpenModal \/ CloseModal \/ Loads
    PROVE  TruthInv'
  <1>0. page \in Pages /\ UNCHANGED <<center, request>>
    BY DEF EditorTypes, Reload, EditForm, OpenModal, CloseModal, Loads, Turns,
           vars
  <1>1. CASE Reload
    BY <1>1 DEF Reload, Turns, Fresh, TruthInv, Shown
  <1>2. CASE EditForm \/ OpenModal \/ CloseModal
    <2>1. /\ page'.op = page.op /\ page'.sent = page.sent
          /\ page'.trust = page.trust
          /\ UNCHANGED <<doubt, stale>>
      BY <1>0, <1>2 DEF EditForm, OpenModal, CloseModal, Turns, Pages
    <2> QED
      BY <1>0, <2>1 DEF TruthInv, Shown, Unsaved, Pending
  <1>3. CASE Loads
    <2>1. page.sent = Null /\ page'.sent = page.sent
      BY <1>0, <1>3 DEF Loads, TruthInv, Pages
    <2>2. doubt' = TRUE \/ page'.trust = center[Edited]
      BY <1>0, <1>3 DEF Loads, Pages
    <2> QED
      BY <1>0, <2>1, <2>2 DEF TruthInv
  <1> QED
    BY <1>1, <1>2, <1>3

\* A request starts, of the page or of another client.
LEMMA StartsTruth ==
    ASSUME TypeInv, EditorTypes, TruthInv,
           NEW r \in Requests, NEW c \in Centers, Starts(r, c),
           \/ UNCHANGED page
           \/ /\ c = Edited /\ page.sent = Null /\ page'.sent = r
              /\ page'.op \notin {"load", Null} /\ page'.trust = page.trust,
           UNCHANGED <<doubt, stale>>
    PROVE  TruthInv'
  <1>1. PICK state \in Request :
            /\ request' = [request EXCEPT ![r] = state]
            /\ state.pc = "load" /\ state.center = c
            /\ request[r].pc = "idle"
            /\ UNCHANGED center
    BY StartFacts DEF Replaced
  <1>2. request'[r] = state /\ r # Null
    BY <1>1, EditorAssumption DEF TypeInv, TypeOK
  <1>3. CASE UNCHANGED page
    <2>1. page.sent # Null => /\ page.sent # r
                              /\ request'[page.sent] = request[page.sent]
      BY <1>1 DEF TruthInv, EditorTypes, Pages, TypeInv, TypeOK
    <2> QED
      BY <1>1, <1>3, <2>1 DEF TruthInv, Shown, Unsaved, Pending
  <1>4. CASE page.sent = Null /\ page'.sent = r
    <2>1. c = Edited /\ page'.op \notin {"load", Null}
          /\ page'.trust = page.trust
      BY <1>2, <1>4
    <2>2. Shown /\ ~doubt => page.trust = center[Edited]
      BY <1>4 DEF TruthInv, Unsaved
    <2> QED
      BY <1>1, <1>2, <1>4, <2>1, <2>2 DEF TruthInv, Shown
  <1> QED
    BY <1>3, <1>4

LEMMA CallsTruth ==
    ASSUME TypeInv, EditorTypes, TruthInv, NEW r \in Requests,
           SaveDraftFields(r) \/ ConfirmPublish(r) \/ PublishConfirmed(r)
           \/ OnUnpublish(r)
    PROVE  TruthInv'
  <1> DEFINE saved == [named |-> page.named, ack |-> page.ack]
             confirmed == [named |-> page.named, ack |-> TRUE]
  <1>0. page \in Pages /\ saved \in Patch /\ confirmed \in Patch
    BY DEF EditorTypes, Pages, Patch
  <1>1. \/ Start(r, Edited, "patch", saved)
        \/ Start(r, Edited, "patch", confirmed)
        \/ Start(r, Edited, "publish", Null)
        \/ Start(r, Edited, "unpublish", Null)
    BY DEF SaveDraftFields, ConfirmPublish, PublishConfirmed, OnUnpublish,
           Sends
  <1> HIDE DEF saved, confirmed
  <1>2. Starts(r, Edited)
    BY <1>0, <1>1 DEF Starts, Operations
  <1>3. UNCHANGED <<doubt, stale>>
    BY DEF SaveDraftFields, ConfirmPublish, PublishConfirmed, OnUnpublish,
           Sends
  <1>4. page.sent = Null /\ page'.sent = r /\ page'.trust = page.trust
        /\ page'.op \notin {"load", Null}
    <2>1. CASE PublishConfirmed(r)
      BY <1>0, <2>1, EditorAssumption
         DEF PublishConfirmed, Sends, Pages, Sending
    <2>2. CASE SaveDraftFields(r) \/ ConfirmPublish(r) \/ OnUnpublish(r)
      <3>1. Resting
        BY <2>2 DEF SaveDraftFields, ConfirmPublish, OnUnpublish
      <3>2. page.sent = Null
        BY <3>1 DEF Resting, TruthInv
      <3> QED
        BY <1>0, <2>2, <3>2, EditorAssumption
           DEF SaveDraftFields, ConfirmPublish, OnUnpublish, Sends, Pages,
               Sending
    <2> QED
      BY <2>1, <2>2
  <1> QED
    BY <1>2, <1>3, <1>4, EditorAssumption, StartsTruth

\* A step of a request of another client.
LEMMA OthersTruth ==
    ASSUME TypeInv, EditorTypes, TruthInv, NEW r \in Requests,
           Serve(r) \/ QueryFails(r), page.sent # r,
           UNCHANGED page,
           doubt \/ center'[Edited] # center[Edited] => doubt',
           stale \/ center'[Edited] # center[Edited] => stale'
    PROVE  TruthInv'
  <1>1. \A q \in Requests \ {r} : request'[q] = request[q]
    BY DEF Serve, LoadPublish, LoadUnpublish, LoadPatch, Save, Becomes,
           SaveTrust, Reread, AppendAudit, QueryFails, TypeInv, TypeOK
  <1>2. page.sent # Null => request'[page.sent] = request[page.sent]
    BY <1>1 DEF EditorTypes, Pages
  <1> QED
    BY <1>2 DEF TruthInv, Shown, Unsaved, Pending

\* A refusal, or a failure, is answered: the page keeps what it shows.
LEMMA RefusedTruth ==
    ASSUME EditorTypes, page' = AfterFailure, UNCHANGED center,
           doubt' \/ (Shown /\ ~doubt => page.trust = center[Edited]),
           doubt => doubt'
    PROVE  TruthInv'
  <1>1. page'.sent = Null /\ page'.trust = page.trust
    BY DEF EditorTypes, AfterFailure, Pages
  <1> QED
    BY <1>1 DEF TruthInv, Shown

\* The answer with the audit event carries the row that was read again.
LEMMA AnsweredTruth ==
    ASSUME EditorTypes, NEW row, page' = AfterSuccess(row), UNCHANGED center,
           doubt' = (stale \/ page.op = "confirm"),
           ~stale => row = center[Edited]
    PROVE  TruthInv'
  <1>0. page \in Pages
    BY DEF EditorTypes
  <1>1. page'.sent = Null
    BY <1>0 DEF AfterSuccess, AfterFailure, Pages
  <1>2. CASE page.op = "confirm"
    BY <1>1, <1>2 DEF TruthInv
  <1>3. CASE page.op # "confirm"
    <2>1. page'.trust = row
      BY <1>0, <1>3 DEF AfterSuccess, AfterFailure, Pages
    <2> QED
      BY <1>1, <2>1 DEF TruthInv
  <1> QED
    BY <1>2, <1>3

\* A step of the request of the page.
LEMMA OwnTruth ==
    ASSUME TypeInv, EditorTypes, TruthInv, NEW r \in Requests, Served(r),
           page.sent = r
    PROVE  TruthInv'
  <1>0. /\ page \in Pages /\ doubt \in BOOLEAN /\ stale \in BOOLEAN
        /\ request \in [Requests -> Request] /\ r # Null
        /\ request[r].center = Edited /\ page.op \notin {"load", Null}
    BY EditorAssumption DEF EditorTypes, TypeInv, TypeOK, TruthInv
  <1>1. ASSUME LoadPublish(r) \/ LoadUnpublish(r) \/ LoadPatch(r)
        PROVE  TruthInv'
    <2>1. request[r].pc = "load" /\ UNCHANGED center
      BY <1>1 DEF LoadPublish, LoadUnpublish, LoadPatch, Loaded, Save,
                  Becomes
    <2>2. Shown /\ ~doubt => page.trust = center[Edited]
      BY <2>1 DEF TruthInv, Unsaved, Pending
    <2>3. CASE request'[r].pc = "idle"
      <3>1. page' = AfterFailure /\ doubt' = doubt
        BY <1>0, <2>1, <2>3 DEF Served
      <3> QED
        BY <2>1, <2>2, <3>1, RefusedTruth
    <2>4. CASE request'[r].pc # "idle"
      <3>1. page' = page /\ doubt' = doubt
        BY <1>0, <2>4 DEF Served
      <3>2. ~Becomes(r, Idle)
        BY <1>0, <2>4 DEF Becomes, Idle
      <3>3. \E row \in Center : Save(r, row)
        <4>1. request[r].op = "patch" => request[r].patch \in Patch
          BY <2>1, TrustAssumption DEF TypeInv, WellFormed
        <4> QED
          BY <1>1, <2>1, <3>2, <4>1, RowFacts, PatchedType
             DEF LoadPublish, LoadUnpublish, LoadPatch, Loaded
      <3>4. PICK state \in Request :
                /\ Replaced(r, state) /\ state.pc = "save"
                /\ state.center = request[r].center
        BY <2>1, <3>3, SaveFacts
      <3>5. request'[r] = state
        BY <1>0, <3>4 DEF Replaced
      <3> QED
        BY <1>0, <2>1, <2>2, <3>1, <3>4, <3>5 DEF TruthInv, Shown
    <2> QED
      BY <2>3, <2>4
  <1>2. ASSUME SaveTrust(r)
        PROVE  TruthInv'
    <2>1. PICK state \in Request :
              /\ request' = [request EXCEPT ![r] = state]
              /\ state.pc = "reread" /\ state.center = request[r].center
      BY <1>2, SavedFacts
    <2>2. request'[r] = state
      BY <1>0, <2>1
    <2>3. page' = page
      BY <2>1, <2>2 DEF Served
    <2> QED
      BY <1>0, <2>1, <2>2, <2>3 DEF TruthInv, Unsaved, Pending
  <1>3. ASSUME Reread(r)
        PROVE  TruthInv'
    <2>1. PICK state \in Request :
              /\ Replaced(r, state) /\ state.pc = "audit"
              /\ state.center = request[r].center
              /\ state.snap = center[state.center]
      BY <1>3, RereadFacts
    <2>2. request'[r] = state /\ UNCHANGED center
      BY <1>0, <2>1 DEF Replaced
    <2>3. page' = page
      BY <2>1, <2>2 DEF Served
    <2> QED
      BY <1>0, <2>1, <2>2, <2>3 DEF TruthInv, Unsaved, Pending
  <1>4. ASSUME AppendAudit(r)
        PROVE  TruthInv'
    <2>1. /\ request[r].pc = "audit" /\ request'[r].pc = "idle"
          /\ UNCHANGED center
      BY <1>0, <1>4 DEF AppendAudit, Idle
    <2>2. ~stale => request[r].snap = center[Edited]
      BY <1>0, <2>1 DEF TruthInv
    <2>3. /\ page' = AfterSuccess(request[r].snap)
          /\ doubt' = (stale \/ page.op = "confirm")
      BY <2>1 DEF Served
    <2> QED
      BY <2>1, <2>2, <2>3, AnsweredTruth
  <1> QED
    BY <1>1, <1>2, <1>3, <1>4 DEF Served, Serve

LEMMA TruthStep ==
    ASSUME TypeInv, EditorTypes, TruthInv, [EditorNext]_editorVars
    PROVE  TruthInv'
  <1>0. doubt \in BOOLEAN /\ stale \in BOOLEAN /\ page \in Pages
    BY DEF EditorTypes
  <1>1. ASSUME NEW r \in Requests, Served(r), page.sent # r
        PROVE  TruthInv'
    <2>1. /\ Serve(r) /\ UNCHANGED page
          /\ doubt' = (doubt \/ center'[Edited] # center[Edited])
          /\ stale' = (stale \/ center'[Edited] # center[Edited])
      BY <1>1 DEF Served
    <2> QED
      BY <1>0, <1>1, <2>1, OthersTruth
  <1>2. ASSUME NEW r \in Requests, Fails(r)
        PROVE  TruthInv'
    <2>1. QueryFails(r) /\ UNCHANGED <<center, stale>>
      BY <1>2 DEF Fails, QueryFails, Becomes
    <2>2. CASE page.sent = r
      BY <1>0, <1>2, <2>1, <2>2, RefusedTruth DEF Fails
    <2>3. CASE page.sent # r
      BY <1>0, <1>2, <2>1, <2>3, OthersTruth DEF Fails
    <2> QED
      BY <2>2, <2>3
  <1>3. ASSUME NEW r \in Requests, OtherClient(r)
        PROVE  TruthInv'
    BY <1>3, ReceiveStarts, StartsTruth DEF OtherClient
  <1>4. CASE UNCHANGED editorVars
    BY <1>4 DEF editorVars, vars, TruthInv, Shown, Unsaved, Pending
  <1> QED
    BY <1>1, <1>2, <1>3, <1>4, OwnTruth, TurnsTruth, CallsTruth
       DEF EditorNext

LEMMA EditorInvariant == EditorSpec => []EditorInv
  <1>1. Init => TypeInv
    BY IdleFacts, TrustAssumption DEF Init, TypeInv, TypeOK
  <1>2. EditorInit => EditorInv
    <2> SUFFICES ASSUME EditorInit PROVE EditorInv
      OBVIOUS
    <2>1. page = Fresh /\ doubt = TRUE /\ stale = FALSE
      BY DEF EditorInit
    <2>2. Fresh \in Pages /\ Fresh.sent = Null
      BY DEF Fresh, Pages, Sending
    <2>3. EditorTypes /\ TruthInv
      BY <2>1, <2>2 DEF EditorTypes, TruthInv
    <2> QED
      BY <1>1, <2>3, SeenInit DEF EditorInit, EditorInv
  <1>3. EditorInv /\ [EditorNext]_editorVars => EditorInv'
    BY PageCalls, TypeStep, SeenStep, EditorTypesStep, TruthStep
       DEF EditorInv
  <1> QED
    BY <1>2, <1>3, PTL DEF EditorSpec

\* trust-editor-panel.tsx:75-125: for any number of centers, of requests and
\* of other clients, that overlap and fail: when the page rests, it shows the
\* row as it is stored, unless another client has changed it since it was
\* read, or a request of the page failed half-way.
THEOREM EditorTruthful == EditorSpec => []EditorTellsTruth
  <1>1. EditorInv => EditorTellsTruth
    BY DEF EditorInv, TruthInv, Unsaved, EditorTellsTruth, Resting
  <1> QED
    BY <1>1, EditorInvariant, PTL

\* trust-editor-panel.tsx:100-125: with the chain of two requests of the page,
\* beside other clients whose requests overlap it, the rows still implement
\* TrustLifecycle.
THEOREM EditorLifecycle == EditorSpec => LifecycleSpec
  <1>1. EditorInv /\ [EditorNext]_editorVars
            => [Lifecycle!Next]_(Lifecycle!vars)
    BY PageCalls, LifecycleStep DEF EditorInv
  <1>2. EditorInit => Lifecycle!Init
    BY LifecycleInit DEF EditorInit
  <1> QED
    BY <1>1, <1>2, EditorInvariant, PTL
       DEF EditorSpec, LifecycleSpec, Lifecycle!Spec

\* "Publish gated checklist V1" (trust.service.ts:81-83), with the page and
\* the patches that it sends, beside other clients.
THEOREM EditorGated == EditorSpec => GatedPublication
  <1> DEFINE Gated == \A c \in Centers :
                 center[c].status = "draft" /\ center'[c].status = "published"
                 => \E r \in Requests : GatedSave(r, c)
  <1>1. EditorInv /\ [EditorNext]_editorVars => [Gated]_vars
    BY PageCalls, GateOpens DEF EditorInv
  <1> HIDE DEF Gated
  <1>2. EditorSpec => [][Gated]_vars
    BY <1>1, EditorInvariant, PTL DEF EditorSpec
  <1> QED
    BY <1>2 DEF GatedPublication, Gated
=============================================================================
