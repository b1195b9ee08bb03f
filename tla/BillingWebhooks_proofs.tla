----------------------- MODULE BillingWebhooks_proofs -----------------------
(***************************************************************************)
(* For any number of events, handlers, checkouts, organisations and        *)
(* failures: the type invariant, the ledger of claims, the effect of each  *)
(* event at most once, the audit trail behind what is written, and         *)
(* activity only where something was paid.                                 *)
(***************************************************************************)
EXTENDS BillingWebhooks, TLAPS

\* What mapStripeSubscriptionStatus and the event handlers can write.
LEMMA StatusOfType ==
    ASSUME NEW d \in EventData
    PROVE  StatusOf(d) \in Statuses
  BY DEF EventData, StatusOf, mapStripeSubscriptionStatus, Statuses,
         EventTypes, StripeStatuses

LEMMA ResolveType ==
    ASSUME NEW d \in EventData
    PROVE  ResolveOrgId(d) \in OrgIds \cup {Null}
  <1>1. FindOrgByCustomer(d.customer) \subseteq OrgIds
    BY BillingAssumption DEF FindOrgByCustomer
  <1>2. FindOrgByCustomer(d.customer) # {} =>
            (CHOOSE o \in FindOrgByCustomer(d.customer) : TRUE) \in OrgIds
    BY <1>1
  <1>3. d.org \in OrgIds \cup {Null}
    BY DEF EventData
  <1> QED
    BY <1>2, <1>3 DEF ResolveOrgId

LEMMA UpsertType ==
    ASSUME billing \in [Rows -> BillingRow], NEW o,
           NEW row, o \in Rows => row \in BillingRow, UpsertBilling(o, row)
    PROVE  billing' \in [Rows -> BillingRow]
  BY DEF UpsertBilling

\* One case per action: every step keeps the types.
LEMMA TypeStep ==
    ASSUME TypeOK, [Next]_vars
    PROVE  TypeOK'
  <1> USE BillingAssumption DEF TypeOK, HandlerState, CheckoutState,
                                  HandlerPcs, CheckoutPcs
  <1>1. ASSUME NEW h \in Handlers, NEW e \in Events, Deliver(h, e)
        PROVE  TypeOK'
    <2> DEFINE next == [handler[h] EXCEPT !.pc = "claim", !.event = e]
    <2>1. handler[h] \in HandlerState
      OBVIOUS
    <2>2. next \in HandlerState /\ next.pc = "claim" /\ next.event = e
      BY <2>1
    <2>3. handler' = [handler EXCEPT ![h] = next]
      BY <1>1 DEF Deliver
    <2> HIDE DEF next
    <2> QED
      BY <1>1, <2>2, <2>3 DEF Deliver
  <1>2. ASSUME NEW h \in Handlers, ClaimNew(h)
        PROVE  TypeOK'
    <2> DEFINE next == [handler[h] EXCEPT !.pc = "resolve"]
    <2>1. handler[h] \in HandlerState /\ handler[h].event \in Events
      BY <1>2 DEF ClaimNew
    <2>2. next \in HandlerState /\ next.pc = "resolve"
          /\ next.event \in Events
      BY <2>1
    <2>3. /\ handler' = [handler EXCEPT ![h] = next]
          /\ claimed' = claimed \cup {handler[h].event}
          /\ UNCHANGED <<billing, audited, checkout, acked, applied,
                         handled, lost, failures>>
      BY <1>2 DEF ClaimNew
    <2> HIDE DEF next
    <2> QED
      BY <2>1, <2>2, <2>3
  <1>3. ASSUME NEW h \in Handlers, ClaimDuplicate(h)
        PROVE  TypeOK'
    BY <1>3 DEF ClaimDuplicate, IdleHandler
  <1>4. ASSUME NEW h \in Handlers, Drop(h)
        PROVE  TypeOK'
    BY <1>4 DEF Drop, Finish, IdleHandler
  <1>5. ASSUME NEW h \in Handlers, Resolve(h)
        PROVE  TypeOK'
    <2>1. Data[handler[h].event] \in EventData
      BY <1>5 DEF Resolve
    <2> DEFINE org == ResolveOrgId(Data[handler[h].event])
    <2>2. org \in OrgIds
      BY <1>5, <2>1, ResolveType DEF Resolve
    <2> HIDE DEF org
    <2> DEFINE next == [handler[h] EXCEPT !.pc = "read", !.org = org]
    <2>3. next \in HandlerState /\ next.pc = "read" /\ next.org \in OrgIds
          /\ next.event \in Events
      BY <1>5, <2>2 DEF Resolve
    <2>4. handler' = [handler EXCEPT ![h] = next]
      BY <1>5 DEF Resolve, org
    <2>5. UNCHANGED <<billing, claimed, audited, checkout, acked, applied,
                      handled, lost, failures>>
      BY <1>5 DEF Resolve
    <2> HIDE DEF next
    <2> QED
      BY <2>3, <2>4, <2>5
  <1>6. ASSUME NEW h \in Handlers, ReadBefore(h)
        PROVE  TypeOK'
    <2>1. CurrentStatus(handler[h].org) \in Statuses \cup {Null}
      BY DEF CurrentStatus, BillingRow
    <2> DEFINE before == CurrentStatus(handler[h].org)
               next == [handler[h] EXCEPT !.pc = "write", !.before = before]
    <2>a. before \in Statuses \cup {Null}
      BY <2>1
    <2>b. handler' = [handler EXCEPT ![h] = next]
      BY <1>6 DEF ReadBefore
    <2>c. /\ handler[h] \in HandlerState
          /\ handler[h].org \in OrgIds
          /\ handler[h].event \in Events
      BY <1>6 DEF ReadBefore
    <2> HIDE DEF before
    <2>2. next \in HandlerState /\ next.pc = "write" /\ next.org \in OrgIds
          /\ next.event \in Events
      BY <2>a, <2>c
    <2>3. handler' = [handler EXCEPT ![h] = next]
      BY <2>b
    <2> HIDE DEF next, before
    <2> QED
      BY <1>6, <2>2, <2>3 DEF ReadBefore
  <1>7. ASSUME NEW h \in Handlers, ApplyStatus(h)
        PROVE  TypeOK'
    <2> DEFINE d == Data[handler[h].event]
    <2>1. d \in EventData /\ handler[h].event \in Events
      BY <1>7 DEF ApplyStatus
    <2>2. StatusOf(d) \in Statuses
      BY <2>1, StatusOfType
    <2>3. SubscriptionOf(d) \in Subscriptions \cup {Null}
          /\ d.customer \in Customers \cup {Null}
      BY <2>1 DEF SubscriptionOf, EventData
    <2>4. billing' \in [Rows -> BillingRow]
      <3>1. [status |-> StatusOf(d), customer |-> d.customer,
             subscription |-> SubscriptionOf(d)] \in BillingRow
        BY <2>2, <2>3 DEF BillingRow
      <3> QED
        BY <1>7, <3>1, UpsertType DEF ApplyStatus
    <2>5. applied' \in [Events -> Nat]
      BY <1>7, <2>1 DEF ApplyStatus
    <2> QED
      BY <1>7, <2>1, <2>4, <2>5 DEF ApplyStatus, Finish, IdleHandler
  <1>8. ASSUME NEW h \in Handlers, AuditStatusChange(h)
        PROVE  TypeOK'
    <2>1. StatusOf(Data[handler[h].event]) \in Statuses
      BY <1>8, StatusOfType DEF AuditStatusChange
    <2> QED
      BY <1>8, <2>1 DEF AuditStatusChange, Finish, IdleHandler
  <1>9. ASSUME NEW h \in Handlers, CustomerConflict(h) \/ QueryFails(h)
        PROVE  TypeOK'
    BY <1>9 DEF CustomerConflict, QueryFails, QueryPending, Throw, Working,
                IdleHandler
  <1>10. ASSUME NEW c \in Checkouts, NEW o \in OrgIds, ReadExisting(c, o)
         PROVE  TypeOK'
    <2>1. CurrentStatus(o) \in Statuses \cup {Null}
          /\ (IF o \in Rows THEN billing[o].customer ELSE Null)
                 \in Customers \cup {Null}
      BY DEF CurrentStatus, BillingRow
    <2> QED
      BY <1>10, <2>1 DEF ReadExisting
  <1>11. ASSUME NEW c \in Checkouts, SaveCheckout(c)
         PROVE  TypeOK'
    <2> DEFINE o == checkout[c].org
               row == [status |-> IF checkout[c].status = "active"
                                  THEN "active" ELSE "pending",
                       customer |-> checkout[c].customer,
                       subscription |-> billing[o].subscription]
    <2>1. o \in Rows => row \in BillingRow
      BY DEF BillingRow, Statuses
    <2>2. billing' \in [Rows -> BillingRow]
      BY <1>11, <2>1, UpsertType DEF SaveCheckout
    <2> QED
      BY <1>11, <2>2 DEF SaveCheckout
  <1>12. ASSUME NEW c \in Checkouts, AnswerCheckout(c) \/ CheckoutFails(c)
         PROVE  TypeOK'
    <2>1. checkout' = [checkout EXCEPT ![c] = IdleCheckout]
          /\ UNCHANGED <<billing, claimed, audited, handler, acked, applied,
                         handled, lost, failures>>
      BY <1>12 DEF AnswerCheckout, CheckoutFails
    <2>2. IdleCheckout \in CheckoutState /\ IdleCheckout.pc = "idle"
      BY DEF IdleCheckout
    <2> QED
      BY <2>1, <2>2
  <1>13. CASE Crash
    BY <1>13 DEF Crash, Working, IdleHandler, IdleCheckout
  <1>14. CASE UNCHANGED vars
    BY <1>14 DEF vars
  <1> QED
    BY <1>1, <1>2, <1>3, <1>4, <1>5, <1>6, <1>7, <1>8, <1>9, <1>10, <1>11,
       <1>12, <1>13, <1>14 DEF Next, Serve

\* Every variable keeps its type, whatever the events carry.
THEOREM TypeCorrect == Spec => []TypeOK
  <1>1. Init => TypeOK
    BY BillingAssumption DEF Init, TypeOK, BillingRow, Statuses, IdleHandler,
       IdleCheckout, HandlerState, CheckoutState, HandlerPcs, CheckoutPcs
  <1>2. TypeOK /\ [Next]_vars => TypeOK'
    BY TypeStep
  <1> QED
    BY <1>1, <1>2, PTL DEF Spec

-----------------------------------------------------------------------------
(* The ledger of claims. *)

\* The inductive invariant: the ledger, and how it accounts for the effects.
\* Before the update of the row the event has had no effect; an event without
\* a claim has had none; none has had two.
ClaimInv ==
    /\ EveryClaimAccountedFor
    /\ AtMostOnce
    /\ \A h \in Handlers :
           handler[h].pc \in {"resolve", "read", "write"}
               => applied[handler[h].event] = 0

\* handler h goes to state pc with event e; the other handlers do not move.
Moves(h, pc, e) ==
    /\ handler'[h].pc = pc
    /\ handler'[h].event = e
    /\ \A g \in Handlers \ {h} : handler'[g] = handler[g]

\* A step that leaves the ledger alone: a handler goes on with its event.
LEMMA LedgerUntouched ==
    ASSUME TypeOK, ClaimInv, NEW h \in Handlers, NEW pc \in HandlerPcs,
           NEW e, Moves(h, pc, e),
           \/ Working(h) /\ e = handler[h].event /\ pc \in {"read", "write"}
              /\ handler[h].pc \in {"resolve", "read"}
           \/ ~Working(h) /\ pc \in {"idle", "claim"},
           UNCHANGED <<claimed, applied, handled, lost>>,
           acked' \subseteq acked \cup claimed
    PROVE  ClaimInv'
  <1>1. \A g \in Handlers, f \in Events : WorkingOn(g, f)' <=> WorkingOn(g, f)
    BY DEF Moves, WorkingOn, Working
  <1>2. \A f \in Events : InProgress(f)' <=> InProgress(f)
    BY <1>1 DEF InProgress
  <1>3. EveryClaimAccountedFor' /\ AtMostOnce'
    BY <1>1, <1>2 DEF ClaimInv, EveryClaimAccountedFor, AtMostOnce, TypeOK
  <1>4. \A g \in Handlers : handler'[g].pc \in {"resolve", "read", "write"}
            => applied'[handler'[g].event] = 0
    BY DEF Moves, ClaimInv
  <1> QED
    BY <1>3, <1>4 DEF ClaimInv

\* A step with which handler h ends its work: the event is handled or lost.
LEMMA LedgerClosed ==
    ASSUME TypeOK, ClaimInv, NEW h \in Handlers,
           Working(h), Moves(h, "idle", Null),
           \/ UNCHANGED applied
           \/ /\ handler[h].pc = "write"
              /\ applied' = [applied EXCEPT ![handler[h].event] = @ + 1],
           \/ handled' = handled \cup {handler[h].event} /\ UNCHANGED lost
           \/ lost' = lost \cup {handler[h].event} /\ UNCHANGED handled,
           UNCHANGED claimed,
           acked' \subseteq acked \cup {handler[h].event}
    PROVE  ClaimInv'
  <1> DEFINE e == handler[h].event
  <1>1. e \in Events /\ e \in claimed /\ e \notin handled \cup lost
    BY DEF TypeOK, Working, ClaimInv, EveryClaimAccountedFor, WorkingOn,
           InProgress
  <1>2. \A g \in Handlers, f \in Events :
            WorkingOn(g, f)' <=> WorkingOn(g, f) /\ g # h
    BY DEF Moves, WorkingOn, Working
  <1>3. \A g \in Handlers : WorkingOn(g, e) => g = h
    BY <1>1 DEF ClaimInv, EveryClaimAccountedFor, WorkingOn
  <1>4. \A f \in Events : InProgress(f)' <=> InProgress(f) /\ f # e
    <2>1. \A f \in Events : WorkingOn(h, f) => f = e
      BY DEF WorkingOn
    <2> QED
      BY <1>1, <1>2, <1>3, <2>1 DEF InProgress
  <1>5. /\ applied[e] \in 0 .. 1
        /\ applied'[e] \in 0 .. 1
        /\ \A f \in Events \ {e} : applied'[f] = applied[f]
    BY <1>1 DEF TypeOK, ClaimInv, AtMostOnce
  <1>6. \A f \in Events : f \in (handled \cup lost)' <=>
                              f \in handled \cup lost \/ f = e
    BY <1>1
  <1>7. EveryClaimAccountedFor'
    <2>1. \A f \in Events : f \notin (handled \cap lost)'
      BY <1>1 DEF ClaimInv, EveryClaimAccountedFor
    <2>2. \A f \in Events : (f \in acked' \/ applied'[f] > 0) => f \in claimed
      BY <1>1, <1>5 DEF ClaimInv, EveryClaimAccountedFor
    <2>3. \A f \in Events, g1, g2 \in Handlers :
              WorkingOn(g1, f)' /\ WorkingOn(g2, f)' => g1 = g2
      BY <1>2 DEF ClaimInv, EveryClaimAccountedFor
    <2> HIDE DEF e
    <2> QED
      BY <1>1, <1>4, <1>6, <2>1, <2>2, <2>3 DEF ClaimInv, EveryClaimAccountedFor
  <1>8. AtMostOnce'
    BY <1>5 DEF ClaimInv, AtMostOnce
  <1>9. \A g \in Handlers : handler'[g].pc \in {"resolve", "read", "write"}
            => applied'[handler'[g].event] = 0
    <2> SUFFICES ASSUME NEW g \in Handlers,
                        handler'[g].pc \in {"resolve", "read", "write"}
                 PROVE  applied'[handler'[g].event] = 0
      OBVIOUS
    <2>1. g # h /\ handler'[g] = handler[g]
      BY DEF Moves
    <2>2. handler[g].event \in Events /\ handler[g].event # e
          /\ applied[handler[g].event] = 0
      BY <2>1, <1>3 DEF TypeOK, ClaimInv, WorkingOn, Working
    <2> QED
      BY <2>1, <2>2, <1>5
  <1> QED
    BY <1>7, <1>8, <1>9 DEF ClaimInv

LEMMA ClaimStep ==
    ASSUME TypeOK, ClaimInv, [Next]_vars
    PROVE  ClaimInv'
  <1>1. ASSUME NEW h \in Handlers, NEW e \in Events, Deliver(h, e)
        PROVE  ClaimInv'
    <2>1. Moves(h, "claim", e) /\ ~Working(h)
      BY <1>1 DEF Deliver, TypeOK, HandlerState, Moves, Working
    <2> QED
      BY <1>1, <2>1, LedgerUntouched DEF Deliver, HandlerPcs
  <1>2. ASSUME NEW h \in Handlers, ClaimNew(h)
        PROVE  ClaimInv'
    <2> DEFINE e == handler[h].event
    <2>1. e \in Events /\ Moves(h, "resolve", e) /\ ~Working(h)
      BY <1>2 DEF ClaimNew, TypeOK, HandlerState, Moves, Working
    <2>2. \A g \in Handlers, f \in Events :
              WorkingOn(g, f)' <=> WorkingOn(g, f) \/ (g = h /\ f = e)
      BY <2>1 DEF Moves, WorkingOn, Working
    <2>3. \A f \in Events : InProgress(f)' <=> InProgress(f) \/ f = e
      BY <2>1, <2>2 DEF InProgress
    <2>4. claimed' = claimed \cup {e} /\ e \notin claimed
          /\ UNCHANGED <<acked, applied, handled, lost>>
      BY <1>2 DEF ClaimNew
    <2>5. \A g \in Handlers : ~WorkingOn(g, e)
      BY <2>1, <2>4 DEF ClaimInv, EveryClaimAccountedFor, InProgress
    <2>6. applied[e] = 0
      BY <2>1, <2>4 DEF TypeOK, ClaimInv, EveryClaimAccountedFor
    <2>7. EveryClaimAccountedFor'
      BY <2>1, <2>2, <2>3, <2>4, <2>5 DEF ClaimInv, EveryClaimAccountedFor
    <2> QED
      BY <2>1, <2>4, <2>6, <2>7 DEF ClaimInv, AtMostOnce, Moves
  <1>3. ASSUME NEW h \in Handlers, ClaimDuplicate(h)
        PROVE  ClaimInv'
    <2>1. Moves(h, "idle", Null) /\ ~Working(h)
      BY <1>3 DEF ClaimDuplicate, IdleHandler, TypeOK, Moves, Working
    <2> QED
      BY <1>3, <2>1, LedgerUntouched DEF ClaimDuplicate, HandlerPcs
  <1>4. ASSUME NEW h \in Handlers, Drop(h) \/ AuditStatusChange(h)
        PROVE  ClaimInv'
    <2>1. Moves(h, "idle", Null) /\ Working(h) /\ handler[h].event \in Events
      BY <1>4 DEF Drop, AuditStatusChange, Finish, IdleHandler, TypeOK, Moves,
                  Working
    <2>2. UNCHANGED applied
      BY <1>4 DEF Drop, AuditStatusChange
    <2>3. /\ handled' = handled \cup {handler[h].event}
          /\ acked' = acked \cup {handler[h].event}
          /\ UNCHANGED <<lost, claimed>>
      BY <1>4 DEF Drop, AuditStatusChange, Finish
    <2> QED
      BY <2>1, <2>2, <2>3, LedgerClosed
  <1>5. ASSUME NEW h \in Handlers, Resolve(h)
        PROVE  ClaimInv'
    <2>1. Moves(h, "read", handler[h].event) /\ Working(h)
      BY <1>5 DEF Resolve, TypeOK, HandlerState, Moves, Working
    <2>2. UNCHANGED <<claimed, acked, applied, handled, lost>>
          /\ handler[h].pc = "resolve"
      BY <1>5 DEF Resolve
    <2> QED
      BY <2>1, <2>2, LedgerUntouched DEF HandlerPcs
  <1>6. ASSUME NEW h \in Handlers, ReadBefore(h)
        PROVE  ClaimInv'
    <2>1. Moves(h, "write", handler[h].event) /\ Working(h)
      BY <1>6 DEF ReadBefore, TypeOK, HandlerState, Moves, Working
    <2>2. UNCHANGED <<claimed, acked, applied, handled, lost>>
          /\ handler[h].pc = "read"
      BY <1>6 DEF ReadBefore
    <2> QED
      BY <2>1, <2>2, LedgerUntouched DEF HandlerPcs
  <1>7. ASSUME NEW h \in Handlers, ApplyStatus(h)
        PROVE  ClaimInv'
    <2> DEFINE e == handler[h].event
    <2>1. e \in Events /\ Working(h) /\ handler[h].pc = "write"
          /\ applied' = [applied EXCEPT ![e] = @ + 1]
          /\ UNCHANGED <<claimed, lost>>
      BY <1>7 DEF ApplyStatus, TypeOK, Working
    <2>2. CASE Finish(h)
      <3>1. Moves(h, "idle", Null) /\ handled' = handled \cup {e}
            /\ acked' = acked \cup {e}
        BY <2>2 DEF Finish, IdleHandler, Moves, TypeOK
      <3> QED
        BY <2>1, <3>1, LedgerClosed
    <2>3. CASE /\ handler' = [handler EXCEPT ![h].pc = "audit"]
               /\ UNCHANGED <<handled, acked>>
      <3>1. Moves(h, "audit", e)
        BY <2>3 DEF Moves, TypeOK, HandlerState
      <3>2. \A g \in Handlers, f \in Events :
                WorkingOn(g, f)' <=> WorkingOn(g, f)
        BY <2>1, <3>1 DEF Moves, WorkingOn, Working
      <3>3. \A f \in Events : InProgress(f)' <=> InProgress(f)
        BY <3>2 DEF InProgress
      <3>4. WorkingOn(h, e) /\ InProgress(e) /\ e \in claimed
        BY <2>1 DEF ClaimInv, EveryClaimAccountedFor, InProgress, WorkingOn
      <3>5. applied[e] = 0 /\ \A f \in Events :
                applied'[f] = IF f = e THEN 1 ELSE applied[f]
        BY <2>1 DEF TypeOK, ClaimInv
      <3>6. EveryClaimAccountedFor' /\ AtMostOnce'
        BY <2>1, <2>3, <3>2, <3>3, <3>4, <3>5
           DEF ClaimInv, EveryClaimAccountedFor, AtMostOnce
      <3>7. ASSUME NEW g \in Handlers,
                   handler'[g].pc \in {"resolve", "read", "write"}
            PROVE  applied'[handler'[g].event] = 0
        <4>1. g # h /\ handler'[g] = handler[g]
          BY <3>1, <3>7 DEF Moves
        <4>2. handler[g].event \in Events /\ handler[g].event # e
              /\ applied[handler[g].event] = 0
          BY <4>1, <3>4, <3>7 DEF TypeOK, ClaimInv, EveryClaimAccountedFor,
                                 WorkingOn, Working
        <4> QED
          BY <4>1, <4>2, <3>5
      <3> QED
        BY <3>6, <3>7 DEF ClaimInv
    <2> QED
      BY <1>7, <2>2, <2>3 DEF ApplyStatus
  <1>8. ASSUME NEW h \in Handlers, CustomerConflict(h) \/ QueryFails(h)
        PROVE  ClaimInv'
    <2>1. Moves(h, "idle", Null)
          /\ UNCHANGED <<claimed, acked, applied, handled>>
          /\ lost' = IF Working(h) THEN lost \cup {handler[h].event} ELSE lost
      BY <1>8 DEF CustomerConflict, QueryFails, Throw, IdleHandler, Moves,
                  TypeOK
    <2>2. CASE Working(h)
      BY <2>1, <2>2, LedgerClosed
    <2>3. CASE ~Working(h)
      BY <2>1, <2>3, LedgerUntouched DEF HandlerPcs
    <2> QED
      BY <2>2, <2>3
  <1>9. ASSUME NEW c \in Checkouts,
               \/ \E o \in OrgIds : ReadExisting(c, o)
               \/ SaveCheckout(c) \/ AnswerCheckout(c) \/ CheckoutFails(c)
        PROVE  ClaimInv'
    BY <1>9 DEF ReadExisting, SaveCheckout, AnswerCheckout, CheckoutFails,
                ClaimInv, EveryClaimAccountedFor, AtMostOnce, InProgress,
                WorkingOn, Working
  <1>10. CASE Crash
    <2>1. \A g \in Handlers : handler'[g].pc = "idle"
      BY <1>10 DEF Crash, IdleHandler
    <2>2. \A f \in Events : f \in lost' <=> f \in lost \/ InProgress(f)
      BY <1>10 DEF Crash, InProgress, WorkingOn
    <2>3. \A f \in Events : ~InProgress(f)'
      BY <2>1 DEF InProgress, WorkingOn, Working
    <2>4. UNCHANGED <<claimed, acked, applied, handled>>
      BY <1>10 DEF Crash
    <2> QED
      BY <2>1, <2>2, <2>3, <2>4 DEF ClaimInv, EveryClaimAccountedFor,
         AtMostOnce, InProgress
  <1>11. CASE UNCHANGED vars
    BY <1>11 DEF vars, ClaimInv, EveryClaimAccountedFor, AtMostOnce,
                 InProgress, WorkingOn, Working
  <1> QED
    BY <1>1, <1>2, <1>3, <1>4, <1>5, <1>6, <1>7, <1>8, <1>9, <1>10, <1>11
       DEF Next, Serve

LEMMA ClaimInvariant == Spec => []ClaimInv
  <1>1. Init => ClaimInv
    BY DEF Init, ClaimInv, EveryClaimAccountedFor, AtMostOnce, InProgress,
           WorkingOn, Working, IdleHandler
  <1>2. TypeOK /\ ClaimInv /\ [Next]_vars => ClaimInv'
    BY ClaimStep
  <1> QED
    BY <1>1, <1>2, TypeCorrect, PTL DEF Spec

\* Every claimed event is with one handler, handled or lost; nothing is
\* answered or applied without a claim.
THEOREM ClaimsAccounted == Spec => []EveryClaimAccountedFor
  BY ClaimInvariant, PTL DEF ClaimInv

\* However often Stripe repeats an event and whatever fails, it updates the
\* billing state at most once.
THEOREM EffectAtMostOnce == Spec => []AtMostOnce
  BY ClaimInvariant, PTL DEF ClaimInv

-----------------------------------------------------------------------------
(* The audit trail, and what makes an organisation active. *)

\* A step writes the row of at most one event, and every other event keeps
\* its count: what has been applied stays applied.
LEMMA AppliedGrows ==
    ASSUME TypeOK, [Next]_vars, NEW e \in Events
    PROVE  applied'[e] >= applied[e]
  <1>1. applied \in [Events -> Nat]
    BY DEF TypeOK
  <1>2. ASSUME NEW h \in Handlers, ApplyStatus(h)
        PROVE  applied'[e] >= applied[e]
    BY <1>1, <1>2 DEF ApplyStatus
  <1>3. ASSUME NEW h \in Handlers,
               \/ \E f \in Events : Deliver(h, f)
               \/ ClaimNew(h) \/ ClaimDuplicate(h) \/ Drop(h) \/ Resolve(h)
               \/ ReadBefore(h) \/ AuditStatusChange(h)
               \/ CustomerConflict(h) \/ QueryFails(h)
        PROVE  UNCHANGED applied
    BY <1>3 DEF Deliver, ClaimNew, ClaimDuplicate, Drop, Resolve, ReadBefore,
                AuditStatusChange, CustomerConflict, QueryFails, Throw
  <1>4. ASSUME NEW c \in Checkouts,
               \/ \E o \in OrgIds : ReadExisting(c, o)
               \/ SaveCheckout(c) \/ AnswerCheckout(c) \/ CheckoutFails(c)
        PROVE  UNCHANGED applied
    BY <1>4 DEF ReadExisting, SaveCheckout, AnswerCheckout, CheckoutFails
  <1>5. CASE Crash \/ UNCHANGED vars
    BY <1>1, <1>5 DEF Crash, vars
  <1> QED
    BY <1>1, <1>2, <1>3, <1>4, <1>5 DEF Next, Serve

\* The inductive invariant: a handler about to append its audit event has
\* updated the row for the event it holds.
AuditInv ==
    /\ AuditNeverAhead
    /\ \A h \in Handlers :
           handler[h].pc = "audit" => applied[handler[h].event] > 0

\* A step that appends no audit event and takes no handler to "audit".
LEMMA TrailUntouched ==
    ASSUME TypeOK, AuditInv, [Next]_vars, UNCHANGED audited,
           \A h \in Handlers : handler'[h].pc = "audit" =>
               \/ handler'[h] = handler[h]
               \/ /\ handler'[h].event \in Events
                  /\ applied'[handler'[h].event] > 0
    PROVE  AuditInv'
  <1>1. \A e \in Events : applied[e] \in Nat /\ applied'[e] >= applied[e]
    BY AppliedGrows DEF TypeOK
  <1>2. TypeOK' /\ applied' \in [Events -> Nat]
    BY TypeStep DEF TypeOK
  <1>3. \A e \in Events : applied[e] > 0 => applied'[e] > 0
    BY <1>1, <1>2
  <1>4. AuditNeverAhead'
    BY <1>3 DEF AuditInv, AuditNeverAhead
  <1>5. \A h \in Handlers : handler[h].pc = "audit" =>
            handler[h].event \in Events /\ applied[handler[h].event] > 0
    BY DEF TypeOK, AuditInv
  <1> QED
    BY <1>3, <1>4, <1>5 DEF AuditInv
\* One case per action: only the last step of a handler appends, and it has
\* written its row.
LEMMA AuditStep ==
    ASSUME TypeOK, AuditInv, [Next]_vars
    PROVE  AuditInv'
  <1>1. ASSUME NEW h \in Handlers, NEW e \in Events, Deliver(h, e)
        PROVE  AuditInv'
    <2>1. UNCHANGED audited /\ Moves(h, "claim", e)
      BY <1>1 DEF Deliver, Moves, TypeOK, HandlerState
    <2> QED
      BY <2>1, TrailUntouched DEF Moves
  <1>2. ASSUME NEW h \in Handlers, ClaimNew(h)
        PROVE  AuditInv'
    <2>1. UNCHANGED audited /\ Moves(h, "resolve", handler[h].event)
      BY <1>2 DEF ClaimNew, Moves, TypeOK, HandlerState
    <2> QED
      BY <2>1, TrailUntouched DEF Moves
  <1>3. ASSUME NEW h \in Handlers,
               ClaimDuplicate(h) \/ Drop(h) \/ CustomerConflict(h)
                   \/ QueryFails(h)
        PROVE  AuditInv'
    <2>1. UNCHANGED audited /\ Moves(h, "idle", Null)
      BY <1>3 DEF ClaimDuplicate, Drop, Finish, CustomerConflict, QueryFails,
                  Throw, IdleHandler, Moves, TypeOK
    <2> QED
      BY <2>1, TrailUntouched DEF Moves
  <1>4. ASSUME NEW h \in Handlers, Resolve(h)
        PROVE  AuditInv'
    <2>1. UNCHANGED audited /\ Moves(h, "read", handler[h].event)
      BY <1>4 DEF Resolve, Moves, TypeOK, HandlerState
    <2> QED
      BY <2>1, TrailUntouched DEF Moves
  <1>5. ASSUME NEW h \in Handlers, ReadBefore(h)
        PROVE  AuditInv'
    <2>1. UNCHANGED audited /\ Moves(h, "write", handler[h].event)
      BY <1>5 DEF ReadBefore, Moves, TypeOK, HandlerState
    <2> QED
      BY <2>1, TrailUntouched DEF Moves
  <1>6. ASSUME NEW h \in Handlers, ApplyStatus(h)
        PROVE  AuditInv'
    <2>1. handler[h].event \in Events /\ UNCHANGED audited
      BY <1>6 DEF ApplyStatus, TypeOK
    <2>2. applied'[handler[h].event] > 0
      BY <1>6, <2>1 DEF ApplyStatus, TypeOK
    <2>3. Moves(h, "idle", Null) \/ Moves(h, "audit", handler[h].event)
      BY <1>6 DEF ApplyStatus, Finish, IdleHandler, Moves, TypeOK,
                  HandlerState
    <2> QED
      BY <2>1, <2>2, <2>3, TrailUntouched DEF Moves
  <1>7. ASSUME NEW h \in Handlers, AuditStatusChange(h)
        PROVE  AuditInv'
    <2> DEFINE e == handler[h].event
               org == handler[h].org
    <2>1. /\ e \in Events /\ applied[e] > 0
          /\ UNCHANGED applied
          /\ audited' = [audited EXCEPT ![org] = StatusOf(Data[e])]
          /\ audited \in [OrgIds -> Statuses]
      BY <1>7 DEF AuditStatusChange, TypeOK, AuditInv
    <2>2. Moves(h, "idle", Null)
      BY <1>7 DEF AuditStatusChange, Finish, IdleHandler, Moves, TypeOK
    <2> HIDE DEF e, org
    <2>3. ASSUME NEW o \in OrgIds
          PROVE  audited'[o] = StatusOf(Data[e]) \/ audited'[o] = audited[o]
      BY <2>1
    <2>4. AuditNeverAhead'
      BY <2>1, <2>3 DEF AuditInv, AuditNeverAhead
    <2> QED
      BY <2>1, <2>2, <2>4 DEF AuditInv, Moves
  <1>8. ASSUME NEW c \in Checkouts,
               \/ \E o \in OrgIds : ReadExisting(c, o)
               \/ SaveCheckout(c) \/ AnswerCheckout(c) \/ CheckoutFails(c)
        PROVE  AuditInv'
    <2>1. UNCHANGED <<audited, handler>>
      BY <1>8 DEF ReadExisting, SaveCheckout, AnswerCheckout, CheckoutFails
    <2> QED
      BY <2>1, TrailUntouched
  <1>9. CASE Crash
    <2>1. UNCHANGED audited /\ \A h \in Handlers : handler'[h].pc = "idle"
      BY <1>9 DEF Crash, IdleHandler
    <2> QED
      BY <2>1, TrailUntouched
  <1>10. CASE UNCHANGED vars
    BY <1>10, TrailUntouched DEF vars
  <1> QED
    BY <1>1, <1>2, <1>3, <1>4, <1>5, <1>6, <1>7, <1>8, <1>9, <1>10
       DEF Next, Serve

\* The status recorded last for an organisation is the one it started with, or
\* one that an event has written to a row: auditStatusChange comes after
\* upsertBilling (billing.service.core.ts), and no failure undoes the update.
THEOREM TrailNeverAhead == Spec => []AuditNeverAhead
  <1>1. Init => AuditInv
    BY DEF Init, AuditInv, AuditNeverAhead, IdleHandler
  <1>2. TypeOK /\ AuditInv /\ [Next]_vars => AuditInv'
    BY AuditStep
  <1>3. AuditInv => AuditNeverAhead
    BY DEF AuditInv
  <1> QED
    BY <1>1, <1>2, <1>3, TypeCorrect, PTL DEF Spec

\* The handlers write "active" for the events that are payments, no others.
LEMMA ActiveIsPayment ==
    ASSUME NEW d \in EventData, d.type # "other", StatusOf(d) = "active"
    PROVE  PaymentEvent(d)
  BY DEF EventData, EventTypes, StripeStatuses, StatusOf, PaymentEvent,
         mapStripeSubscriptionStatus

\* The inductive invariant: a row is active, or was when a checkout read it,
\* only if a payment for it has taken effect; a handler past its lookup serves
\* the organisation that its event names, if it names one.
Serves(e, o) == Data[e].type # "other" /\ Data[e].org \in {o, Null}

PaidInv ==
    /\ ActiveWasPaid
    /\ \A c \in Checkouts :
           checkout[c].status = "active" => PaidFor(checkout[c].org)
    /\ \A h \in Handlers :
           handler[h].pc \in {"read", "write"}
               => Serves(handler[h].event, handler[h].org)

\* The same of the state after a step.
PaidForNext(o) ==
    \E e \in Events : /\ applied'[e] > 0
                      /\ PaymentEvent(Data[e])
                      /\ Data[e].org \in {o, Null}

LEMMA PaidForStays ==
    ASSUME TypeOK, [Next]_vars, NEW o, PaidFor(o)
    PROVE  PaidForNext(o)
  <1>1. PICK e \in Events : /\ applied[e] > 0 /\ PaymentEvent(Data[e])
                            /\ Data[e].org \in {o, Null}
    BY DEF PaidFor
  <1>2. applied[e] \in Nat /\ applied'[e] \in Nat /\ applied'[e] >= applied[e]
    BY AppliedGrows, TypeStep DEF TypeOK
  <1> QED
    BY <1>1, <1>2 DEF PaidForNext

LEMMA PaidInvNext ==
    ASSUME \A o \in Rows : billing'[o].status = "active" => PaidForNext(o),
           \A c \in Checkouts :
               checkout'[c].status = "active" => PaidForNext(checkout'[c].org),
           \A h \in Handlers :
               handler'[h].pc \in {"read", "write"}
                   => Serves(handler'[h].event, handler'[h].org)
    PROVE  PaidInv'
  BY DEF PaidInv, ActiveWasPaid, PaidFor, PaidForNext, Serves

\* A step that neither writes a row nor lets a checkout read one.
LEMMA RowsUntouched ==
    ASSUME TypeOK, PaidInv, [Next]_vars, UNCHANGED billing,
           \A c \in Checkouts : \/ checkout'[c] = checkout[c]
                                \/ checkout'[c].status = Null,
           \A h \in Handlers :
               handler'[h].pc \in {"read", "write"} =>
                   \/ handler'[h] = handler[h]
                   \/ Serves(handler'[h].event, handler'[h].org)
    PROVE  PaidInv'
  <1>1. Null # "active"
    BY BillingAssumption DEF Statuses
  <1>2. \A o : PaidFor(o) => PaidForNext(o)
    BY PaidForStays
  <1>3. \A o \in Rows : billing'[o].status = "active" => PaidForNext(o)
    BY <1>2 DEF PaidInv, ActiveWasPaid
  <1>4. \A c \in Checkouts :
            checkout'[c].status = "active" => PaidForNext(checkout'[c].org)
    BY <1>1, <1>2 DEF PaidInv
  <1>5. \A h \in Handlers :
            handler'[h].pc \in {"read", "write"}
                => Serves(handler'[h].event, handler'[h].org)
    BY DEF PaidInv
  <1> QED
    BY <1>3, <1>4, <1>5, PaidInvNext

\* A webhook that writes "active" writes it for a payment.
LEMMA ApplyActive ==
    ASSUME TypeOK, PaidInv, NEW h \in Handlers, ApplyStatus(h), NEW o \in Rows
    PROVE  \/ billing'[o] = billing[o]
           \/ /\ o = handler[h].org
              /\ billing'[o].status = StatusOf(Data[handler[h].event])
              /\ StatusOf(Data[handler[h].event]) = "active"
                     => PaymentEvent(Data[handler[h].event])
  <1> DEFINE d == Data[handler[h].event]
             row == [status |-> StatusOf(d), customer |-> d.customer,
                     subscription |-> SubscriptionOf(d)]
  <1>1. /\ d \in EventData /\ d.type # "other"
        /\ billing' = IF handler[h].org \in Rows
                      THEN [billing EXCEPT ![handler[h].org] = row]
                      ELSE billing
    BY BillingAssumption
       DEF TypeOK, PaidInv, Serves, ApplyStatus, UpsertBilling
  <1>2. row.status = StatusOf(d)
    OBVIOUS
  <1>3. StatusOf(d) = "active" => PaymentEvent(d)
    BY <1>1, ActiveIsPayment
  <1> HIDE DEF row
  <1> QED
    BY <1>1, <1>2, <1>3 DEF TypeOK

\* A checkout writes "active" only over the "active" that it read.
LEMMA CheckoutKeepsActive ==
    ASSUME TypeOK, NEW c \in Checkouts, SaveCheckout(c), NEW o \in Rows,
           billing'[o].status = "active"
    PROVE  \/ billing'[o] = billing[o]
           \/ checkout[c].status = "active" /\ checkout[c].org = o
  <1> DEFINE org == checkout[c].org
             row == [status |-> IF checkout[c].status = "active" THEN "active"
                                ELSE "pending",
                     customer |-> checkout[c].customer,
                     subscription |-> billing[org].subscription]
  <1>1. billing' = IF org \in Rows THEN [billing EXCEPT ![org] = row]
                   ELSE billing
    BY DEF SaveCheckout, UpsertBilling
  <1>2. row.status = "active" => checkout[c].status = "active"
    OBVIOUS
  <1> HIDE DEF row
  <1> QED
    BY <1>1, <1>2 DEF TypeOK

\* One case per action: only a webhook or a checkout writes a row.
LEMMA PaidStep ==
    ASSUME TypeOK, PaidInv, [Next]_vars
    PROVE  PaidInv'
  <1>1. ASSUME NEW h \in Handlers, NEW e \in Events, Deliver(h, e)
        PROVE  PaidInv'
    <2>1. UNCHANGED <<billing, checkout>> /\ Moves(h, "claim", e)
      BY <1>1 DEF Deliver, Moves, TypeOK, HandlerState
    <2> QED
      BY <2>1, RowsUntouched DEF Moves
  <1>2. ASSUME NEW h \in Handlers, ClaimNew(h)
        PROVE  PaidInv'
    <2>1. UNCHANGED <<billing, checkout>>
          /\ Moves(h, "resolve", handler[h].event)
      BY <1>2 DEF ClaimNew, Moves, TypeOK, HandlerState
    <2> QED
      BY <2>1, RowsUntouched DEF Moves
  <1>3. ASSUME NEW h \in Handlers,
               ClaimDuplicate(h) \/ Drop(h) \/ AuditStatusChange(h)
                   \/ CustomerConflict(h) \/ QueryFails(h)
        PROVE  PaidInv'
    <2>1. UNCHANGED <<billing, checkout>> /\ Moves(h, "idle", Null)
      BY <1>3 DEF ClaimDuplicate, Drop, AuditStatusChange, Finish,
                  CustomerConflict, QueryFails, Throw, IdleHandler, Moves,
                  TypeOK
    <2> QED
      BY <2>1, RowsUntouched DEF Moves
  <1>4. ASSUME NEW h \in Handlers, Resolve(h)
        PROVE  PaidInv'
    <2>1. UNCHANGED <<billing, checkout>>
          /\ Moves(h, "read", handler[h].event)
          /\ handler'[h].org = ResolveOrgId(Data[handler[h].event])
          /\ Data[handler[h].event].type # "other"
      BY <1>4 DEF Resolve, Moves, TypeOK, HandlerState
    <2>2. Serves(handler'[h].event, handler'[h].org)
      BY <2>1 DEF Moves, Serves, ResolveOrgId
    <2> QED
      BY <2>1, <2>2, RowsUntouched DEF Moves
  <1>5. ASSUME NEW h \in Handlers, ReadBefore(h)
        PROVE  PaidInv'
    <2>1. UNCHANGED <<billing, checkout>>
          /\ Moves(h, "write", handler[h].event)
          /\ handler'[h].org = handler[h].org
      BY <1>5 DEF ReadBefore, Moves, TypeOK, HandlerState
    <2>2. Serves(handler[h].event, handler[h].org)
      BY <1>5 DEF ReadBefore, PaidInv
    <2> QED
      BY <2>1, <2>2, RowsUntouched DEF Moves
  <1>6. ASSUME NEW h \in Handlers, ApplyStatus(h)
        PROVE  PaidInv'
    <2>1. handler[h].event \in Events /\ UNCHANGED checkout
      BY <1>6 DEF ApplyStatus, TypeOK
    <2>2. applied'[handler[h].event] > 0
      BY <1>6, <2>1 DEF ApplyStatus, TypeOK
    <2>3. Moves(h, "idle", Null) \/ Moves(h, "audit", handler[h].event)
      BY <1>6 DEF ApplyStatus, Finish, IdleHandler, Moves, TypeOK,
                  HandlerState
    <2>4. Serves(handler[h].event, handler[h].org)
      BY <1>6 DEF ApplyStatus, PaidInv
    <2>5. ASSUME NEW o \in Rows, billing'[o].status = "active"
          PROVE  PaidForNext(o)
      <3>1. CASE billing'[o] = billing[o]
        BY <2>5, <3>1, PaidForStays DEF PaidInv, ActiveWasPaid
      <3>2. CASE /\ PaymentEvent(Data[handler[h].event])
                 /\ o = handler[h].org
        BY <2>1, <2>2, <2>4, <3>2 DEF PaidForNext, Serves
      <3> QED
        BY <1>6, <2>5, <3>1, <3>2, ApplyActive
    <2>6. \A o \in Rows : billing'[o].status = "active" => PaidForNext(o)
      BY <2>5
    <2>7. \A c \in Checkouts :
              checkout'[c].status = "active" => PaidForNext(checkout'[c].org)
      BY <2>1, PaidForStays DEF PaidInv
    <2>8. \A g \in Handlers :
              handler'[g].pc \in {"read", "write"}
                  => Serves(handler'[g].event, handler'[g].org)
      BY <2>3 DEF PaidInv, Moves
    <2> QED
      BY <2>6, <2>7, <2>8, PaidInvNext
  <1>7. ASSUME NEW c \in Checkouts, NEW o \in OrgIds, ReadExisting(c, o)
        PROVE  PaidInv'
    <2>1. /\ UNCHANGED <<billing, handler>>
          /\ \A k \in Checkouts \ {c} : checkout'[k] = checkout[k]
          /\ checkout'[c].status = CurrentStatus(o)
          /\ checkout'[c].org = o
      BY <1>7 DEF ReadExisting, TypeOK
    <2>2. CurrentStatus(o) = "active" => PaidFor(o)
      BY BillingAssumption DEF CurrentStatus, PaidInv, ActiveWasPaid, Statuses
    <2>3. \A x : PaidFor(x) => PaidForNext(x)
      BY PaidForStays
    <2>4. \A k \in Checkouts :
              checkout'[k].status = "active" => PaidForNext(checkout'[k].org)
      BY <2>1, <2>2, <2>3 DEF PaidInv
    <2>5. \A x \in Rows : billing'[x].status = "active" => PaidForNext(x)
      BY <2>1, <2>3 DEF PaidInv, ActiveWasPaid
    <2>6. \A h \in Handlers : handler'[h].pc \in {"read", "write"}
              => Serves(handler'[h].event, handler'[h].org)
      BY <2>1 DEF PaidInv
    <2> QED
      BY <2>4, <2>5, <2>6, PaidInvNext
  <1>8. ASSUME NEW c \in Checkouts, SaveCheckout(c)
        PROVE  PaidInv'
    <2>1. /\ UNCHANGED handler
          /\ \A k \in Checkouts : /\ checkout'[k].status = checkout[k].status
                                  /\ checkout'[k].org = checkout[k].org
      BY <1>8 DEF SaveCheckout, TypeOK, CheckoutState
    <2>2. ASSUME NEW o \in Rows, billing'[o].status = "active"
          PROVE  PaidForNext(o)
      <3>1. PaidFor(o)
        BY <1>8, <2>2, CheckoutKeepsActive DEF PaidInv, ActiveWasPaid
      <3> QED
        BY <3>1, PaidForStays
    <2>3. \A o \in Rows : billing'[o].status = "active" => PaidForNext(o)
      BY <2>2
    <2>4. \A k \in Checkouts :
              checkout'[k].status = "active" => PaidForNext(checkout'[k].org)
      BY <2>1, PaidForStays DEF PaidInv
    <2>5. \A h \in Handlers : handler'[h].pc \in {"read", "write"}
              => Serves(handler'[h].event, handler'[h].org)
      BY <2>1 DEF PaidInv
    <2> QED
      BY <2>3, <2>4, <2>5, PaidInvNext
  <1>9. ASSUME NEW c \in Checkouts, AnswerCheckout(c) \/ CheckoutFails(c)
        PROVE  PaidInv'
    <2>1. /\ UNCHANGED <<billing, handler>>
          /\ \A k \in Checkouts : checkout'[k] = checkout[k]
                                  \/ checkout'[k].status = Null
      BY <1>9 DEF AnswerCheckout, CheckoutFails, IdleCheckout, TypeOK
    <2> QED
      BY <2>1, RowsUntouched
  <1>10. CASE Crash
    <2>1. /\ UNCHANGED billing
          /\ \A k \in Checkouts : checkout'[k].status = Null
          /\ \A h \in Handlers : handler'[h].pc = "idle"
      BY <1>10 DEF Crash, IdleHandler, IdleCheckout
    <2> QED
      BY <2>1, RowsUntouched
  <1>11. CASE UNCHANGED vars
    BY <1>11, RowsUntouched DEF vars
  <1> QED
    BY <1>1, <1>2, <1>3, <1>4, <1>5, <1>6, <1>7, <1>8, <1>9, <1>10, <1>11
       DEF Next, Serve

LEMMA PaidInvariant == Spec => []PaidInv
  <1>1. Init => PaidInv
    BY BillingAssumption
       DEF Init, PaidInv, ActiveWasPaid, IdleHandler, IdleCheckout, Statuses
  <1>2. TypeOK /\ PaidInv /\ [Next]_vars => PaidInv'
    BY PaidStep
  <1> QED
    BY <1>1, <1>2, TypeCorrect, PTL DEF Spec

\* No organisation is active unless a payment for it has taken effect ("Pending
\* until invoice.paid / subscription active", billing.service.core.ts:336),
\* whatever checkouts and webhooks overlap: what a checkout writes back, it
\* has read in the same row.
THEOREM OnlyPaidIsActive == Spec => []ActiveWasPaid
  <1>1. PaidInv => ActiveWasPaid
    BY DEF PaidInv
  <1> QED
    BY <1>1, PaidInvariant, PTL

=============================================================================
