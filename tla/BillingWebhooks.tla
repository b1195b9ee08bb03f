-------------------------- MODULE BillingWebhooks --------------------------
(***************************************************************************)
(* The billing state of an organisation (apps/api/src/billing) over the    *)
(* Postgres store.  Two kinds of requests write it concurrently:           *)
(*   - a webhook handler: claim the event id, resolve the organisation,    *)
(*     read the status, update the row, append the audit event;            *)
(*   - a checkout request: read the row, call Stripe, update the row.      *)
(* Every "await" of the code separates two actions, so all the requests    *)
(* interleave there.  Stripe repeats an event until it is answered 2xx,    *)
(* may repeat it afterwards, and promises no order.                        *)
(***************************************************************************)
EXTENDS Naturals

CONSTANTS
    OrgIds,         \* organisation ids a request or an event may name
    Rows,           \* the ones that have a row in table orgs
    Customers,      \* Stripe customer ids
    Subscriptions,  \* Stripe subscription ids
    Events,         \* Stripe events, by event.id
    Data,           \* what each event carries
    Handlers,       \* webhook requests served at the same time
    Checkouts,      \* checkout requests served at the same time
    MaxFailures,    \* bound on failed queries and process crashes
    Null

Statuses == {"pending", "active", "past_due", "canceled"}

EventTypes ==
    {"checkout.session.completed", "invoice.paid", "invoice.payment_failed",
     "customer.subscription.updated", "customer.subscription.created",
     "customer.subscription.deleted", "other"}

StripeStatuses ==
    {"active", "trialing", "past_due", "unpaid", "canceled",
     "incomplete_expired", "incomplete", "paused"}

\* org is metadata.orgId, or the client_reference_id of a checkout session.
EventData ==
    [type: EventTypes, stripeStatus: StripeStatuses, org: OrgIds \cup {Null},
     customer: Customers \cup {Null}, subscription: Subscriptions \cup {Null}]

ASSUME BillingAssumption ==
    /\ Rows \subseteq OrgIds
    /\ Data \in [Events -> EventData]
    /\ MaxFailures \in Nat
    /\ Null \notin OrgIds \cup Customers \cup Subscriptions \cup Events
                     \cup Statuses

VARIABLES
    billing,    \* the billing columns of the rows of orgs
    claimed,    \* table stripe_webhook_events
    audited,    \* status recorded by the latest billing.status_changed event
    handler,    \* the webhook request in progress, if any
    checkout,   \* the checkout request in progress, if any
    acked,      \* events answered 2xx
    applied,    \* history: how often an event updated the billing state
    handled,    \* history: events whose dispatch returned normally
    lost,       \* history: events whose dispatch threw or was cut by a crash
    failures    \* failed queries and crashes so far

vars == <<billing, claimed, audited, handler, checkout, acked, applied,
          handled, lost, failures>>

-----------------------------------------------------------------------------
(* Pure parts of the handlers. *)

mapStripeSubscriptionStatus(s) ==
    CASE s \in {"active", "trialing"} -> "active"
      [] s \in {"past_due", "unpaid"} -> "past_due"
      [] s \in {"canceled", "incomplete_expired"} -> "canceled"
      [] OTHER -> "pending"

\* Fault: the completion of a checkout counts as a payment.
ActiveAfterCheckout(d) ==
    CASE d.type \in {"checkout.session.completed", "invoice.paid"} -> "active"
      [] OTHER -> mapStripeSubscriptionStatus(d.stripeStatus)

\* The status the handler of an event type writes.
StatusOf(d) ==
    CASE d.type = "checkout.session.completed" -> "pending"
      [] d.type = "invoice.paid" -> "active"
      [] d.type = "invoice.payment_failed" -> "past_due"
      [] d.type = "customer.subscription.deleted" -> "canceled"
      [] OTHER -> mapStripeSubscriptionStatus(d.stripeStatus)

SubscriptionOf(d) ==
    IF d.type = "customer.subscription.deleted" THEN Null ELSE d.subscription

FindOrgByCustomer(c) == {o \in Rows : billing[o].customer = c}

\* Fault: the organisation is looked up by customer only.
ResolveByCustomer(d) ==
    IF FindOrgByCustomer(d.customer) = {} THEN Null
    ELSE CHOOSE o \in FindOrgByCustomer(d.customer) : TRUE

\* At most one row carries a customer (idx_orgs_stripe_customer).
ResolveOrgId(d) ==
    IF d.org # Null THEN d.org
    ELSE IF d.customer # Null /\ FindOrgByCustomer(d.customer) # {}
    THEN CHOOSE o \in FindOrgByCustomer(d.customer) : TRUE
    ELSE Null

CurrentStatus(o) == IF o \in Rows THEN billing[o].status ELSE Null

\* The unique index refuses a customer that another row holds.
CustomerTaken(o, c) ==
    /\ o \in Rows
    /\ c # Null
    /\ \E other \in Rows \ {o} : billing[other].customer = c

\* UPDATE ... WHERE id: an organisation without a row is left unwritten.
UpsertBilling(o, row) ==
    billing' = IF o \in Rows THEN [billing EXCEPT ![o] = row] ELSE billing

-----------------------------------------------------------------------------
(* Requests. *)

HandlerPcs == {"idle", "claim", "resolve", "read", "write", "audit"}
CheckoutPcs == {"idle", "stripe", "audit"}

BillingRow == [status: Statuses, customer: Customers \cup {Null},
               subscription: Subscriptions \cup {Null}]

HandlerState == [pc: HandlerPcs, event: Events \cup {Null},
                 org: OrgIds \cup {Null}, before: Statuses \cup {Null}]

CheckoutState == [pc: CheckoutPcs, org: OrgIds \cup {Null},
                  status: Statuses \cup {Null},
                  customer: Customers \cup {Null}]

IdleHandler == [pc |-> "idle", event |-> Null, org |-> Null, before |-> Null]
IdleCheckout ==
    [pc |-> "idle", org |-> Null, status |-> Null, customer |-> Null]

Working(h) == handler[h].pc \in {"resolve", "read", "write", "audit"}

\* The handler answers 2xx: the dispatch of its event is complete.
Finish(h) ==
    /\ handler' = [handler EXCEPT ![h] = IdleHandler]
    /\ handled' = handled \cup {handler[h].event}
    /\ acked' = acked \cup {handler[h].event}

Init ==
    /\ billing = [o \in Rows |-> [status |-> "pending", customer |-> Null,
                                  subscription |-> Null]]
    /\ claimed = {}
    /\ audited = [o \in OrgIds |-> "pending"]
    /\ handler = [h \in Handlers |-> IdleHandler]
    /\ checkout = [c \in Checkouts |-> IdleCheckout]
    /\ acked = {}
    /\ applied = [e \in Events |-> 0]
    /\ handled = {}
    /\ lost = {}
    /\ failures = 0

-----------------------------------------------------------------------------
(* Webhook handler: handleWebhook, dispatchEvent, applyStatus. *)

\* Stripe posts an event, for the first time, again, or out of order.
Deliver(h, e) ==
    /\ handler[h].pc = "idle"
    /\ handler' = [handler EXCEPT ![h] = [@ EXCEPT !.pc = "claim",
                                                  !.event = e]]
    /\ UNCHANGED <<billing, claimed, audited, checkout, acked, applied,
                   handled, lost, failures>>

\* Fault: the id is recorded, but not looked up first.
ClaimUnchecked(h) ==
    /\ handler[h].pc = "claim"
    /\ claimed' = claimed \cup {handler[h].event}
    /\ handler' = [handler EXCEPT ![h].pc = "resolve"]
    /\ UNCHANGED <<billing, audited, checkout, acked, applied, handled, lost,
                   failures>>

\* Fault: a duplicate is answered with an error.
DuplicateRefused(h) ==
    /\ handler[h].pc = "claim"
    /\ handler[h].event \in claimed
    /\ handler' = [handler EXCEPT ![h] = IdleHandler]
    /\ UNCHANGED <<billing, claimed, audited, checkout, acked, applied,
                   handled, lost, failures>>

\* claimWebhookEvent inserts the id, or finds it and answers "duplicate".
ClaimNew(h) ==
    /\ handler[h].pc = "claim"
    /\ handler[h].event \notin claimed
    /\ claimed' = claimed \cup {handler[h].event}
    /\ handler' = [handler EXCEPT ![h].pc = "resolve"]
    /\ UNCHANGED <<billing, audited, checkout, acked, applied, handled, lost,
                   failures>>

ClaimDuplicate(h) ==
    /\ handler[h].pc = "claim"
    /\ handler[h].event \in claimed
    /\ handler' = [handler EXCEPT ![h] = IdleHandler]
    /\ acked' = acked \cup {handler[h].event}
    /\ UNCHANGED <<billing, claimed, audited, checkout, applied, handled,
                   lost, failures>>

\* An ignored type, or no organisation found: the event has no effect.
Drop(h) ==
    LET d == Data[handler[h].event] IN
    /\ handler[h].pc = "resolve"
    /\ d.type = "other" \/ ResolveOrgId(d) = Null
    /\ Finish(h)
    /\ UNCHANGED <<billing, claimed, audited, checkout, applied, lost,
                   failures>>

\* Fault: no check that an organisation was found.
ResolveUnchecked(h) ==
    LET d == Data[handler[h].event] IN
    /\ handler[h].pc = "resolve"
    /\ d.type # "other"
    /\ handler' = [handler EXCEPT ![h] = [@ EXCEPT !.pc = "read",
                                                  !.org = ResolveOrgId(d)]]
    /\ UNCHANGED <<billing, claimed, audited, checkout, acked, applied,
                   handled, lost, failures>>

Resolve(h) ==
    LET d == Data[handler[h].event] IN
    /\ handler[h].pc = "resolve"
    /\ d.type # "other"
    /\ ResolveOrgId(d) # Null
    /\ handler' = [handler EXCEPT ![h] = [@ EXCEPT !.pc = "read",
                                                  !.org = ResolveOrgId(d)]]
    /\ UNCHANGED <<billing, claimed, audited, checkout, acked, applied,
                   handled, lost, failures>>

ReadBefore(h) ==
    /\ handler[h].pc = "read"
    /\ handler' = [handler EXCEPT ![h] =
           [@ EXCEPT !.pc = "write",
                     !.before = CurrentStatus(handler[h].org)]]
    /\ UNCHANGED <<billing, claimed, audited, checkout, acked, applied,
                   handled, lost, failures>>

\* upsertBilling; the audit event follows only if the status read earlier
\* differs from the one just written.
ApplyStatus(h) ==
    LET d == Data[handler[h].event]
        o == handler[h].org
    IN
    /\ handler[h].pc = "write"
    /\ ~CustomerTaken(o, d.customer)
    /\ UpsertBilling(o, [status |-> StatusOf(d), customer |-> d.customer,
                         subscription |-> SubscriptionOf(d)])
    /\ applied' = [applied EXCEPT ![handler[h].event] = @ + 1]
    /\ IF handler[h].before = StatusOf(d)
       THEN Finish(h)
       ELSE /\ handler' = [handler EXCEPT ![h].pc = "audit"]
            /\ UNCHANGED <<handled, acked>>
    /\ UNCHANGED <<claimed, audited, checkout, lost, failures>>

\* Fault: the change may be audited before it is written.
AuditEarly(h) ==
    /\ handler[h].pc \in {"write", "audit"}
    /\ audited' = [audited EXCEPT ![handler[h].org] =
                       StatusOf(Data[handler[h].event])]
    /\ Finish(h)
    /\ UNCHANGED <<billing, claimed, checkout, applied, lost, failures>>

AuditStatusChange(h) ==
    /\ handler[h].pc = "audit"
    /\ audited' = [audited EXCEPT ![handler[h].org] =
                       StatusOf(Data[handler[h].event])]
    /\ Finish(h)
    /\ UNCHANGED <<billing, claimed, checkout, applied, lost, failures>>

\* Fault: the claim is released when the dispatch throws.
ThrowReleasing(h) ==
    /\ handler' = [handler EXCEPT ![h] = IdleHandler]
    /\ lost' = IF Working(h) THEN lost \cup {handler[h].event} ELSE lost
    /\ claimed' = claimed \ {handler[h].event}
    /\ UNCHANGED <<billing, audited, checkout, acked, applied, handled>>

\* The dispatch throws: the answer is 500, and the claim is kept.
Throw(h) ==
    /\ handler' = [handler EXCEPT ![h] = IdleHandler]
    /\ lost' = IF Working(h) THEN lost \cup {handler[h].event} ELSE lost
    /\ UNCHANGED <<billing, claimed, audited, checkout, acked, applied,
                   handled>>

\* The unique index on the customer refuses the update.
CustomerConflict(h) ==
    /\ handler[h].pc = "write"
    /\ CustomerTaken(handler[h].org, Data[handler[h].event].customer)
    /\ Throw(h)
    /\ UNCHANGED failures

\* A query is pending: resolving by the event's own fields needs none.
QueryPending(h) ==
    LET d == Data[handler[h].event] IN
    \/ handler[h].pc \in {"claim", "read", "write", "audit"}
    \/ /\ handler[h].pc = "resolve"
       /\ d.type # "other" /\ d.org = Null /\ d.customer # Null

QueryFails(h) ==
    /\ QueryPending(h)
    /\ failures < MaxFailures
    /\ failures' = failures + 1
    /\ Throw(h)

-----------------------------------------------------------------------------
(* Checkout request: createCheckoutSession. *)

ReadExisting(c, o) ==
    /\ checkout[c].pc = "idle"
    /\ checkout' = [checkout EXCEPT ![c] =
           [pc |-> "stripe", org |-> o, status |-> CurrentStatus(o),
            customer |-> IF o \in Rows THEN billing[o].customer ELSE Null]]
    /\ UNCHANGED <<billing, claimed, audited, handler, acked, applied,
                   handled, lost, failures>>

\* Stripe answers with the customer it was given, or with none.  The row is
\* updated with what was read before the call; the subscription is kept.
SaveCheckout(c) ==
    LET o == checkout[c].org IN
    /\ checkout[c].pc = "stripe"
    /\ ~CustomerTaken(o, checkout[c].customer)
    /\ checkout' = [checkout EXCEPT ![c].pc = "audit"]
    /\ UpsertBilling(o,
           [status |-> IF checkout[c].status = "active" THEN "active"
                       ELSE "pending",
            customer |-> checkout[c].customer,
            subscription |-> billing[o].subscription])
    /\ UNCHANGED <<claimed, audited, handler, acked, applied, handled, lost,
                   failures>>

\* The billing.checkout_created audit event (the trail of status changes is
\* not touched), then the answer with the URL of the session.
AnswerCheckout(c) ==
    /\ checkout[c].pc = "audit"
    /\ checkout' = [checkout EXCEPT ![c] = IdleCheckout]
    /\ UNCHANGED <<billing, claimed, audited, handler, acked, applied,
                   handled, lost, failures>>

\* Stripe refuses, the session has no URL, or the unique index refuses.
CheckoutFails(c) ==
    /\ checkout[c].pc = "stripe"
    /\ checkout' = [checkout EXCEPT ![c] = IdleCheckout]
    /\ UNCHANGED <<billing, claimed, audited, handler, acked, applied,
                   handled, lost, failures>>

-----------------------------------------------------------------------------
\* The process dies: the requests vanish, the database stays.
Crash ==
    /\ failures < MaxFailures
    /\ failures' = failures + 1
    /\ handler' = [h \in Handlers |-> IdleHandler]
    /\ checkout' = [c \in Checkouts |-> IdleCheckout]
    /\ lost' = lost \cup
                   {handler[h].event : h \in {x \in Handlers : Working(x)}}
    /\ UNCHANGED <<billing, claimed, audited, acked, applied, handled>>

\* The steps a handler takes by itself once it has received an event.
Serve(h) ==
    \/ ClaimNew(h)
    \/ ClaimDuplicate(h)
    \/ Drop(h)
    \/ Resolve(h)
    \/ ReadBefore(h)
    \/ ApplyStatus(h)
    \/ CustomerConflict(h)
    \/ AuditStatusChange(h)

Next ==
    \/ \E h \in Handlers, e \in Events : Deliver(h, e)
    \/ \E h \in Handlers : Serve(h) \/ QueryFails(h)
    \/ \E c \in Checkouts, o \in OrgIds : ReadExisting(c, o)
    \/ \E c \in Checkouts :
           SaveCheckout(c) \/ AnswerCheckout(c) \/ CheckoutFails(c)
    \/ Crash

Spec == Init /\ [][Next]_vars

\* A handler that received an event runs to its end; Stripe keeps sending an
\* event that was not answered 2xx.
Fairness ==
    /\ \A h \in Handlers : WF_vars(Serve(h))
    /\ \A e \in Events :
           SF_vars(e \notin acked /\ \E h \in Handlers : Deliver(h, e))

FairSpec == Spec /\ Fairness

-----------------------------------------------------------------------------
(* Properties. *)

TypeOK ==
    /\ billing \in [Rows -> BillingRow]
    /\ claimed \subseteq Events
    /\ audited \in [OrgIds -> Statuses]
    /\ handler \in [Handlers -> HandlerState]
    /\ \A h \in Handlers :
           /\ handler[h].pc # "idle" => handler[h].event \in Events
           /\ handler[h].pc \in {"read", "write", "audit"}
                  => handler[h].org \in OrgIds
    /\ checkout \in [Checkouts -> CheckoutState]
    /\ \A c \in Checkouts :
           checkout[c].pc # "idle" => checkout[c].org \in OrgIds
    /\ acked \subseteq Events
    /\ applied \in [Events -> Nat]
    /\ handled \subseteq Events
    /\ lost \subseteq Events
    /\ failures \in 0 .. MaxFailures

\* No event updates the billing state twice, however often Stripe repeats it,
\* whatever fails in between: what claimWebhookEvent is for.
AtMostOnce == \A e \in Events : applied[e] <= 1

WorkingOn(h, e) == Working(h) /\ handler[h].event = e

InProgress(e) == \E h \in Handlers : WorkingOn(h, e)

\* A claimed event is in exactly one place: with one handler, handled, or
\* lost.  An event answered 2xx was claimed, and an effect implies a claim.
EveryClaimAccountedFor ==
    \A e \in Events :
        /\ \A g, h \in Handlers : WorkingOn(g, e) /\ WorkingOn(h, e) => g = h
        /\ e \in claimed <=> InProgress(e) \/ e \in handled \/ e \in lost
        /\ InProgress(e) => e \notin handled \cup lost
        /\ e \notin handled \cap lost
        /\ (e \in acked \/ applied[e] > 0) => e \in claimed

\* A repeated event that is refused has been processed, or is being processed:
\* claimWebhookEvent is "true if newly claimed (process); false if already
\* processed (idempotent)" (store/domain-store.ts:107).  The claim is kept when
\* the dispatch fails, so the code does otherwise.
RefusedIsProcessed == \A e \in acked : e \in handled \/ InProgress(e)

PaymentEvent(d) ==
    \/ d.type = "invoice.paid"
    \/ /\ d.type \in {"customer.subscription.updated",
                     "customer.subscription.created"}
       /\ d.stripeStatus \in {"active", "trialing"}

\* A payment that names this organisation, or none, has taken effect.
PaidFor(o) ==
    \E e \in Events : /\ applied[e] > 0
                      /\ PaymentEvent(Data[e])
                      /\ Data[e].org \in {o, Null}

\* No organisation is active unless a payment for it has taken effect, whatever
\* checkouts and webhooks overlap or fail: what a checkout writes back over the
\* row, it has read there (createCheckoutSession, applyStatus).
ActiveWasPaid ==
    \A o \in Rows : billing[o].status = "active" => PaidFor(o)

\* An organisation becomes active only while a handler serves it an
\* invoice.paid, or a subscription that Stripe calls active ("Pending until
\* invoice.paid / subscription active", billing.service.core.ts:336).  A
\* checkout that read "active" before its call to Stripe writes it again after
\* a cancellation, so the code does otherwise.
ActiveOnlyOnPayment ==
    [][\A o \in Rows :
           billing[o].status # "active" /\ billing'[o].status = "active"
           => \E h \in Handlers : /\ handler[h].pc = "write"
                                 /\ handler[h].org = o
                                 /\ PaymentEvent(Data[handler[h].event])]_vars

\* The audit trail never runs ahead: the status it records last for an
\* organisation is the one it started with, or one that an event has written,
\* whatever other handlers did and whatever failed in between.
AuditNeverAhead ==
    \A o \in OrgIds :
        \/ audited[o] = "pending"
        \/ \E e \in Events : applied[e] > 0 /\ StatusOf(Data[e]) = audited[o]

\* Every event is in the end answered 2xx, so that Stripe stops repeating it.
EveryEventAcked == \A e \in Events : <>(e \in acked)

Addressed(e) == Data[e].type # "other" /\ Data[e].org # Null

\* Every event that names its organisation in the end takes effect, unless its
\* dispatch failed after the claim: no early return and no order of the events
\* drops it.
EveryAddressedEventApplied ==
    \A e \in Events : Addressed(e) => <>(applied[e] > 0 \/ e \in lost)

=============================================================================
