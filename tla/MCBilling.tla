----------------------------- MODULE MCBilling -----------------------------
(* Small instances of BillingWebhooks: what the events of a run carry.     *)
EXTENDS BillingWebhooks

CONSTANTS acme, nova, ghost, cus, cus2, sub, sub2,
          completed, paid, updated, deleted, other

Carry(type, status, org, customer, subscription) ==
    [type |-> type, stripeStatus |-> status, org |-> org,
     customer |-> customer, subscription |-> subscription]

\* One subscription of acme; invoices name no organisation, as Stripe sends
\* them, but the one of nova does, and another row may hold its customer.
MCData ==
    [e \in Events |->
        CASE e = completed -> Carry("checkout.session.completed", "active",
                                    acme, cus, sub)
          [] e = paid -> Carry("invoice.paid", "active", Null, cus, sub)
          [] e = updated -> Carry("customer.subscription.updated", "trialing",
                                  acme, cus, sub)
          [] e = deleted -> Carry("customer.subscription.deleted", "canceled",
                                  acme, cus, sub)
          [] e = other -> Carry("invoice.paid", "active", nova, cus, sub2)]
=============================================================================
