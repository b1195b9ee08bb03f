\* Two webhook requests, one checkout, one failure or crash; fair.
SPECIFICATION FairSpec
CONSTANTS
    acme = acme
    nova = nova
    ghost = ghost
    cus = cus
    cus2 = cus2
    sub = sub
    sub2 = sub2
    completed = completed
    paid = paid
    updated = updated
    deleted = deleted
    other = other
    Null = Null
    h1 = h1
    h2 = h2
    c1 = c1
    OrgIds = {acme, nova, ghost}
    Rows = {acme, nova}
    Customers = {cus, cus2}
    Subscriptions = {sub, sub2}
    Events = {completed, paid, other}
    Data <- MCData
    Handlers = {h1, h2}
    Checkouts = {c1}
    MaxFailures = 1
INVARIANTS
    TypeOK
    AtMostOnce
    EveryClaimAccountedFor
    AuditNeverAhead
    ActiveWasPaid
PROPERTIES
    EveryEventAcked
    EveryAddressedEventApplied
