\* One webhook request, one event, one failed query: the repetition is refused.
SPECIFICATION Spec
CONSTANTS
    acme = acme
    nova = nova
    ghost = ghost
    cus = cus
    cus2 = cus2
    sub = sub
    sub2 = sub2
    completed = completed
    paid = paid
    updated = updated
    deleted = deleted
    other = other
    Null = Null
    h1 = h1
    OrgIds = {acme, nova, ghost}
    Rows = {acme, nova}
    Customers = {cus, cus2}
    Subscriptions = {sub, sub2}
    Events = {completed}
    Data <- MCData
    Handlers = {h1}
    Checkouts = {}
    MaxFailures = 1
INVARIANT
    RefusedIsProcessed
