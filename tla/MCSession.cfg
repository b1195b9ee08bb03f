\* Two requests, two links of one user, two sessions; failures and restarts.
SPECIFICATION Spec
CONSTANTS
    alice = alice
    bob = bob
    t1 = t1
    t2 = t2
    s1 = s1
    s2 = s2
    acme = acme
    fresh = fresh
    r1 = r1
    r2 = r2
    Null = Null
    Users = {alice}
    Tokens = {t1, t2}
    TokenUser <- MCTokenUser
    Sessions = {s1, s2}
    Orgs = {acme, fresh}
    SeedOrgs = {acme}
    Requests = {r1, r2}
    MayFail = TRUE
INVARIANTS
    TypeOK
    LinksOneShot
    GateNeedsOnboarding
PROPERTIES
    EndedForGood
SYMMETRY Symmetry
