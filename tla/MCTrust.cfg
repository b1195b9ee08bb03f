\* Two overlapping requests, with patches and failures, an attested and an unattested draft.
SPECIFICATION Spec
CONSTANTS
    acme = acme
    nova = nova
    demo = demo
    r1 = r1
    r2 = r2
    Null = Null
    Centers = {acme, demo}
    Attested = {acme}
    Seed <- MCSeed
    Patches <- MCPatches
    Requests = {r1, r2}
    MayFail = TRUE
SYMMETRY MCSymmetry
INVARIANTS
    TypeOK
    NeverPublicUnattested
    AuditTellsTruth
PROPERTIES
    GatedPublication
    LifecycleSpec
