\* A patch that overlaps a withdrawal makes the center public again.
SPECIFICATION Spec
CONSTANTS
    acme = acme
    nova = nova
    demo = demo
    r1 = r1
    r2 = r2
    Null = Null
    Centers = {nova}
    Attested = {}
    Seed <- MCSeed
    Patches <- MCPatches
    Requests = {r1, r2}
    MayFail = FALSE
PROPERTIES
    OnlyByPublish
