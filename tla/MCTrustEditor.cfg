\* The page of one editor, and another client of its center, with failures.
SPECIFICATION EditorSpec
CONSTANTS
    acme = acme
    r1 = r1
    r2 = r2
    Null = Null
    Centers = {acme}
    Attested = {acme}
    Seed <- MCSeed
    Patches <- MCPatches
    Requests = {r1, r2}
    MayFail = TRUE
    Edited = acme
CONSTRAINT MCForm
SYMMETRY MCSymmetry
INVARIANTS
    EditorTellsTruth
