\* Two overlapping requests on one incident of two steps, with failures and crashes.
SPECIFICATION Spec
CONSTANTS
    acme = acme
    nova = nova
    e1 = e1
    i1 = i1
    notify = notify
    report = report
    r1 = r1
    r2 = r2
    Null = Null
    Incidents = {i1}
    Steps = {notify, report}
    RequiresEvidence = {report}
    Orgs = {acme, nova}
    Evidence = {e1}
    EvidenceOrg <- MCEvidenceOrg
    SeedEvidence = {}
    Requests = {r1, r2}
    MayFail = TRUE
SYMMETRY MCSymmetry
CONSTRAINT MCChanges
INVARIANTS
    TypeOK
    EvidenceBacked
    LinksSameOrg
    CommitsAccounted
PROPERTIES
    LinksKept
    LifecycleSpec
