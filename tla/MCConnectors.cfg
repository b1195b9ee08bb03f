\* One page, other browsers and restarts; an OAuth connector and one with a role.
SPECIFICATION Spec
CONSTANTS
    Null = Null
    Providers = {entra, aws}
    RoleProviders = {aws}
    MaxEvidence = 2
INVARIANTS
    OffUntilAsked
    CollectedIsStale
    GridTellsTruth
