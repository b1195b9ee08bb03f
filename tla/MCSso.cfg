\* One settings page, two requests at a time, one login whose callback may arrive twice.
SPECIFICATION Spec
CONSTANTS
    Null = Null
    Providers = {p1, p2}
    Configs = {oidc}
    NeedsSecret = {oidc}
    Users = {boss}
    Founders = {boss}
    FirstRoles <- MCFirstRoles
    Requests = {r1, r2}
    Presets = {oidc}
    Flows = {f1}
    Callbacks = {c1}
    Owner = boss
    Appointable <- MCAppointable
    Typed = {TRUE}
SYMMETRY Interchangeable
INVARIANTS
    TypeOK
    RevokedForGood
    OneSessionPerLogin
    RolesAreAppointed
    BadgeTellsTruth
