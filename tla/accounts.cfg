SPECIFICATION MCSpec
CONSTANTS
    u1 = u1
    u2 = u2
    t1 = t1
    t2 = t2
    h1 = h1
    h2 = h2
    None = None
    Gone = Gone
    Users = {u1, u2}
    Tokens = {t1, t2}
    Handlers = {h1, h2}
    Ops = {"login", "refresh", "expire", "create", "update", "delete", "password", "revokeSession", "revokeTokens", "hangUp"}
    Ttl = 1
    LockFor = 1
    MaxAttempts = 1
    MaxNow = 1
    MaxGeneration = 2
    MaxCalls = 3
    Width <- FamilyWidths
    MaxPrefix = 4
SYMMETRY Symmetry
CHECK_DEADLOCK FALSE
INVARIANT AdminRemains
INVARIANT AcceptableTokenIsCurrent
INVARIANT ContractHolds
INVARIANT TrustIsAsConfigured
PROPERTY LockoutHolds
PROPERTY RevokedWithinTtl
PROPERTY ImplementsTokenAuthority
