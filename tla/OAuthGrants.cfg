\* One consent through its whole life: one permission and
\* offline_access, three refresh tokens, crashes, garbage collection,
\* `vpsmcp revoke`, and a clock that outlives every row; or, while no time passes, two
\* clients, one of which may hold a secret, and two refresh tokens.
SPECIFICATION GrantsSpec
CONSTANTS
    dcr = dcr
    cimd = cimd
    k1 = k1
    k2 = k2
    t1 = t1
    t2 = t2
    t3 = t3
    read = read
    exec = exec
    Clients = {dcr, cimd}
    CimdClients = {cimd}
    Codes = {k1}
    Tokens = {t1, t2, t3}
    Permissions = {read}
    Offline = Offline
    Unknown = Unknown
    None = None
    CodeTTL = 0
    RefreshTTL = 0
    CodeKeep = 1
    TokenKeep = 1
    MaxNow = 2
SYMMETRY TokensAndPermissions
INVARIANTS
    OneLivePerFamily
    KilledFamilyStaysDead
    TokenWithinGrant
    PkceAtIssue
    OwnerAuthenticated
PROPERTIES
    GrantLifecycle
