\* A code outlives the revocation of its client.
SPECIFICATION GrantsSpec
CONSTANTS
    dcr = dcr
    cimd = cimd
    k1 = k1
    k2 = k2
    t1 = t1
    t2 = t2
    t3 = t3
    read = read
    exec = exec
    Clients = {dcr}
    CimdClients = {}
    Codes = {k1}
    Tokens = {t1, t2, t3}
    Permissions = {read}
    Offline = Offline
    Unknown = Unknown
    None = None
    CodeTTL = 0
    RefreshTTL = 0
    CodeKeep = 1
    TokenKeep = 1
    MaxNow = 2
SYMMETRY TokensAndPermissions
INVARIANT
    RevokedClientHoldsNothing
