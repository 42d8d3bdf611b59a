\* One job, a client that polls it and one that kills and purges it, a restart of the node;
\* a subscription with a ring of two lines and pages of one; a job's log with
\* characters of one byte and of two;
\* a connection to the proxy; an address at the login form and at the enrollment gate;
\* a client and two callbacks, one a prefix of the other, a list of one row.
SPECIFICATION FairSpec
CONSTANTS
    pub1 = pub1
    pub2 = pub2
    priv = priv
    MaxLine = 2
    Ring = 2
    PageLimit = 1
    MaxLines = 6
    Chunks <- SomeChunks
    Alphabet = {"a", "n", "h", "t"}
    MaxBytes = 2
    MaxLog = 6
    Public = {pub1, pub2}
    Private = {priv}
    MaxData = 2
    None = None
    Ips = {i1}
    Free = 2
    LoginExp = 3
    EnrollExp = 3
    LoginCap = 9
    EnrollCap = 7
    MaxFails = 4
    j1 = j1
    c1 = c1
    c2 = c2
    Ids = {j1}
    Pollers = {c1}
    Admins = {c2}
    MaxReboots = 1
    top = top
    sub = sub
    Uris = {top, sub}
    Configured = {}
    Accepts <- Under
    Like <- Under
    Matches <- Exact
    Apps = {a1}
    ListCap = 1
    Nil = Nil
INVARIANTS
    PartsTypeOK
    RefusedListed
    ReportsTrue
    PurgedOver
    LinesOfInput
    LossCounted
    GapFree
    OnlyPublic
    NothingCutOff
    NoFailureForgotten
PROPERTIES
    FinishedFinal
    Settles
    SentAllowed
    ReaderCatchesUp
    TunnelEnds
    SpacedGuesses
CHECK_DEADLOCK FALSE
