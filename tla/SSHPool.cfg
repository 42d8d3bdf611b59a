\* Three nodes, each reached through the one before it: three calls at once and two
\* connections in the life of a process; two calls and three connections; or two calls for
\* the first two nodes and four connections.
SPECIFICATION PoolSpec
CONSTANTS
    bastion = bastion
    web = web
    db = db
    p1 = p1
    p2 = p2
    p3 = p3
    c1 = c1
    c2 = c2
    c3 = c3
    c4 = c4
    Nodes = {bastion, web, db}
    Jump <- Chain
    Tasks = {p1, p2, p3}
    Conns = {c1, c2, c3, c4}
    None = None
INVARIANTS
    SingleFlight
    ThroughJump
PROPERTIES
    CacheOfConnections
    Answered
