\* Two calls for one node, which may become handles of each kind, connections lost
\* and replaced under them.  No symmetry: liveness is checked too.
SPECIFICATION FairHandles
CONSTANTS
    bastion = bastion
    web = web
    p1 = p1
    p2 = p2
    p3 = p3
    c1 = c1
    c2 = c2
    c3 = c3
    Nodes = {web}
    Jump <- NoJump
    Tasks = {p1, p2}
    Conns = {c1, c2, c3}
    Kinds = {"shell", "log", "tunnel"}
    MaxShells = 2
    MaxSubs = 1
    MaxTunnels = 1
    Token <- OneAdmin
    Grants <- Removable
    None = None
INVARIANTS
    NoPinLeak
PROPERTIES
    Drains
