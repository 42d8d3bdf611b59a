\* A stale shell and a newer one share the pin of their node.
SPECIFICATION SpecHandles
CONSTANTS
    bastion = bastion
    web = web
    p1 = p1
    p2 = p2
    p3 = p3
    c1 = c1
    c2 = c2
    c3 = c3
    Nodes = {web}
    Jump <- NoJump
    Tasks = {p1, p2, p3}
    Conns = {c1, c2, c3}
    Kinds = {"shell", "tunnel"}
    MaxShells = 2
    MaxSubs = 1
    MaxTunnels = 1
    Token <- Admin
    Grants <- AllGranted
    None = None
SYMMETRY Interchangeable
PROPERTIES
    HeldConnNotReaped
