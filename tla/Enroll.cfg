\* The gateway alone: three registrations of two nodes, and a crash at any step.
SPECIFICATION Spec
CONSTANTS
    Nodes = {n1, n2}
    Requests = {r1, r2, r3}
    Commands = {}
    Keys = {k1, k2}
    MaxTime = 3
    Modes = {"open"}
    MaxRestarts = 1
    None = None
    Torn = Torn
    Tool = Tool
SYMMETRY Interchangeable
INVARIANTS
    WritesSeen
    BrokenNodeGone
