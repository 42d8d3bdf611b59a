\* A node is registered again, and that fails.
SPECIFICATION Spec
CONSTANTS
    Nodes = {n1}
    Requests = {r1, r2}
    Commands = {}
    Keys = {k1, k2}
    MaxTime = 2
    Modes = {"open"}
    MaxRestarts = 0
    None = None
    Torn = Torn
    Tool = Tool
SYMMETRY Interchangeable
PROPERTIES
    FailureRollsBack
