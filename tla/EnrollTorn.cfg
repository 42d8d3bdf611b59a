\* The gateway and `vpsmcp node` write one entry at once.
SPECIFICATION Spec
CONSTANTS
    Nodes = {n1}
    Requests = {r1, r2}
    Commands = {cli1}
    Keys = {k1}
    MaxTime = 1
    Modes = {"open"}
    MaxRestarts = 0
    None = None
    Torn = Torn
    Tool = Tool
INVARIANTS
    NeverTorn
