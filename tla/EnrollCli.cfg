\* In each mode, two registrations of one node while the administrator edits and removes it.
SPECIFICATION FairSpec
CONSTANTS
    Nodes = {n1}
    Requests = {r1, r2}
    Commands = {cli1}
    Keys = {k1}
    MaxTime = 1
    Modes = {"open", "approve"}
    MaxRestarts = 1
    None = None
    Torn = Torn
    Tool = Tool
INVARIANTS
    ApprovedOnly
PROPERTIES
    RegisterAnswered
    TornOnlyByTwo
