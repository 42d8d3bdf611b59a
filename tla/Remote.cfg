\* Three calls on one shell, commands that print for ever; a command on two hosts, one at a
\* time, output past the cap; two calls that write one path, within two seconds.
SPECIFICATION RemoteSpec
CONSTANTS
    r1 = r1
    r2 = r2
    r3 = r3
    Runs = {r1, r2, r3}
    Window = 1
    Limit = 1
    Hosts = {h1, h2}
    Concurrency = 1
    Cap = 1
    Pipe = 2
    MaxOut = 2
    w1 = w1
    w2 = w2
    Writers = {w1, w2}
    Original = old
    Absent = Absent
    MaxFile = 1
    MaxClock = 1
INVARIANTS
    RemoteTypeOK
    OwnOutput
    SaysWhatItCut
    BackedUp
PROPERTIES
    DestroyedRunsNothing
    EveryRunEnds
    EveryHostAnswers
CHECK_DEADLOCK FALSE
