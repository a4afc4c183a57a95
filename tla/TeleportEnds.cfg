\* Overlapping teleports, a failing network and clients that hang up
SPECIFICATION FairSpec
CONSTANTS
    Agent = {a1, a2}
    Movable = {a1, a2}
    Request = {r1, r2}
    Path = {"stream", "registry"}
    Chunks = 2
    MaxRuns = 1
    Circumstances = {"overlap", "network", "hangup", "fork", "restart"}
    NoAgent = NoAgent
    Garbage = Garbage
\* Every request is made once and the executions are bounded: it all ends.
CHECK_DEADLOCK FALSE
PROPERTIES
    EveryTeleportEnds
