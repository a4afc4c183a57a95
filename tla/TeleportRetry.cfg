\* A stream that fails and another one after it
SPECIFICATION Spec
CONSTANTS
    Agent = {a1, a2}
    Movable = {a1, a2}
    Request = {r1, r2}
    Path = {"stream"}
    Chunks = 2
    MaxRuns = 1
    Circumstances = {"network"}
    NoAgent = NoAgent
    Garbage = Garbage
\* Every request is made once and the executions are bounded: it all ends.
CHECK_DEADLOCK FALSE
INVARIANTS
    Authentic
