\* Undisturbed teleports, and the registry path in trouble
SPECIFICATION SceneSpec
CONSTANTS
    r3 = r3
    Agent = {a1, a2}
    Movable = {a1}
    Request = {r1, r2, r3}
    Path = {"stream", "registry"}
    Chunks = 2
    MaxRuns = 2
    Circumstances = {}
    NoAgent = NoAgent
    Garbage = Garbage
\* Every request is made once and the executions are bounded: it all ends.
CHECK_DEADLOCK FALSE
INVARIANTS
    TypeOK
    QuietHandoff
    Authentic
    Survives
