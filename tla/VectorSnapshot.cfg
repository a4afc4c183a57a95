\* One agent that remembers something and is resumed
SPECIFICATION Spec
CONSTANTS
    a1 = a1
    i1 = i1
    Agent = {a1}
    Id = {i1}
    Cap = 1
    MaxWrites = 1
    MaxLayers = 1
    MayResume = TRUE
SYMMETRY Symmetry
\* All agents may be dropped, and the writes are bounded.
CHECK_DEADLOCK FALSE
INVARIANTS
    SnapshotKeepsMemory
