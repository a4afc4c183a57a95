\* Agents that write, forget, spawn, resume and go away
SPECIFICATION Spec
CONSTANTS
    a1 = a1
    a2 = a2
    a3 = a3
    i1 = i1
    Agent = {a1, a2, a3}
    Id = {i1}
    Cap = 1
    MaxWrites = 3
    MaxLayers = 5
    MayResume = TRUE
SYMMETRY Symmetry
\* All agents may be dropped, and the writes are bounded.
CHECK_DEADLOCK FALSE
INVARIANTS
    TypeOK
    RecallsRemembered
    ForgottenStaysForgotten
    KnowledgeDiverges
    HeldLayersStayOnDisk
