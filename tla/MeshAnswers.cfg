\* Calls under fair scheduling; guests the worker runs do not use the mesh
SPECIFICATION FairSpec
CONSTANTS
    Alias = {a1}
    NoAlias = NoAlias
    Client = {c1, c2}
    Forked = {}
    Worker = Worker
    NoTask = NoTask
    Capacity = 1
    MaxDepth = 5
    InputDepth = {0, 5}
    MaxFuel = 2
    MaxRequests = 2
    ClientOps = {"execute", "snapshot", "call", "disconnect"}
    GuestOps = {"invoke"}
    WorkerGuestOps = {}
PROPERTIES
    EveryCallAnswered
\* Clients may stop sending requests, and their number is bounded.
CHECK_DEADLOCK FALSE
