\* Replicas made by deployments, top-ups and forks, woken by calls
SPECIFICATION Spec
CONSTANTS
    Alias = {a1, a2}
    NoAlias = NoAlias
    Client = {c1}
    Forked = {f1}
    Worker = Worker
    NoTask = NoTask
    Capacity = 1
    MaxDepth = 5
    InputDepth = {0}
    MaxFuel = 1
    MaxRequests = 3
    ClientOps = {"execute", "snapshot", "topup", "call", "disconnect"}
    GuestOps = {"fork"}
    WorkerGuestOps = {}
SYMMETRY Symmetry
INVARIANTS
    HibernatingIsStored
PROPERTIES
    ImplementsStore
\* Clients may stop sending requests, and their number is bounded.
CHECK_DEADLOCK FALSE
