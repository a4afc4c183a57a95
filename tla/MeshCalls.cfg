\* Deployments and calls, nested ones included, of two clients
SPECIFICATION Spec
CONSTANTS
    Alias = {a1}
    NoAlias = NoAlias
    Client = {c1, c2}
    Forked = {}
    Worker = Worker
    NoTask = NoTask
    Capacity = 1
    MaxDepth = 5
    InputDepth = {0}
    MaxFuel = 2
    MaxRequests = 3
    ClientOps = {"execute", "call", "disconnect"}
    GuestOps = {"invoke", "packet"}
    WorkerGuestOps = {"invoke", "packet"}
SYMMETRY Symmetry
INVARIANTS
    TypeOK
    NoTimeTravel
    QuietAliasIsCallable
    WithinBudget
PROPERTIES
    AliasNeverLost
\* Clients may stop sending requests, and their number is bounded.
CHECK_DEADLOCK FALSE
