\* A guest the worker runs calls another agent
SPECIFICATION FairSpec
CONSTANTS
    Alias = {a1}
    NoAlias = NoAlias
    Client = {c1, c2}
    Forked = {}
    Worker = Worker
    NoTask = NoTask
    Capacity = 1
    MaxDepth = 5
    InputDepth = {0}
    MaxFuel = 2
    MaxRequests = 2
    ClientOps = {"execute", "call"}
    GuestOps = {}
    WorkerGuestOps = {"invoke"}
PROPERTIES
    EveryCallAnswered
\* Clients may stop sending requests, and their number is bounded.
CHECK_DEADLOCK FALSE
