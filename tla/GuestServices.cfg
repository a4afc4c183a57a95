\* Two tenants, two executions, every service
SPECIFICATION Spec
CONSTANTS
    e1 = e1
    e2 = e2
    t1 = t1
    t2 = t2
    Exec = {e1, e2}
    Tenant = {t1, t2}
    Url = {u1, u2}
    Allowed = {u1}
    Prompt = {p1}
    Cartridge = {c1}
    Session = {s1}
    Caller = {d1, d2}
    Limit = {2}
    Budget = 2
    FetchCost = 2
    ResponseCost = 1
    PredictCost = 1
    LoadCost = 1
    MaxCalls = 3
    MaxInfers = 2
    None = None
SYMMETRY Symmetry
INVARIANTS
    TypeOK
    Replays
    TenantsApart
    EgressWithinQuota
    ServicesArePaid
    HistoryInOrder
\* Executions and calls are bounded: it all ends.
CHECK_DEADLOCK FALSE
