\* Pages and queries beside writers.
SPECIFICATION Spec
CONSTANTS
    Event = {u1, u2, u3, u4}
    Thing = {x, y, z, k, r}
    x = x
    y = y
    z = z
    k = k
    r = r
    Null = Null
    Writes <- AllWrites
    Excisable = {x}
    Requests <- AllRequests
    Queries <- AllQueries
    MaxTx = 4
CHECK_DEADLOCK FALSE
INVARIANTS QueryMeaning PagesComplete
PROPERTY AsOfStable
