\* A component that is a lookup, resolved anew by every page and on every view.
SPECIFICATION Spec
CONSTANTS
    Event = {u1, u2, u3, u4}
    Thing = {x, y, z, k, r}
    x = x
    y = y
    z = z
    k = k
    r = r
    Null = Null
    Writes <- KeyWrites
    Excisable = {x}
    Requests <- LookupRequests
    Queries = {}
    MaxTx = 3
CHECK_DEADLOCK FALSE
INVARIANT PagesOfOneBasis
