SPECIFICATION Spec
CONSTANTS
    h1 = h1
    h2 = h2
    c1 = c1
    c2 = c2
    c3 = c3
    a = a
    b = b
    None = None
    Handle = {h1, h2}
    Caller = {c1, c3}
    HandleOf <- MCHandleOf
    Name = {a, b}
    Requests <- ImportRequests
    CommitMayFail = {"transact", "apply"}
    MaxEvents = 3
    MaxFailures = 1
INVARIANT FactsNameRightEntity
