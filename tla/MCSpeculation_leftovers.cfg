\* A speculation with one failed write.
SPECIFICATION Spec
CONSTANTS
    Name = {n1, n2}
    None = None
    MaxEvents = 2
    MaxFailures = 1
SYMMETRY NameSymmetry
INVARIANT FailedWritesLeaveNothing
