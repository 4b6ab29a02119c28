\* A speculation of up to MaxEvents events beside another process.
SPECIFICATION Spec
CONSTANTS
    Name = {n1, n2, n3}
    None = None
    MaxEvents = 4
    MaxFailures = 3
SYMMETRY NameSymmetry
INVARIANTS GhostsStayOut CacheSound LeftoversApart ViewIsReported
