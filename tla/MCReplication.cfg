SPECIFICATION Spec
CONSTANTS
    p1 = p1
    p2 = p2
    p3 = p3
    e1 = e1
    e2 = e2
    a = a
    v1 = v1
    v2 = v2
    Peer = {p1, p2, p3}
    Ent = {e1, e2}
    Attr = {a}
    Val = {v1, v2}
    Idle = Idle
    Workloads <- PeerLoads
    MaxImports = 1
SYMMETRY PeerSymmetry
INVARIANTS Converged ReplicaContinues AppliedOnce
PROPERTY LogsSafe
