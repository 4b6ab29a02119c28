SPECIFICATION Spec
CONSTANTS
    e1 = e1
    e2 = e2
    k = k
    u = u
    v1 = v1
    v2 = v2
    None = None
    Ent = {e1, e2}
    Attr = {k, u}
    Val = {v1, v2}
    Workloads <- ReferenceLoads
PROPERTY MembersFit
