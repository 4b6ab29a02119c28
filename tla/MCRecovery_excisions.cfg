SPECIFICATION Spec
CONSTANTS
    Event = {u1, u2, u3, u4}
    Thing = {x, y, k, r}
    x = x
    y = y
    k = k
    r = r
    Null = Null
    Activities <- ExcisionActivities
CHECK_DEADLOCK FALSE
INVARIANT DoctorNeverAlarms
