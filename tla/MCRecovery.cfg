\* Snapshot and restore, damage and repair, backup and crash.
SPECIFICATION Spec
CONSTANTS
    Event = {u1, u2, u3, u4}
    Thing = {x, y, k, r}
    x = x
    y = y
    k = k
    r = r
    Null = Null
    Activities <- AllActivities
CHECK_DEADLOCK FALSE
INVARIANTS FileSound DamageHandled RestoreExact StreamsJudged BackupSafe
PROPERTY NeverOverwritten
