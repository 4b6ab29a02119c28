---- MODULE MCRecovery ----
(* One entity that refers to another, a text attribute that may give up its
   history, and a reference attribute. *)
EXTENDS Recovery

CONSTANTS x, y, k, r

Put_(e, a, tag, v) == [e |-> e, a |-> a, tag |-> tag, v |-> v, origin |-> 0]
Imported(w) == [w EXCEPT !.origin = 5]

Short == Put_(x, k, "text", 1)
Long == Put_(x, k, "textref", 2)
Other == Put_(y, k, "textref", 2)
Refers == Put_(x, r, "ref", y)
Clear == Put_(x, k, "none", 0)
Forget == Put_(k, NoHistory, "bool", 1)

SnapshotActivity == [kind |-> "snapshot", excise |-> {x}, maxTx |-> 4, pages |-> 1,
                     writes |-> {Short, Long, Imported(Other), Refers, Clear, Forget}]
DamageActivity == [kind |-> "damage", excise |-> {x}, maxTx |-> 3, pages |-> 1,
                   writes |-> {Short, Long, Imported(Other), Refers, Clear, Forget}]
BackupActivity == [kind |-> "backup", excise |-> {x}, maxTx |-> 2, pages |-> 2,
                   writes |-> {Long, Other}]
ExcisionActivity == [kind |-> "snapshot", excise |-> {x}, maxTx |-> 4, pages |-> 1,
                     writes |-> {Short, Refers}]
AllActivities == {SnapshotActivity, DamageActivity, BackupActivity}
ExcisionActivities == {ExcisionActivity}
====
