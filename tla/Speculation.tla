----------------------------- MODULE Speculation -----------------------------
(***************************************************************************)
(* Speculate: a callback writes and reads on a view of the database inside *)
(* one SAVEPOINT of the handle's connection, and everything is rolled back *)
(* when it returns.  The view shares the handle's cache of entity names,   *)
(* which SQLite does not roll back.  Another process commits meanwhile.    *)
(*                                                                         *)
(* As in Handles a transaction writes one fact on the entity called n.     *)
(* SQLite is external: a savepoint takes its snapshot with its first read  *)
(* and the writer lock with its first write, which fails when another      *)
(* connection has committed since the snapshot.  The ordinary calls of the *)
(* handle, whose interleavings are the subject of Handles, are one step.   *)
(***************************************************************************)
EXTENDS Naturals, Sequences

CONSTANTS Name,        \* entity names
          None,
          MaxEvents,   \* bound: events committed or speculated
          MaxFailures  \* bound: failed calls of one handle

ASSUME SpeculationBounds == MaxEvents \in Nat /\ MaxFailures \in Nat
ASSUME NoneIsNoName == None \notin Name

FirstUserID == 65

(* Tables: the named identities, every identity id in use, the fact rows, the
   allocator's mark and the events. *)
Tables == [ids : [Name -> Nat], rows : SUBSET Nat, facts : SUBSET [id : Nat, tx : Nat],
           next : Nat, log : Seq([name : Name, id : Nat, tx : Nat])]
ASSUME NoneIsNoTables == None \notin Tables

NoTables == [ids |-> [n \in Name |-> 0], rows |-> {}, facts |-> {},
             next |-> FirstUserID, log |-> <<>>]

VARIABLES
    file,     \* the committed tables
    view,     \* what the savepoint sees, None before its first statement
    mark,     \* the tables at the savepoint of an Apply on the view, or None
    pc,       \* "idle", "view" (the callback runs) or "apply" (inside Apply)
    moved,    \* another process has committed since the view's snapshot
    writing,  \* the savepoint has the writer lock
    names,    \* store.names
    current,  \* store.dataVersion is the version the connection sees
    warm,     \* a write has refreshed the names since the view began
    failures,
    reported, \* history: the events that calls on the view have reported
    streamed  \* history: the events of the running Apply, not yet reported

calls == <<reported, streamed>>
vars == <<file, view, mark, pc, moved, writing, names, current, warm, failures, calls>>

Init ==
    /\ file = NoTables
    /\ view = None /\ mark = None
    /\ pc = "idle"
    /\ moved = FALSE /\ writing = FALSE
    /\ names = NoTables.ids
    /\ current = TRUE
    /\ warm = FALSE
    /\ failures = 0
    /\ reported = <<>> /\ streamed = <<>>

-----------------------------------------------------------------------------
(* One transaction on some tables with some cache. *)

(* refreshNames on a connection that sees these tables. *)
Fresh(t) == IF current THEN names ELSE t.ids

(* allocator.name: the cache, then the table, then a new id. *)
Known(cache, t, n) == IF cache[n] # 0 THEN cache[n] ELSE t.ids[n]

TxOf(cache, t, n) == IF Known(cache, t, n) = 0 THEN t.next + 1 ELSE t.next

EntityOf(cache, t, n) == IF Known(cache, t, n) = 0 THEN t.next ELSE Known(cache, t, n)

Allocated(cache, t, n) == t.next .. TxOf(cache, t, n)

Collides_Ignored(cache, t, n) == FALSE

(* An identity row that is already there: the id is the primary key. *)
Collides(cache, t, n) == Allocated(cache, t, n) \cap t.rows # {}

Cached(cache, t, n) == [cache EXCEPT ![n] = EntityOf(cache, t, n)]

(* The statements of one transaction, in their order.  finalize inserts the
   new name first and the transaction's own identity last; then the fact, the
   allocator's mark (flush) and the event. *)
Named(cache, t, n) ==
    IF Known(cache, t, n) = 0
    THEN [t EXCEPT !.ids[n] = t.next, !.rows = @ \cup {t.next}]
    ELSE t

Identified(cache, t, n) ==
    [Named(cache, t, n) EXCEPT !.rows = @ \cup Allocated(cache, t, n)]

Stated(cache, t, n) ==
    [Identified(cache, t, n) EXCEPT
        !.facts = @ \cup {[id |-> EntityOf(cache, t, n), tx |-> TxOf(cache, t, n)]}]

Flushed(cache, t, n) == [Stated(cache, t, n) EXCEPT !.next = TxOf(cache, t, n) + 1]

EventOf(cache, t, n) ==
    [name |-> n, id |-> EntityOf(cache, t, n), tx |-> TxOf(cache, t, n)]

Written(cache, t, n) ==
    [Flushed(cache, t, n) EXCEPT !.log = Append(@, EventOf(cache, t, n))]

(* What a transaction has left in the tables when a later statement fails: in
   finalize; at a fact or a shape; at the allocator's mark; or at the export,
   the hash or the event row, which come after the mark. *)
Unfinished(cache, t, n) ==
    {Named(cache, t, n), Identified(cache, t, n), Stated(cache, t, n), Flushed(cache, t, n)}

Fail == failures < MaxFailures /\ failures' = failures + 1

-----------------------------------------------------------------------------
(* Outside a speculation. *)

Transact(n) ==
    /\ pc = "idle" /\ Len(file.log) < MaxEvents
    /\ file' = Written(Fresh(file), file, n)
    /\ names' = Cached(Fresh(file), file, n)
    /\ current' = TRUE
    /\ UNCHANGED <<view, mark, pc, moved, writing, warm, failures, calls>>

(* A failure after finalize: rolled back, and the cache is distrusted. *)
TransactFails(n) ==
    /\ pc = "idle" /\ Fail
    /\ names' = Cached(Fresh(file), file, n)
    /\ current' = FALSE
    /\ UNCHANGED <<file, view, mark, pc, moved, writing, warm, calls>>

(* withRead: a snapshot of its own, and a refresh. *)
Read ==
    /\ pc = "idle"
    /\ names' = Fresh(file)
    /\ current' = TRUE
    /\ UNCHANGED <<file, view, mark, pc, moved, writing, warm, failures, calls>>

(* Another process commits.  The connection sees the new data_version at
   once, unless its savepoint pins an older snapshot. *)
OtherCommits(n) ==
    /\ ~writing /\ Len(file.log) < MaxEvents
    /\ file' = Written(file.ids, file, n)
    /\ IF view = None
       THEN current' = FALSE /\ UNCHANGED moved
       ELSE moved' = TRUE /\ UNCHANGED current
    /\ UNCHANGED <<view, mark, pc, writing, names, warm, failures, calls>>

-----------------------------------------------------------------------------
(* Speculate and the calls its callback makes on the view. *)

Speculate ==
    /\ pc = "idle"
    /\ pc' = "view"
    /\ warm' = FALSE
    /\ UNCHANGED <<file, view, mark, moved, writing, names, current, failures, calls>>

Seen == IF view = None THEN file ELSE view

(* withRead on a view: no snapshot of its own and no refresh. *)
ViewRead ==
    /\ pc = "view"
    /\ view' = Seen
    /\ UNCHANGED <<file, mark, pc, moved, writing, names, current, warm, failures, calls>>

(* transactOn on the savepoint's connection. *)
ViewTransact(n) ==
    LET cache == Fresh(Seen)
    IN  /\ pc = "view" /\ ~moved /\ Len(Seen.log) < MaxEvents
        /\ ~Collides(cache, Seen, n)
        /\ view' = Written(cache, Seen, n)
        /\ names' = Cached(cache, Seen, n)
        /\ writing' = TRUE
        /\ current' = TRUE /\ warm' = TRUE
        /\ reported' = Append(reported, EventOf(cache, Seen, n))
        /\ UNCHANGED <<file, mark, pc, moved, failures, streamed>>

(* It fails before it writes: the basis guard, planning, a lock that cannot
   be had, or an identity row that is already there. *)
ViewTransactFails ==
    /\ pc = "view"
    /\ \/ Fail
       \/ UNCHANGED failures /\ (moved \/ \E n \in Name : Collides(Fresh(Seen), Seen, n))
    /\ view' = Seen
    /\ names' = Fresh(Seen)
    /\ current' = TRUE /\ warm' = TRUE
    /\ UNCHANGED <<file, mark, pc, moved, writing, calls>>

(* It fails at a later statement.  There is no savepoint of its own: what it
   has written stays in the view, and what it has named in the cache. *)
ViewTransactFailsLate(n) ==
    LET cache == Fresh(Seen)
    IN  /\ pc = "view" /\ ~moved /\ Fail
        /\ ~Collides(cache, Seen, n)
        /\ view' \in Unfinished(cache, Seen, n)
        /\ names' = Cached(cache, Seen, n)
        /\ writing' = TRUE
        /\ current' = TRUE /\ warm' = TRUE
        /\ UNCHANGED <<file, mark, pc, moved, calls>>

(* atomicPortableWrite on a view: SAVEPOINT fgraph_apply. *)
ViewApply ==
    /\ pc = "view"
    /\ pc' = "apply"
    /\ mark' = Seen /\ view' = Seen
    /\ UNCHANGED <<file, moved, writing, names, current, warm, failures, calls>>

(* One event of the stream, and applyStream's reload of the names. *)
ViewApplyLine(n) ==
    LET cache == Fresh(view)
    IN  /\ pc = "apply" /\ ~moved /\ Len(view.log) < MaxEvents
        /\ ~Collides(cache, view, n)
        /\ view' = Written(cache, view, n)
        /\ names' = Written(cache, view, n).ids
        /\ writing' = TRUE
        /\ current' = TRUE /\ warm' = TRUE
        /\ streamed' = Append(streamed, EventOf(cache, view, n))
        /\ UNCHANGED <<file, mark, pc, moved, failures, reported>>

(* RELEASE; the report of the Apply names every line. *)
ViewApplyDone ==
    /\ pc = "apply"
    /\ pc' = "view"
    /\ mark' = None
    /\ current' = FALSE
    /\ reported' = reported \o streamed
    /\ streamed' = <<>>
    /\ UNCHANGED <<file, view, moved, writing, names, warm, failures>>

ViewApplyFails_NoRollback ==
    /\ pc = "apply" /\ Fail
    /\ view' = view
    /\ names' = view.ids
    /\ mark' = None
    /\ pc' = "view"
    /\ current' = TRUE /\ warm' = TRUE
    /\ streamed' = <<>>
    /\ UNCHANGED <<file, moved, writing, reported>>

(* A line fails, at whichever statement: ROLLBACK TO and RELEASE the inner
   savepoint, distrust and reload the names.  Nothing is reported. *)
ViewApplyFails ==
    /\ pc = "apply" /\ Fail
    /\ view' = mark
    /\ names' = mark.ids
    /\ mark' = None
    /\ pc' = "view"
    /\ current' = TRUE /\ warm' = TRUE
    /\ streamed' = <<>>
    /\ UNCHANGED <<file, moved, writing, reported>>

EndSpeculation_TrustsCache ==
    /\ pc = "view"
    /\ pc' = "idle"
    /\ view' = None /\ moved' = FALSE /\ writing' = FALSE
    /\ current' = (current /\ ~moved)
    /\ reported' = <<>>
    /\ UNCHANGED <<file, mark, names, warm, failures, streamed>>

(* The callback has returned: ROLLBACK TO, RELEASE, dataVersion = -1. *)
EndSpeculation ==
    /\ pc = "view"
    /\ pc' = "idle"
    /\ view' = None /\ moved' = FALSE /\ writing' = FALSE
    /\ current' = FALSE
    /\ reported' = <<>>
    /\ UNCHANGED <<file, mark, names, warm, failures, streamed>>

Next ==
    \/ Read \/ Speculate \/ ViewRead \/ ViewTransactFails
    \/ ViewApply \/ ViewApplyDone \/ ViewApplyFails \/ EndSpeculation
    \/ \E n \in Name :
          \/ Transact(n) \/ TransactFails(n) \/ OtherCommits(n)
          \/ ViewTransact(n) \/ ViewTransactFailsLate(n) \/ ViewApplyLine(n)

Spec == Init /\ [][Next]_vars

-----------------------------------------------------------------------------
(* Properties. *)

TypeOK ==
    /\ file \in Tables
    /\ view \in Tables \cup {None} /\ mark \in Tables \cup {None}
    /\ pc \in {"idle", "view", "apply"}
    /\ moved \in BOOLEAN /\ writing \in BOOLEAN
    /\ names \in [Name -> Nat]
    /\ current \in BOOLEAN /\ warm \in BOOLEAN
    /\ failures \in 0..MaxFailures
    /\ reported \in Seq([name : Name, id : Nat, tx : Nat])
    /\ streamed \in Seq([name : Name, id : Nat, tx : Nat])

(* No name that only a speculation gave out, and no id that it gave a name,
   reaches a committed fact: each is about the entity its name stands for. *)
GhostsStayOut ==
    \A i \in DOMAIN file.log : file.log[i].id = file.ids[file.log[i].name]

(* Outside a speculation a cache that will be trusted is the committed
   identity table. *)
TrustedCache == pc = "idle" /\ current => names = file.ids

(* Inside one, once a write on the view has refreshed it, the cache is the
   view's own identity table, whatever failed since. *)
ViewCache == pc = "view" /\ warm => names = view.ids

(* Whenever the cache is used without a reload it is the identity table it
   stands for, the file's or the view's. *)
CacheSound == TrustedCache /\ ViewCache

(* The events of some tables are of entities that go by their own names, apart
   from every other entity and every transaction, and the fact rows of a
   recorded transaction are the one fact of its event. *)
EventsApart(t) ==
    /\ \A n, m \in Name : t.ids[n] # 0 /\ t.ids[n] = t.ids[m] => n = m
    /\ \A i \in DOMAIN t.log :
          /\ t.log[i].id = t.ids[t.log[i].name]
          /\ \A n \in Name : t.ids[n] # t.log[i].tx
          /\ {f \in t.facts : f.tx = t.log[i].tx} =
                {[id |-> t.log[i].id, tx |-> t.log[i].tx]}
    /\ \A i, j \in DOMAIN t.log : t.log[i].tx = t.log[j].tx => i = j

(* A write that failed on the view may leave identities, facts and the
   allocator's mark behind, and later writes build on them.  Whatever is left,
   no later event takes over a left identity or a left transaction number: on
   the view, as in the file, two names are two entities and an event states
   its own fact only. *)
LeftoversApart == EventsApart(file) /\ EventsApart(Seen)

(* Between the calls of the callback the view is the file at its snapshot and
   on top of it, in order, what successful calls have reported: nothing of a
   stream that was refused half way, and every line of one that was taken. *)
ViewIsReported ==
    pc = "view" /\ view # None =>
        \/ ~moved /\ view.log = file.log \o reported
        \/ /\ moved /\ reported = <<>>
           /\ \A i \in DOMAIN view.log : i \in DOMAIN file.log /\ view.log[i] = file.log[i]

(* An identity or a fact that no recorded event accounts for. *)
Leftover(t) ==
    \/ \E i \in t.rows : \A k \in DOMAIN t.log : i \notin {t.log[k].id, t.log[k].tx}
    \/ \E f \in t.facts : \A k \in DOMAIN t.log : f.tx # t.log[k].tx

(* What spec.md says of every logical write: one that failed has left facts,
   identities and allocation unchanged, so what is there some recorded event
   accounts for.  Between the calls of a speculation this is false. *)
FailedWritesLeaveNothing == pc = "view" => ~Leftover(Seen)
=============================================================================
