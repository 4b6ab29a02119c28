------------------------- MODULE SpeculationProofs -------------------------
(***************************************************************************)
(* What Speculation promises for any set of names and any number of events *)
(* and failures: nothing a callback made up reaches the committed file,    *)
(* neither through the tables nor through the cache that is not rolled     *)
(* back with them.                                                         *)
(***************************************************************************)
EXTENDS Speculation, SequenceTheorems, TLAPS

Event == [name : Name, id : Nat, tx : Nat]
Cache == [Name -> Nat]

-----------------------------------------------------------------------------
(* One transaction on some tables. *)

LEMMA TablesFields ==
    ASSUME NEW t \in Tables
    PROVE  /\ t.ids \in Cache /\ t.rows \in SUBSET Nat /\ t.next \in Nat /\ t.log \in Seq(Event)
           /\ t.facts \in SUBSET [id : Nat, tx : Nat]
BY DEF Tables, Cache, Event

(* The identity table after one. *)
TableAfter(cache, t, n) == [t.ids EXCEPT ![n] = IF Known(cache, t, n) = 0 THEN t.next ELSE @]

LEMMA WriteNumbers ==
    ASSUME NEW t \in Tables, NEW cache \in Cache, NEW n \in Name
    PROVE  /\ Known(cache, t, n) \in Nat /\ EntityOf(cache, t, n) \in Nat
           /\ TxOf(cache, t, n) \in Nat
           /\ Allocated(cache, t, n) \in SUBSET Nat
           /\ t.next \in Allocated(cache, t, n) /\ TxOf(cache, t, n) \in Allocated(cache, t, n)
           /\ \A k \in Allocated(cache, t, n) : t.next <= k /\ k <= TxOf(cache, t, n)
           /\ Cached(cache, t, n) \in Cache /\ TableAfter(cache, t, n) \in Cache
           /\ EventOf(cache, t, n) \in Event
           /\ EventOf(cache, t, n).name = n
           /\ EventOf(cache, t, n).id = EntityOf(cache, t, n)
           /\ EventOf(cache, t, n).tx = TxOf(cache, t, n)
<1>0. t.ids \in Cache /\ t.next \in Nat
    BY TablesFields
<1>1. Known(cache, t, n) \in Nat
    BY <1>0 DEF Known, Cache
<1>2. EntityOf(cache, t, n) \in Nat /\ TxOf(cache, t, n) \in Nat
    BY <1>0, <1>1 DEF EntityOf, TxOf
<1>3. /\ Allocated(cache, t, n) \in SUBSET Nat
      /\ t.next \in Allocated(cache, t, n) /\ TxOf(cache, t, n) \in Allocated(cache, t, n)
      /\ \A k \in Allocated(cache, t, n) : t.next <= k /\ k <= TxOf(cache, t, n)
    BY <1>0, <1>2 DEF Allocated, TxOf
<1>4. Cached(cache, t, n) \in Cache /\ TableAfter(cache, t, n) \in Cache
    BY <1>0, <1>2 DEF Cached, TableAfter, Cache
<1> QED
    BY <1>1, <1>2, <1>3, <1>4 DEF EventOf, Event

(* The tables after each statement of a transaction. *)
LEMMA Statements ==
    ASSUME NEW t \in Tables, NEW cache \in Cache, NEW n \in Name
    PROVE  LET named == Named(cache, t, n)
               rows == t.rows \cup Allocated(cache, t, n)
               fact == [id |-> EntityOf(cache, t, n), tx |-> TxOf(cache, t, n)]
               after == TableAfter(cache, t, n)
               tx == TxOf(cache, t, n)
           IN  /\ named = [ids |-> after, facts |-> t.facts, next |-> t.next, log |-> t.log,
                           rows |-> t.rows \cup
                                       (IF Known(cache, t, n) = 0 THEN {t.next} ELSE {})]
               /\ Identified(cache, t, n) =
                    [ids |-> after, rows |-> rows, facts |-> t.facts, next |-> t.next,
                     log |-> t.log]
               /\ Stated(cache, t, n) =
                    [ids |-> after, rows |-> rows, facts |-> t.facts \cup {fact},
                     next |-> t.next, log |-> t.log]
               /\ Flushed(cache, t, n) =
                    [ids |-> after, rows |-> rows, facts |-> t.facts \cup {fact},
                     next |-> tx + 1, log |-> t.log]
               /\ Written(cache, t, n) =
                    [ids |-> after, rows |-> rows, facts |-> t.facts \cup {fact},
                     next |-> tx + 1, log |-> Append(t.log, EventOf(cache, t, n))]
<1> DEFINE named == Named(cache, t, n)
           rows == t.rows \cup Allocated(cache, t, n)
           fact == [id |-> EntityOf(cache, t, n), tx |-> TxOf(cache, t, n)]
           after == TableAfter(cache, t, n)
           tx == TxOf(cache, t, n)
<1>1. t = [ids |-> t.ids, rows |-> t.rows, facts |-> t.facts, next |-> t.next, log |-> t.log]
    BY DEF Tables
<1>2. t.ids \in Cache
    BY TablesFields
<1>3. t.next \in Allocated(cache, t, n)
    BY WriteNumbers
<1>4. named = [ids |-> after, facts |-> t.facts, next |-> t.next, log |-> t.log,
               rows |-> t.rows \cup (IF Known(cache, t, n) = 0 THEN {t.next} ELSE {})]
    <2>1. CASE Known(cache, t, n) = 0
        BY <1>1, <1>2, <2>1 DEF Named, TableAfter, Cache
    <2>2. CASE Known(cache, t, n) # 0
        BY <1>1, <1>2, <2>2 DEF Named, TableAfter, Cache
    <2> QED
        BY <2>1, <2>2
<1> HIDE DEF named, after, fact, tx
<1>5. Identified(cache, t, n) = [ids |-> after, rows |-> rows, facts |-> t.facts,
                                 next |-> t.next, log |-> t.log]
    <2>1. (t.rows \cup (IF Known(cache, t, n) = 0 THEN {t.next} ELSE {}))
            \cup Allocated(cache, t, n) = rows
        BY <1>3
    <2>2. Identified(cache, t, n) = [named EXCEPT !.rows = @ \cup Allocated(cache, t, n)]
        BY DEF Identified, named
    <2> HIDE DEF rows
    <2> QED
        BY <1>4, <2>1, <2>2
<1> HIDE DEF rows
<1>6. Stated(cache, t, n) = [ids |-> after, rows |-> rows, facts |-> t.facts \cup {fact},
                             next |-> t.next, log |-> t.log]
    BY <1>5 DEF Stated, fact
<1>7. Flushed(cache, t, n) = [ids |-> after, rows |-> rows, facts |-> t.facts \cup {fact},
                              next |-> tx + 1, log |-> t.log]
    BY <1>6 DEF Flushed, tx
<1>8. Written(cache, t, n) = [ids |-> after, rows |-> rows, facts |-> t.facts \cup {fact},
                              next |-> tx + 1, log |-> Append(t.log, EventOf(cache, t, n))]
    <2> DEFINE flushed == Flushed(cache, t, n)
               event == EventOf(cache, t, n)
    <2>1. Written(cache, t, n) = [flushed EXCEPT !.log = Append(flushed.log, event)]
        BY DEF Written
    <2> HIDE DEF flushed, event
    <2>2. flushed = [ids |-> after, rows |-> rows, facts |-> t.facts \cup {fact},
                     next |-> tx + 1, log |-> t.log]
        BY <1>7 DEF flushed
    <2> QED
        BY <2>1, <2>2 DEF event
<1> QED
    BY <1>4, <1>5, <1>6, <1>7, <1>8 DEF named, rows, fact, after, tx

LEMMA WrittenFields ==
    ASSUME NEW t \in Tables, NEW cache \in Cache, NEW n \in Name
    PROVE  /\ Written(cache, t, n) \in Tables
           /\ Unfinished(cache, t, n) \subseteq Tables
           /\ \A u \in Unfinished(cache, t, n) : u.log = t.log
           /\ Written(cache, t, n).ids = TableAfter(cache, t, n)
           /\ Written(cache, t, n).log = Append(t.log, EventOf(cache, t, n))
           /\ \A u \in Unfinished(cache, t, n) : u.ids = TableAfter(cache, t, n)
<1> DEFINE w == Written(cache, t, n)
           fact == [id |-> EntityOf(cache, t, n), tx |-> TxOf(cache, t, n)]
<1>1. /\ t.rows \in SUBSET Nat /\ t.next \in Nat /\ t.log \in Seq(Event)
      /\ t.facts \in SUBSET [id : Nat, tx : Nat]
    BY TablesFields
<1> DEFINE rows == t.rows \cup Allocated(cache, t, n)
           some == t.rows \cup (IF Known(cache, t, n) = 0 THEN {t.next} ELSE {})
           after == TableAfter(cache, t, n)
           event == EventOf(cache, t, n)
           next == TxOf(cache, t, n) + 1
<1>2. /\ after \in Cache /\ TxOf(cache, t, n) \in Nat /\ EntityOf(cache, t, n) \in Nat
      /\ event \in Event /\ Allocated(cache, t, n) \in SUBSET Nat
    BY <1>1, WriteNumbers
<1>3. next \in Nat /\ rows \in SUBSET Nat
    BY <1>1, <1>2
<1>4. some \in SUBSET Nat
    BY <1>1
<1>5. t.facts \cup {fact} \in SUBSET [id : Nat, tx : Nat]
    BY <1>1, <1>2
<1>6. Append(t.log, event) \in Seq(Event)
    BY <1>1, <1>2, AppendProperties
<1>7. /\ Named(cache, t, n) = [ids |-> after, facts |-> t.facts, next |-> t.next,
                                 log |-> t.log, rows |-> some]
       /\ Identified(cache, t, n) = [ids |-> after, rows |-> rows, facts |-> t.facts,
                                      next |-> t.next, log |-> t.log]
       /\ Stated(cache, t, n) = [ids |-> after, rows |-> rows, facts |-> t.facts \cup {fact},
                                  next |-> t.next, log |-> t.log]
       /\ Flushed(cache, t, n) = [ids |-> after, rows |-> rows, facts |-> t.facts \cup {fact},
                                   next |-> next, log |-> t.log]
       /\ Written(cache, t, n) = [ids |-> after, rows |-> rows, facts |-> t.facts \cup {fact},
                                   next |-> next, log |-> Append(t.log, event)]
    BY Statements
<1> HIDE DEF fact, rows, some, after, event, next
<1>8. Written(cache, t, n) \in Tables
    BY <1>2, <1>3, <1>6, <1>5, <1>7 DEF Tables, Cache, Event
<1>9. Named(cache, t, n) \in Tables /\ Identified(cache, t, n) \in Tables
    BY <1>1, <1>2, <1>3, <1>4, <1>7 DEF Tables, Cache, Event
<1>10. Stated(cache, t, n) \in Tables /\ Flushed(cache, t, n) \in Tables
    BY <1>1, <1>2, <1>3, <1>5, <1>7 DEF Tables, Cache, Event
<1>11. w.ids = TableAfter(cache, t, n) /\ w.log = Append(t.log, EventOf(cache, t, n))
    BY Statements
<1>12. \A u \in Unfinished(cache, t, n) : u.ids = TableAfter(cache, t, n) /\ u.log = t.log
    BY Statements DEF Unfinished
<1> QED
    BY <1>8, <1>9, <1>10, <1>11, <1>12 DEF Unfinished

LEMMA FreshType ==
    ASSUME names \in Cache, NEW t \in Tables
    PROVE  Fresh(t) \in Cache
BY TablesFields DEF Fresh

-----------------------------------------------------------------------------
(* Types. *)

LEMMA TypeInit == Init => TypeOK
<1>1. NoTables \in Tables
    <2>1. <<>> \in Seq([name : Name, id : Nat, tx : Nat])
        BY EmptySeq
    <2> QED
        BY <2>1 DEF NoTables, Tables, FirstUserID
<1>2. NoTables.ids \in [Name -> Nat]
    BY DEF NoTables
<1>3. 0 \in 0..MaxFailures
    BY SpeculationBounds
<1> QED
    BY <1>1, <1>2, <1>3, EmptySeq DEF Init, TypeOK

LEMMA TypeNext == TypeOK /\ (pc = "apply" => view # None /\ mark # None) /\ [Next]_vars => TypeOK'
<1> SUFFICES ASSUME TypeOK, pc = "apply" => view # None /\ mark # None, [Next]_vars
             PROVE  TypeOK'
    OBVIOUS
<1> USE SpeculationBounds
<1>1. file \in Tables /\ names \in Cache /\ Seen \in Tables
    BY DEF TypeOK, Seen, Cache
<1>2. pc = "apply" => view \in Tables /\ mark \in Tables
    BY DEF TypeOK
<1>3. Fail => failures' \in 0..MaxFailures
    BY DEF Fail, TypeOK
<1>4. ASSUME NEW t \in Tables, NEW n \in Name
      PROVE  /\ Fresh(t) \in Cache /\ Written(Fresh(t), t, n) \in Tables
             /\ Unfinished(Fresh(t), t, n) \subseteq Tables /\ Cached(Fresh(t), t, n) \in Cache
             /\ Written(Fresh(t), t, n).ids \in Cache /\ t.ids \in Cache
             /\ EventOf(Fresh(t), t, n) \in Event
    BY <1>1, FreshType, WriteNumbers, WrittenFields, TablesFields
<1>14. /\ reported \in Seq(Event) /\ streamed \in Seq(Event) /\ <<>> \in Seq(Event)
       /\ reported \o streamed \in Seq(Event)
       /\ \A e \in Event : Append(reported, e) \in Seq(Event) /\ Append(streamed, e) \in Seq(Event)
    BY EmptySeq, AppendProperties, ConcatProperties DEF TypeOK, Event
<1>5. ASSUME NEW n \in Name, Transact(n) \/ TransactFails(n) PROVE TypeOK'
    BY <1>1, <1>3, <1>4, <1>5 DEF TypeOK, Transact, TransactFails, Cache, calls
<1>6. ASSUME NEW n \in Name, OtherCommits(n) PROVE TypeOK'
    <2>1. file' \in Tables
        BY <1>1, <1>6, WrittenFields, TablesFields DEF OtherCommits
    <2> QED
        BY <1>6, <2>1 DEF TypeOK, OtherCommits, calls
<1>7. ASSUME NEW n \in Name, ViewTransact(n) PROVE TypeOK'
    <2>1. view' \in Tables /\ names' \in Cache /\ reported' \in Seq(Event)
        BY <1>1, <1>4, <1>14, <1>7 DEF ViewTransact
    <2> QED
        BY <1>7, <2>1 DEF TypeOK, ViewTransact, Cache, Event
<1>15. ASSUME NEW n \in Name, ViewTransactFailsLate(n) PROVE TypeOK'
    <2>1. view' \in Tables /\ names' \in Cache
        BY <1>1, <1>4, <1>15 DEF ViewTransactFailsLate
    <2> QED
        BY <1>3, <1>15, <2>1 DEF TypeOK, ViewTransactFailsLate, Cache, calls
<1>8. ASSUME NEW n \in Name, ViewApplyLine(n) PROVE TypeOK'
    <2>1. view' \in Tables /\ names' \in Cache /\ streamed' \in Seq(Event)
        BY <1>2, <1>4, <1>14, <1>8 DEF ViewApplyLine
    <2> QED
        BY <1>8, <2>1 DEF TypeOK, ViewApplyLine, Cache, Event
<1>9. CASE ViewApplyFails
    <2>1. view' \in Tables /\ names' \in Cache /\ streamed' \in Seq(Event)
        BY <1>2, <1>9, <1>14, TablesFields DEF ViewApplyFails
    <2> QED
        BY <1>3, <1>9, <2>1 DEF TypeOK, ViewApplyFails, Cache, Event
<1>16. CASE ViewApplyDone
    <2>1. streamed' \in Seq(Event) /\ reported' \in Seq(Event)
        BY <1>14, <1>16 DEF ViewApplyDone
    <2> QED
        BY <1>16, <2>1 DEF TypeOK, ViewApplyDone, Event
<1>10. CASE Read \/ ViewTransactFails
    BY <1>1, <1>3, <1>10, FreshType DEF TypeOK, Read, ViewTransactFails, Cache, calls
<1>11. CASE Speculate \/ ViewRead \/ ViewApply \/ EndSpeculation
    BY <1>1, <1>11, <1>14 DEF TypeOK, Speculate, ViewRead, ViewApply, EndSpeculation, calls, Event
<1>12. CASE UNCHANGED vars
    BY <1>12 DEF TypeOK, vars, calls
<1> QED
    BY <1>5, <1>6, <1>7, <1>8, <1>9, <1>10, <1>11, <1>12, <1>15, <1>16 DEF Next

-----------------------------------------------------------------------------
(* The cache. *)

(* Where the view is, and that a cache which will be trusted is the identity
   table the connection sees, the view's or the file's. *)
CacheInv ==
    /\ TypeOK
    /\ pc = "idle" => view = None
    /\ pc = "apply" => view # None /\ mark # None
    /\ current => names = Seen.ids
    /\ pc # "idle" /\ warm => view # None /\ names = view.ids

LEMMA FreshIsTable ==
    ASSUME NEW t, current => names = t.ids
    PROVE  Fresh(t) = t.ids
BY DEF Fresh

(* A write keeps a true cache true. *)
LEMMA CacheFollows ==
    ASSUME NEW t \in Tables, NEW n \in Name
    PROVE  /\ Cached(t.ids, t, n) = Written(t.ids, t, n).ids
           /\ \A u \in Unfinished(t.ids, t, n) : Cached(t.ids, t, n) = u.ids
<1>1. t.ids \in Cache
    BY TablesFields
<1>2. Known(t.ids, t, n) = t.ids[n]
    BY DEF Known
<1>3. Cached(t.ids, t, n) = TableAfter(t.ids, t, n)
    BY <1>2 DEF Cached, EntityOf, TableAfter
<1> QED
    BY <1>1, <1>3, WrittenFields

LEMMA CacheNext == CacheInv /\ [Next]_vars => CacheInv'
<1> SUFFICES ASSUME CacheInv, [Next]_vars PROVE CacheInv'
    OBVIOUS
<1>0. TypeOK'
    BY TypeNext DEF CacheInv
<1>1. file \in Tables /\ Seen \in Tables /\ (pc = "idle" => Seen = file)
    BY DEF CacheInv, TypeOK, Seen
<1>2. \A t \in Tables : t # None
    BY NoneIsNoTables
<1>3. Fresh(Seen) = Seen.ids
    BY FreshIsTable DEF CacheInv
<1>4. pc = "apply" => view \in Tables /\ mark \in Tables /\ Seen = view
    BY DEF CacheInv, TypeOK, Seen
<1>5. ASSUME NEW n \in Name, Transact(n) PROVE CacheInv'
    <2>1. names' = file'.ids
        BY <1>1, <1>3, <1>5, CacheFollows DEF Transact
    <2> QED
        BY <1>0, <1>5, <2>1 DEF CacheInv, Transact, Seen
<1>6. ASSUME NEW n \in Name, TransactFails(n) PROVE CacheInv'
    BY <1>0, <1>6 DEF CacheInv, TransactFails, Seen
<1>7. ASSUME NEW n \in Name, OtherCommits(n) PROVE CacheInv'
    BY <1>0, <1>7 DEF CacheInv, OtherCommits, Seen
<1>8. ASSUME NEW n \in Name, ViewTransact(n) \/ ViewTransactFailsLate(n) PROVE CacheInv'
    <2>1. names' = view'.ids /\ view' # None /\ pc = "view" /\ pc' = pc
        <3>1. /\ Written(Seen.ids, Seen, n) \in Tables
              /\ Unfinished(Seen.ids, Seen, n) \subseteq Tables
              /\ Cached(Seen.ids, Seen, n) = Written(Seen.ids, Seen, n).ids
              /\ \A u \in Unfinished(Seen.ids, Seen, n) : Cached(Seen.ids, Seen, n) = u.ids
            BY <1>1, CacheFollows, WrittenFields, TablesFields
        <3> QED
            BY <1>2, <1>3, <1>8, <3>1 DEF ViewTransact, ViewTransactFailsLate
    <2> QED
        BY <1>0, <2>1 DEF CacheInv, Seen
<1>9. ASSUME NEW n \in Name, ViewApplyLine(n) PROVE CacheInv'
    <2>1. names' = view'.ids /\ view' # None /\ pc = "apply" /\ pc' = pc /\ mark' = mark
        <3>1. view \in Tables /\ Fresh(view) \in Cache
            BY <1>3, <1>4, <1>9, TablesFields DEF ViewApplyLine
        <3>2. Written(Fresh(view), view, n) \in Tables
            BY <3>1, WrittenFields
        <3> QED
            BY <1>2, <1>9, <3>2 DEF ViewApplyLine
    <2> QED
        BY <1>0, <2>1 DEF CacheInv, Seen
<1>10. CASE ViewApplyFails
    BY <1>0, <1>2, <1>4, <1>10 DEF CacheInv, ViewApplyFails, Seen
<1>11. CASE Read
    BY <1>0, <1>1, <1>3, <1>11 DEF CacheInv, Read, Seen
<1>12. CASE ViewTransactFails
    <2>1. names' = view'.ids /\ view' # None /\ pc = "view" /\ pc' = pc
        BY <1>1, <1>2, <1>3, <1>12 DEF ViewTransactFails
    <2> QED
        BY <1>0, <2>1 DEF CacheInv, Seen
<1>13. CASE Speculate \/ EndSpeculation
    BY <1>0, <1>13 DEF CacheInv, Speculate, EndSpeculation, Seen
<1>14. CASE ViewRead \/ ViewApply
    <2>1. view' = Seen /\ view' # None /\ Seen' = Seen
        BY <1>1, <1>2, <1>14 DEF ViewRead, ViewApply, Seen
    <2>2. names' = names /\ current' = current /\ warm' = warm
        BY <1>14 DEF ViewRead, ViewApply
    <2>3. pc = "view" /\ (pc' = "apply" => mark' # None) /\ pc' # "idle"
        BY <1>1, <1>2, <1>14 DEF ViewRead, ViewApply
    <2>4. warm => Seen = view
        BY <2>3 DEF CacheInv, Seen
    <2> QED
        BY <1>0, <2>1, <2>2, <2>3, <2>4 DEF CacheInv
<1>15. CASE ViewApplyDone
    BY <1>0, <1>15 DEF CacheInv, ViewApplyDone, Seen
<1>16. CASE UNCHANGED vars
    BY <1>0, <1>16 DEF CacheInv, vars, Seen
<1> QED
    BY <1>5, <1>6, <1>7, <1>8, <1>9, <1>10, <1>11, <1>12, <1>13, <1>14, <1>15, <1>16 DEF Next

LEMMA CacheInvHolds == Spec => []CacheInv
<1>1. Init => CacheInv
    BY TypeInit DEF Init, CacheInv, Seen
<1> QED
    BY <1>1, CacheNext, PTL DEF Spec

(* Type correctness of the file, the view and the cache. *)
THEOREM TypeCorrect == Spec => []TypeOK
BY CacheInvHolds, PTL DEF CacheInv

(* Once the callback has returned, a cache that is trusted is the committed
   identity table: nothing the rolled-back savepoint gave out is in it. Inside
   a speculation it is the view's identity table once a write has refreshed it,
   also after a failed write and a rolled-back Apply. *)
THEOREM CacheIsSound == Spec => []CacheSound
<1>1. CacheInv => TrustedCache
    BY DEF CacheInv, TrustedCache, Seen
<1>2. CacheInv => ViewCache
    BY DEF CacheInv, ViewCache
<1>3. CacheInv => CacheSound
    BY <1>1, <1>2 DEF CacheSound
<1> QED
    BY <1>3, CacheInvHolds, PTL

-----------------------------------------------------------------------------
(* Identities, transactions and facts apart, whatever a failed write left. *)

(* What a write relies on: an identity or a transaction that is in use, be it
   by a recorded event or by something a failed write left, has its row. *)
Apart(t) ==
    /\ EventsApart(t)
    /\ t.next # 0 /\ 0 \notin t.rows
    /\ \A n \in Name : t.ids[n] # 0 => t.ids[n] \in t.rows
    /\ \A f \in t.facts : f.tx \in t.rows
    /\ \A i \in DOMAIN t.log : t.log[i].id \in t.rows /\ t.log[i].tx \in t.rows

LEMMA EventsOf ==
    ASSUME NEW t \in Tables, NEW i \in DOMAIN t.log
    PROVE  t.log[i] \in Event
BY TablesFields, ElementOfSeq, LenProperties

(* The numbers a write takes have no row yet, so the new name and the new
   transaction are apart from all that is there. *)
LEMMA NewNumbers ==
    ASSUME NEW t \in Tables, NEW n \in Name, Apart(t), ~Collides(t.ids, t, n)
    PROVE  LET cache == t.ids
               after == TableAfter(cache, t, n)
               tx == TxOf(cache, t, n)
               rows == t.rows \cup Allocated(cache, t, n)
           IN  /\ tx \notin t.rows /\ tx \in rows /\ tx # 0 /\ 0 \notin rows
               /\ after[n] = EntityOf(cache, t, n) /\ after[n] # 0
               /\ \A m \in Name : t.ids[m] # 0 => after[m] = t.ids[m]
               /\ \A m \in Name : after[m] # 0 => after[m] \in rows
               /\ \A m \in Name : after[m] # tx
               /\ \A m, k \in Name : after[m] # 0 /\ after[m] = after[k] => m = k
               /\ \A m \in Name, r \in t.rows : after[m] = r => after[m] = t.ids[m]
<1> DEFINE cache == t.ids
           after == TableAfter(cache, t, n)
           tx == TxOf(cache, t, n)
           known == Known(cache, t, n)
           rows == t.rows \cup Allocated(cache, t, n)
<1>1. /\ t.ids \in Cache /\ t.next \in Nat /\ t.rows \in SUBSET Nat
      /\ t.next # 0 /\ 0 \notin t.rows
      /\ \A m \in Name : t.ids[m] # 0 => t.ids[m] \in t.rows
      /\ \A m, k \in Name : t.ids[m] # 0 /\ t.ids[m] = t.ids[k] => m = k
    BY TablesFields DEF Apart, EventsApart
<1>2. /\ tx \in Nat /\ tx \in Allocated(cache, t, n) /\ t.next \in Allocated(cache, t, n)
      /\ Allocated(cache, t, n) \in SUBSET Nat
      /\ \A k \in Allocated(cache, t, n) : t.next <= k
    BY <1>1, WriteNumbers
<1>3. tx \notin t.rows /\ t.next \notin t.rows
    BY <1>2 DEF Collides
<1>4. known = t.ids[n] /\ known \in Nat
    BY <1>1 DEF Known, Cache
<1>5. \A m \in Name : after[m] = IF m = n /\ known = 0 THEN t.next ELSE t.ids[m]
    BY <1>1 DEF TableAfter, Cache
<1>6. tx = IF known = 0 THEN t.next + 1 ELSE t.next
    BY DEF TxOf
<1>7. EntityOf(cache, t, n) = IF known = 0 THEN t.next ELSE t.ids[n]
    BY <1>4 DEF EntityOf
<1>8. tx \in rows /\ tx # 0 /\ 0 \notin rows
    BY <1>1, <1>2, <1>6
<1> HIDE DEF after, tx, known
<1>9. after[n] = EntityOf(cache, t, n) /\ after[n] # 0
    BY <1>1, <1>4, <1>5, <1>7
<1>10. \A m \in Name : t.ids[m] # 0 => after[m] = t.ids[m]
    BY <1>4, <1>5
<1>11. \A m \in Name : after[m] # 0 => after[m] \in rows
    BY <1>1, <1>2, <1>5
<1>12. \A m \in Name : after[m] # tx
    <2> TAKE m \in Name
    <2>1. CASE m = n /\ known = 0
        BY <1>1, <1>5, <1>6, <2>1
    <2>2. CASE ~(m = n /\ known = 0)
        BY <1>1, <1>3, <1>5, <1>8, <2>2
    <2> QED
        BY <2>1, <2>2
<1>13. \A m, k \in Name : after[m] # 0 /\ after[m] = after[k] => m = k
    BY <1>1, <1>3, <1>5
<1>14. \A m \in Name, r \in t.rows : after[m] = r => after[m] = t.ids[m]
    BY <1>3, <1>5
<1> QED
    BY <1>3, <1>8, <1>9, <1>10, <1>11, <1>12, <1>13, <1>14 DEF after, tx

(* A write that stops anywhere before its event. *)
LEMMA UnfinishedApart ==
    ASSUME NEW t \in Tables, NEW n \in Name, Apart(t), ~Collides(t.ids, t, n),
           NEW u \in Unfinished(t.ids, t, n)
    PROVE  Apart(u)
<1> DEFINE cache == t.ids
           after == TableAfter(cache, t, n)
           tx == TxOf(cache, t, n)
           rows == t.rows \cup Allocated(cache, t, n)
           some == t.rows \cup (IF Known(cache, t, n) = 0 THEN {t.next} ELSE {})
           fact == [id |-> EntityOf(cache, t, n), tx |-> tx]
<1>1. /\ t.ids \in Cache /\ t.next \in Nat /\ t.next # 0
      /\ tx + 1 # 0 /\ t.next \in Allocated(cache, t, n)
    <2>1. t.ids \in Cache /\ t.next \in Nat /\ t.next # 0
        BY TablesFields DEF Apart
    <2>2. tx \in Nat /\ t.next \in Allocated(cache, t, n)
        BY <2>1, WriteNumbers
    <2> QED
        BY <2>1, <2>2
<1>2. /\ u.ids = after /\ u.log = t.log
      /\ u.rows \in {some, rows} /\ u.next \in {t.next, tx + 1}
      /\ \/ u.facts = t.facts
         \/ u.rows = rows /\ u.facts = t.facts \cup {fact}
    <2>1. u \in {Named(cache, t, n), Identified(cache, t, n), Stated(cache, t, n),
                 Flushed(cache, t, n)}
        BY DEF Unfinished
    <2>2. /\ Named(cache, t, n) = [ids |-> after, facts |-> t.facts, next |-> t.next,
                                    log |-> t.log, rows |-> some]
          /\ Identified(cache, t, n) = [ids |-> after, rows |-> rows, facts |-> t.facts,
                                         next |-> t.next, log |-> t.log]
          /\ Stated(cache, t, n) = [ids |-> after, rows |-> rows,
                                     facts |-> t.facts \cup {fact}, next |-> t.next,
                                     log |-> t.log]
          /\ Flushed(cache, t, n) = [ids |-> after, rows |-> rows,
                                      facts |-> t.facts \cup {fact}, next |-> tx + 1,
                                      log |-> t.log]
        BY <1>1, Statements
    <2> HIDE DEF after, tx, rows, some, fact, cache
    <2> QED
        BY <2>1, <2>2
<1>3. /\ tx \notin t.rows /\ tx \in rows /\ tx # 0 /\ 0 \notin rows
      /\ \A m \in Name : t.ids[m] # 0 => after[m] = t.ids[m]
      /\ \A m, k \in Name : after[m] # 0 /\ after[m] = after[k] => m = k
      /\ \A m \in Name, r \in t.rows : after[m] = r => after[m] = t.ids[m]
    BY NewNumbers
<1>4. \A m \in Name : after[m] # 0 => after[m] \in some
    BY <1>1 DEF TableAfter, Cache, Apart
<1>5. some \subseteq rows /\ t.rows \subseteq some
    BY <1>1
<1>6. fact.tx = tx
    OBVIOUS
<1> HIDE DEF after, tx, rows, some, fact
<1>7. \A f \in u.facts : f \in t.facts \/ (f.tx = tx /\ u.rows = rows)
    BY <1>2, <1>6
<1>8. \A i \in DOMAIN t.log :
         /\ t.log[i].name \in Name /\ t.log[i].id \in t.rows /\ t.log[i].tx \in t.rows
         /\ t.log[i].id = t.ids[t.log[i].name]
         /\ \A m \in Name : t.ids[m] # t.log[i].tx
         /\ {f \in t.facts : f.tx = t.log[i].tx} = {[id |-> t.log[i].id, tx |-> t.log[i].tx]}
    BY EventsOf DEF Apart, EventsApart, Event
<1>9. \A i \in DOMAIN t.log :
         {f \in u.facts : f.tx = t.log[i].tx} = {f \in t.facts : f.tx = t.log[i].tx}
    BY <1>2, <1>3, <1>6, <1>8
<1>10. \A i \in DOMAIN t.log : \A m \in Name : after[m] # t.log[i].tx
    BY <1>3, <1>8
<1>11. \A i \in DOMAIN t.log : t.log[i].id = after[t.log[i].name]
    BY <1>3, <1>8 DEF Apart
<1>12. EventsApart(u)
    BY <1>2, <1>3, <1>8, <1>9, <1>10, <1>11 DEF EventsApart, Apart
<1>13. 0 \notin u.rows /\ u.next # 0 /\ t.rows \subseteq u.rows
    BY <1>1, <1>2, <1>3, <1>5
<1>14. \A f \in u.facts : f.tx \in u.rows
    BY <1>3, <1>7, <1>13 DEF Apart
<1>15. \A m \in Name : u.ids[m] # 0 => u.ids[m] \in u.rows
    BY <1>2, <1>4, <1>5
<1> QED
    BY <1>2, <1>8, <1>12, <1>13, <1>14, <1>15 DEF Apart
(* A whole write. *)
LEMMA WrittenApart ==
    ASSUME NEW t \in Tables, NEW n \in Name, Apart(t), ~Collides(t.ids, t, n)
    PROVE  Apart(Written(t.ids, t, n))
<1> DEFINE cache == t.ids
           f == Flushed(cache, t, n)
           w == Written(cache, t, n)
           event == EventOf(cache, t, n)
           tx == TxOf(cache, t, n)
           new == Len(t.log) + 1
<1>1. /\ t.ids \in Cache /\ t.log \in Seq(Event) /\ event \in Event
      /\ event.name = n /\ event.id = EntityOf(cache, t, n) /\ event.tx = tx
    <2>1. t.ids \in Cache /\ t.log \in Seq(Event)
        BY TablesFields
    <2> QED
        BY <2>1, WriteNumbers
<1>2. Apart(f)
    BY UnfinishedApart DEF Unfinished
<1>3. /\ f.ids = TableAfter(cache, t, n) /\ f.log = t.log
      /\ f.rows = t.rows \cup Allocated(cache, t, n)
      /\ f.facts = t.facts \cup {[id |-> event.id, tx |-> event.tx]}
      /\ w.ids = f.ids /\ w.rows = f.rows /\ w.facts = f.facts /\ w.next = f.next
      /\ w.log = Append(t.log, event)
    <2> DEFINE fact == [id |-> EntityOf(cache, t, n), tx |-> tx]
               rows == t.rows \cup Allocated(cache, t, n)
               after == TableAfter(cache, t, n)
    <2>1. /\ f = [ids |-> after, rows |-> rows, facts |-> t.facts \cup {fact},
                  next |-> tx + 1, log |-> t.log]
          /\ w = [ids |-> after, rows |-> rows, facts |-> t.facts \cup {fact},
                  next |-> tx + 1, log |-> Append(t.log, event)]
        BY <1>1, Statements
    <2>2. fact = [id |-> event.id, tx |-> event.tx]
        BY <1>1
    <2> HIDE DEF fact, rows, after, f, w, event, tx
    <2>3. f.ids = after /\ f.rows = rows
        BY <2>1
    <2> QED
        BY <2>1, <2>2 DEF rows, after
<1>4. /\ tx \notin t.rows /\ tx \in f.rows
      /\ f.ids[n] = event.id /\ event.id # 0
      /\ \A m \in Name : f.ids[m] # tx
    BY <1>1, <1>3, NewNumbers
<1>5. /\ DOMAIN w.log = 1..new /\ w.log[new] = event
      /\ \A i \in DOMAIN t.log : w.log[i] = t.log[i]
      /\ DOMAIN t.log = 1..Len(t.log) /\ Len(t.log) \in Nat
    BY <1>1, <1>3, AppendProperties, LenProperties
<1>6. \A i \in DOMAIN w.log : i \in DOMAIN t.log \/ i = new
    BY <1>5
<1>7. \A i \in DOMAIN t.log : t.log[i].tx \in t.rows
    BY DEF Apart
<1>8. \A g \in t.facts : g.tx \in t.rows
    BY DEF Apart
<1> HIDE DEF f, w, event, tx, new
<1>9. {g \in w.facts : g.tx = event.tx} = {[id |-> event.id, tx |-> event.tx]}
    BY <1>1, <1>3, <1>4, <1>8
<1>10. event.id \in f.rows
    BY <1>2, <1>4 DEF Apart
<1>11. ASSUME NEW i \in DOMAIN w.log
       PROVE  /\ w.log[i].id = w.ids[w.log[i].name]
              /\ \A m \in Name : w.ids[m] # w.log[i].tx
              /\ {g \in w.facts : g.tx = w.log[i].tx} =
                    {[id |-> w.log[i].id, tx |-> w.log[i].tx]}
              /\ w.log[i].id \in w.rows /\ w.log[i].tx \in w.rows
    <2>1. CASE i = new
        BY <1>1, <1>3, <1>4, <1>5, <1>9, <1>10, <2>1
    <2>2. CASE i \in DOMAIN t.log
        BY <1>2, <1>3, <1>5, <2>2 DEF Apart, EventsApart
    <2> QED
        BY <1>6, <2>1, <2>2
<1>12. ASSUME NEW i \in DOMAIN w.log, NEW j \in DOMAIN w.log, w.log[i].tx = w.log[j].tx
       PROVE  i = j
    <2>1. CASE i \in DOMAIN t.log /\ j \in DOMAIN t.log
        BY <1>5, <1>12, <2>1 DEF Apart, EventsApart
    <2> QED
        BY <1>1, <1>4, <1>5, <1>6, <1>7, <1>12, <2>1
<1>13. EventsApart(w)
    <2>1. \A m, k \in Name : w.ids[m] # 0 /\ w.ids[m] = w.ids[k] => m = k
        BY <1>2, <1>3 DEF Apart, EventsApart
    <2> QED
        BY <1>11, <1>12, <2>1 DEF EventsApart
<1> QED
    BY <1>2, <1>3, <1>11, <1>13 DEF Apart, w

(* The file's mark is above every row: its writes collide with nothing. *)
Below(t) == \A r \in t.rows : r < t.next

LEMMA WrittenBelow ==
    ASSUME NEW t \in Tables, NEW n \in Name, Below(t)
    PROVE  ~Collides(t.ids, t, n) /\ Below(Written(t.ids, t, n))
<1>1. /\ t.ids \in Cache /\ t.next \in Nat /\ t.rows \in SUBSET Nat
    BY TablesFields
<1>2. /\ TxOf(t.ids, t, n) \in Nat /\ t.next \in Allocated(t.ids, t, n)
      /\ Allocated(t.ids, t, n) \in SUBSET Nat
      /\ \A k \in Allocated(t.ids, t, n) : t.next <= k /\ k <= TxOf(t.ids, t, n)
    BY <1>1, WriteNumbers
<1>3. /\ Written(t.ids, t, n).rows = t.rows \cup Allocated(t.ids, t, n)
      /\ Written(t.ids, t, n).next = TxOf(t.ids, t, n) + 1
    BY <1>1, Statements
<1>4. ~Collides(t.ids, t, n)
    BY <1>1, <1>2 DEF Collides, Below
<1>5. \A r \in t.rows \cup Allocated(t.ids, t, n) : r < TxOf(t.ids, t, n) + 1
    BY <1>1, <1>2 DEF Below
<1> QED
    BY <1>3, <1>4, <1>5 DEF Below

LeftoverInv ==
    /\ Apart(file) /\ Below(file)
    /\ view # None => Apart(view)
    /\ pc = "apply" => Apart(mark)

LEMMA LeftoverNext == CacheInv /\ LeftoverInv /\ [Next]_vars => LeftoverInv'
<1> SUFFICES ASSUME CacheInv, LeftoverInv, [Next]_vars PROVE LeftoverInv'
    OBVIOUS
<1>1. file \in Tables /\ Seen \in Tables /\ Apart(Seen)
    BY DEF CacheInv, TypeOK, Seen, LeftoverInv
<1>2. Fresh(Seen) = Seen.ids
    BY FreshIsTable DEF CacheInv
<1>3. pc = "apply" => view \in Tables /\ Seen = view /\ view # None
    BY DEF CacheInv, TypeOK, Seen
<1>4. ASSUME NEW n \in Name PROVE Apart(Written(file.ids, file, n)) /\ Below(Written(file.ids, file, n))
    BY <1>1, WrittenBelow, WrittenApart DEF LeftoverInv
<1>5. ASSUME NEW n \in Name, Transact(n) PROVE LeftoverInv'
    <2>1. Seen = file /\ view = None
        BY <1>5 DEF CacheInv, Seen, Transact
    <2> QED
        BY <1>2, <1>4, <1>5, <2>1 DEF LeftoverInv, Transact
<1>6. ASSUME NEW n \in Name, OtherCommits(n) PROVE LeftoverInv'
    BY <1>4, <1>6 DEF LeftoverInv, OtherCommits
<1>7. ASSUME NEW n \in Name, ViewTransact(n) PROVE LeftoverInv'
    BY <1>1, <1>2, <1>7, WrittenApart DEF LeftoverInv, ViewTransact
<1>8. ASSUME NEW n \in Name, ViewTransactFailsLate(n) PROVE LeftoverInv'
    <2>1. Apart(view')
        BY <1>1, <1>2, <1>8, UnfinishedApart DEF ViewTransactFailsLate
    <2> QED
        BY <1>8, <2>1 DEF LeftoverInv, ViewTransactFailsLate
<1>9. ASSUME NEW n \in Name, ViewApplyLine(n) PROVE LeftoverInv'
    <2>1. Apart(view')
        BY <1>1, <1>2, <1>3, <1>9, WrittenApart DEF ViewApplyLine
    <2> QED
        BY <1>9, <2>1 DEF LeftoverInv, ViewApplyLine
<1>10. CASE ViewRead \/ ViewTransactFails \/ ViewApply
    BY <1>1, <1>10 DEF LeftoverInv, ViewRead, ViewTransactFails, ViewApply
<1>11. CASE ViewApplyFails \/ ViewApplyDone \/ EndSpeculation
    BY <1>11 DEF LeftoverInv, ViewApplyFails, ViewApplyDone, EndSpeculation
<1>12. CASE Read \/ Speculate \/ UNCHANGED vars \/ \E n \in Name : TransactFails(n)
    BY <1>12 DEF LeftoverInv, Read, Speculate, TransactFails, vars
<1> QED
    BY <1>5, <1>6, <1>7, <1>8, <1>9, <1>10, <1>11, <1>12 DEF Next

LEMMA LeftoverInvHolds == Spec => [](CacheInv /\ LeftoverInv)
<1>1. Init => LeftoverInv
    BY DEF Init, NoTables, LeftoverInv, Apart, EventsApart, Below, FirstUserID
<1> QED
    BY <1>1, LeftoverNext, CacheInvHolds, PTL DEF Spec

(* Wherever a write on the view failed and whatever it left there, no later
   event, on the view or in the file, takes over a left identity, transaction
   or fact. *)
THEOREM LeftoversStayApart == Spec => []LeftoversApart
<1>1. CacheInv /\ LeftoverInv => LeftoversApart
    BY DEF LeftoverInv, LeftoversApart, Apart, Seen
<1> QED
    BY <1>1, LeftoverInvHolds, PTL

(* No name or id that only a speculation gave out reaches a committed fact. *)
THEOREM NoGhosts == Spec => []GhostsStayOut
<1>1. LeftoverInv => GhostsStayOut
    BY DEF LeftoverInv, Apart, EventsApart, GhostsStayOut
<1> QED
    BY <1>1, LeftoverInvHolds, PTL
-----------------------------------------------------------------------------
(* What the view shows and what its calls have reported. *)

Prefix(s, t) == \A i \in DOMAIN s : i \in DOMAIN t /\ s[i] = t[i]

(* Once the view has the writer lock nobody else commits, and until then it
   has reported nothing; a snapshot that others have left behind is never
   written.  Inside an Apply the savepoint holds the reported part. *)
ReportInv ==
    /\ pc # "apply" => streamed = <<>>
    /\ ~writing => reported = <<>> /\ streamed = <<>>
    /\ moved => ~writing
    /\ view = None => ~moved /\ ~writing
    /\ view # None /\ moved => Prefix(view.log, file.log)
    /\ pc = "view" /\ view # None /\ ~moved => view.log = file.log \o reported
    /\ pc = "apply" /\ moved => mark.log = view.log
    /\ pc = "apply" /\ ~moved =>
          mark.log = file.log \o reported /\ view.log = mark.log \o streamed

LEMMA LogFacts ==
    ASSUME NEW s \in Seq(Event), NEW t \in Seq(Event), NEW e \in Event
    PROVE  /\ s \o <<>> = s
           /\ s \o Append(t, e) = Append(s \o t, e)
           /\ Prefix(s, Append(s, e))
           /\ Prefix(s, t) => Prefix(s, Append(t, e))
<1>1. s \o <<>> = s
    BY ConcatEmptySeq
<1>2. s \o Append(t, e) = Append(s \o t, e)
    BY AppendIsConcat, ConcatAssociative, ConcatProperties, EmptySeq
<1>3. \A u \in Seq(Event) : Prefix(u, Append(u, e))
    BY AppendProperties, LenProperties DEF Prefix
<1> QED
    BY <1>1, <1>2, <1>3 DEF Prefix

LEMMA LogConcat ==
    ASSUME NEW s \in Seq(Event), NEW t \in Seq(Event), NEW u \in Seq(Event)
    PROVE  (s \o t) \o u = s \o (t \o u)
BY ConcatAssociative

LEMMA ReportNext == CacheInv /\ ReportInv /\ [Next]_vars => ReportInv'
<1> SUFFICES ASSUME CacheInv, ReportInv, [Next]_vars PROVE ReportInv'
    OBVIOUS
<1>1. /\ file \in Tables /\ Seen \in Tables /\ Fresh(Seen) \in Cache
      /\ \A t \in Tables : t # None /\ t.log \in Seq(Event) /\ t.ids \in Cache
      /\ file.ids \in Cache /\ file.log \in Seq(Event) /\ Seen.log \in Seq(Event)
      /\ Seen # None
    <2>1. file \in Tables /\ Seen \in Tables /\ names \in Cache
        BY DEF CacheInv, TypeOK, Seen, Cache
    <2>2. \A t \in Tables : t # None /\ t.log \in Seq(Event) /\ t.ids \in Cache
        BY NoneIsNoTables, TablesFields
    <2> QED
        BY <2>1, <2>2, FreshType
<1>2. /\ pc = "idle" => view = None
      /\ pc = "apply" => view \in Tables /\ mark \in Tables /\ Seen = view
      /\ reported \in Seq(Event) /\ streamed \in Seq(Event)
      /\ view # None => view \in Tables /\ Seen = view
    BY DEF CacheInv, TypeOK, Seen, Event
<1>3. \A s \in Seq(Event) : s \o <<>> = s /\ <<>> \in Seq(Event)
    BY ConcatEmptySeq, EmptySeq
<1>4. ~moved /\ pc = "view" => Seen.log = file.log \o reported
    BY <1>1, <1>3 DEF ReportInv, Seen
<1>5. ASSUME NEW n \in Name PROVE EventOf(Fresh(Seen), Seen, n) \in Event
    BY <1>1, WriteNumbers
<1>6. ASSUME NEW n \in Name, Transact(n) \/ TransactFails(n) PROVE ReportInv'
    BY <1>2, <1>6 DEF ReportInv, Transact, TransactFails, calls
<1>7. ASSUME NEW n \in Name, OtherCommits(n) PROVE ReportInv'
    <2> DEFINE e == EventOf(file.ids, file, n)
    <2>1. e \in Event /\ file'.log = Append(file.log, e)
        <3>1. file' = Written(file.ids, file, n)
            BY <1>7 DEF OtherCommits
        <3>2. Written(file.ids, file, n).log = Append(file.log, e)
            BY <1>1, WrittenFields
        <3>3. e \in Event
            BY <1>1, WriteNumbers
        <3> QED
            BY <3>1, <3>2, <3>3
    <2> HIDE DEF e
    <2>2. /\ view' = view /\ mark' = mark /\ pc' = pc /\ writing' = writing /\ ~writing
          /\ reported' = reported /\ streamed' = streamed
          /\ reported = <<>> /\ streamed = <<>>
        BY <1>7 DEF OtherCommits, ReportInv, calls
    <2>3. CASE view = None
        <3>1. pc # "apply" /\ ~moved'
            BY <1>1, <1>2, <1>7, <2>3 DEF OtherCommits, ReportInv
        <3> QED
            BY <2>2, <2>3, <3>1 DEF ReportInv
    <2>4. CASE view # None
        <3>1. moved' /\ view.log \in Seq(Event) /\ file.log \in Seq(Event)
            BY <1>1, <1>2, <1>7, <2>4 DEF OtherCommits
        <3>2. pc = "view" \/ pc = "apply"
            BY <2>4 DEF CacheInv, TypeOK
        <3>3. ~moved => view.log = file.log /\ (pc = "apply" => mark.log = view.log)
            BY <1>1, <1>2, <1>3, <2>2, <2>4, <3>2 DEF ReportInv
        <3>4. Prefix(view.log, Append(file.log, e))
            BY <2>1, <2>4, <3>1, <3>3, LogFacts DEF ReportInv
        <3> QED
            BY <2>1, <2>2, <2>4, <3>1, <3>3, <3>4 DEF ReportInv
    <2> QED
        BY <2>3, <2>4
<1>8. ASSUME NEW n \in Name, ViewTransact(n) PROVE ReportInv'
    <2> DEFINE e == EventOf(Fresh(Seen), Seen, n)
    <2>1. /\ view' = Written(Fresh(Seen), Seen, n) /\ reported' = Append(reported, e)
          /\ pc = "view" /\ pc' = pc /\ ~moved /\ moved' = moved /\ writing'
          /\ file' = file /\ streamed' = streamed
        BY <1>8 DEF ViewTransact
    <2>2. view' \in Tables /\ view'.log = Append(Seen.log, e) /\ e \in Event
        BY <1>1, <1>5, <2>1, WrittenFields
    <2> HIDE DEF e
    <2>3. file.log \o Append(reported, e) = Append(file.log \o reported, e)
        BY <1>1, <1>2, <2>2, LogFacts
    <2>4. view'.log = file'.log \o reported' /\ view' # None
        BY <1>1, <1>4, <2>1, <2>2, <2>3
    <2> QED
        BY <2>1, <2>4 DEF ReportInv
<1>9. ASSUME NEW n \in Name, ViewTransactFailsLate(n) PROVE ReportInv'
    <2>1. /\ view' \in Unfinished(Fresh(Seen), Seen, n)
          /\ pc = "view" /\ pc' = pc /\ ~moved /\ moved' = moved /\ writing'
          /\ file' = file /\ streamed' = streamed /\ reported' = reported
        BY <1>9 DEF ViewTransactFailsLate, calls
    <2>2. view' \in Tables /\ view'.log = Seen.log
        BY <1>1, <2>1, WrittenFields
    <2>3. view'.log = file'.log \o reported' /\ view' # None
        BY <1>1, <1>4, <2>1, <2>2
    <2> QED
        BY <2>1, <2>3 DEF ReportInv
<1>10. ASSUME NEW n \in Name, ViewApplyLine(n) PROVE ReportInv'
    <2> DEFINE e == EventOf(Fresh(Seen), Seen, n)
    <2>1. /\ view' = Written(Fresh(Seen), Seen, n) /\ streamed' = Append(streamed, e)
          /\ pc = "apply" /\ pc' = pc /\ ~moved /\ moved' = moved /\ writing'
          /\ file' = file /\ reported' = reported /\ mark' = mark
        BY <1>2, <1>10 DEF ViewApplyLine
    <2>2. view' \in Tables /\ view'.log = Append(view.log, e) /\ e \in Event
        BY <1>1, <1>2, <1>5, <2>1, WrittenFields
    <2> HIDE DEF e
    <2>3. mark.log \o Append(streamed, e) = Append(mark.log \o streamed, e)
        <3>1. mark.log \in Seq(Event)
            BY <1>1, <1>2, <2>1
        <3> QED
            BY <1>2, <2>2, <3>1, LogFacts
    <2>4. view'.log = mark.log \o streamed' /\ view' # None
        BY <1>1, <2>1, <2>2, <2>3 DEF ReportInv
    <2> QED
        BY <2>1, <2>4 DEF ReportInv
<1>11. CASE ViewApplyDone
    <2>1. /\ pc = "apply" /\ pc' = "view" /\ file' = file /\ view' = view
          /\ moved' = moved /\ writing' = writing
          /\ reported' = reported \o streamed /\ streamed' = <<>>
        BY <1>11 DEF ViewApplyDone
    <2>2. ~moved => view.log = file.log \o (reported \o streamed)
        <3>1. ~moved => view.log = (file.log \o reported) \o streamed
            BY <2>1 DEF ReportInv
        <3>2. (file.log \o reported) \o streamed = file.log \o (reported \o streamed)
            BY <1>1, <1>2, LogConcat
        <3> QED
            BY <3>1, <3>2
    <2>3. ~writing => reported \o streamed = <<>>
        BY <1>3 DEF ReportInv
    <2> QED
        BY <1>1, <1>2, <2>1, <2>2, <2>3 DEF ReportInv
<1>12. CASE ViewApplyFails
    <2>1. /\ pc = "apply" /\ pc' = "view" /\ file' = file /\ view' = mark
          /\ moved' = moved /\ writing' = writing
          /\ reported' = reported /\ streamed' = <<>>
        BY <1>12 DEF ViewApplyFails
    <2> QED
        BY <1>1, <1>2, <2>1 DEF ReportInv
<1>13. CASE ViewRead \/ ViewTransactFails \/ ViewApply
    <2>1. /\ pc = "view" /\ pc' \in {"view", "apply"} /\ file' = file /\ view' = Seen
          /\ moved' = moved /\ writing' = writing
          /\ reported' = reported /\ streamed' = streamed
          /\ pc' = "apply" => mark' = Seen
        BY <1>13 DEF ViewRead, ViewTransactFails, ViewApply, calls
    <2>2. moved => view # None
        BY DEF ReportInv
    <2> QED
        BY <1>1, <1>2, <1>3, <1>4, <2>1, <2>2 DEF ReportInv
<1>14. CASE Speculate \/ EndSpeculation
    BY <1>2, <1>14 DEF ReportInv, Speculate, EndSpeculation, calls
<1>15. CASE Read \/ UNCHANGED vars
    <2>1. /\ pc' = pc /\ file' = file /\ view' = view /\ mark' = mark /\ moved' = moved
          /\ writing' = writing /\ reported' = reported /\ streamed' = streamed
        BY <1>15 DEF Read, vars, calls
    <2> QED
        BY <2>1 DEF ReportInv
<1> QED
    BY <1>6, <1>7, <1>8, <1>9, <1>10, <1>11, <1>12, <1>13, <1>14, <1>15 DEF Next

(* What a callback sees on the view, once a call has returned, is the file at
   the view's snapshot and on top of it exactly the events its successful calls
   have reported, in order: no event of an Apply that failed half way, and every
   event of one that succeeded. *)
THEOREM ViewShowsReports == Spec => []ViewIsReported
<1>1. Init => ReportInv
    BY DEF Init, ReportInv
<1>2. CacheInv /\ ReportInv /\ [Next]_vars => ReportInv'
    BY ReportNext
<1>3. CacheInv /\ ReportInv => ViewIsReported
    BY DEF ReportInv, ViewIsReported, Prefix, CacheInv, TypeOK
<1> QED
    BY <1>1, <1>2, <1>3, CacheInvHolds, PTL DEF Spec
=============================================================================
