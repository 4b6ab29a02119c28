--------------------------- MODULE RecoveryProofs ---------------------------
(***************************************************************************)
(* Recovery, proved for every set of activities: any writes, damage,       *)
(* repair, excisions, number of pages copied, failures of any call and     *)
(* crashes of the machine.  First the backup protocol, which leaves what   *)
(* doctor reports on a content unexpanded: it needs only that Verify has   *)
(* asked it about the very file that is published.  Then the content: what *)
(* Put and Excise leave is a file doctor has nothing to say about, and its *)
(* repair brings back exactly what damage to derived rows took.  Last,     *)
(* damage: every row lost or changed that doctor can see makes it report.  *)
(***************************************************************************)
EXTENDS Recovery, TLAPS, FiniteSetTheorems, FunctionTheorems


(* The calls Backup has made when it is at a step: the copy is complete from
   "verify" on, checked from "sync" on, synced from "publish" on and visible
   from "remove" on. *)
Complete == {"verify", "sync", "publish", "remove"}
Checked == {"sync", "publish", "remove"}
Synced == {"publish", "remove"}
Visible == {"remove", "syncdir"}

IsFile(f) ==
    f = [backup |-> f.backup, of |-> f.of, whole |-> f.whole, synced |-> f.synced]

(* The temporary file at each step of Backup. *)
TempOK ==
    /\ \A f \in temp : IsFile(f) /\ f.backup = TRUE
    /\ step \in Complete => temp # {} /\ \A f \in temp : f.whole = TRUE
    /\ step \in Checked => \A f \in temp : DoctorOK(f.of)
    /\ step \in Synced => \A f \in temp : f.synced = TRUE
    /\ step = "syncdir" => temp = {}

(* Whatever can be seen at the destination is synced, a backup there has
   been checked, and it is there before Backup reports success. *)
DestOK ==
    /\ \A f \in dest : f.synced = TRUE
    /\ \A f \in dest : f.backup => f.whole = TRUE /\ DoctorOK(f.of)
    /\ step \in Visible => \E f \in dest : f.backup
    /\ acked => durable = TRUE /\ \E f \in dest : f.backup

IInv == TempOK /\ DestOK /\ NoTempLeft

-----------------------------------------------------------------------------
(* A crash changes nothing that was synced. *)
LEMMA TornSynced ==
  ASSUME NEW there, \A f \in there : f.synced = TRUE
  PROVE  Torn(there) = there
BY DEF Torn

(* What a crash leaves of a temporary file is still one of Backup's. *)
LEMMA TornFile ==
  ASSUME NEW there, \A f \in there : IsFile(f) /\ f.backup = TRUE
  PROVE  \A g \in Torn(there) : IsFile(g) /\ g.backup = TRUE
<1> SUFFICES ASSUME NEW f \in there,
                    NEW g, g = IF f.synced THEN f ELSE [f EXCEPT !.whole = FALSE]
             PROVE  IsFile(g) /\ g.backup = TRUE
  BY DEF Torn
<1>1. CASE f.synced
  BY <1>1
<1>2. CASE ~f.synced
  <2>1. f = [backup |-> f.backup, of |-> f.of, whole |-> f.whole, synced |-> f.synced]
        /\ f.backup = TRUE
    BY DEF IsFile
  <2>2. g = [backup |-> f.backup, of |-> f.of, whole |-> FALSE, synced |-> f.synced]
    BY <1>2, <2>1
  <2> QED BY <2>1, <2>2 DEF IsFile
<1> QED BY <1>1, <1>2

(* fsync marks the temporary file and changes nothing else of it. *)
LEMMA SyncedFile ==
  ASSUME NEW f, IsFile(f),
         NEW g, g = [f EXCEPT !.synced = TRUE]
  PROVE  /\ IsFile(g) /\ g.synced = TRUE
         /\ g.backup = f.backup /\ g.of = f.of /\ g.whole = f.whole
<1>1. f = [backup |-> f.backup, of |-> f.of, whole |-> f.whole, synced |-> f.synced]
  BY DEF IsFile
<1>2. g = [backup |-> f.backup, of |-> f.of, whole |-> f.whole, synced |-> TRUE]
  BY <1>1
<1> QED BY <1>2 DEF IsFile

LEMMA CopyIsFile ==
  ASSUME NEW c, NEW w \in BOOLEAN, NEW f, f = Copy(c, w)
  PROVE  IsFile(f) /\ f.backup = TRUE /\ f.whole = w
BY DEF Copy, IsFile

(* Steps that leave Backup and its files alone, or only make it start over
   or go on copying. *)
LEMMA FilesUnchanged ==
  ASSUME IInv, UNCHANGED <<step, temp, dest, durable, acked, crashed>>
  PROVE  IInv'
BY DEF IInv, TempOK, DestOK, NoTempLeft

LEMMA InitIInv == Init => IInv
BY DEF Init, IInv, TempOK, DestOK, NoTempLeft, Complete, Checked, Synced, Visible

-----------------------------------------------------------------------------
(* Every step of the system keeps the invariant. *)
LEMMA NextIInv == IInv /\ [Next]_vars => IInv'
<1> SUFFICES ASSUME IInv, [Next]_vars PROVE IInv'
  OBVIOUS
<1> USE DEF Complete, Checked, Synced, Visible
<1>1. ASSUME NEW w \in activity.writes, Put(w) PROVE IInv'
  BY <1>1, FilesUnchanged DEF Put, Commit
<1>2. ASSUME NEW sel \in activity.excise, ExciseThing(sel) PROVE IInv'
  BY <1>2, FilesUnchanged DEF ExciseThing, Commit
<1>3. ASSUME NEW basis \in DOMAIN db.events, TakeSnapshot(basis) PROVE IInv'
  BY <1>3, FilesUnchanged DEF TakeSnapshot, files
<1>4. CASE GoesBad
  BY <1>4, FilesUnchanged DEF GoesBad
<1>5. CASE Repair
  BY <1>5, FilesUnchanged DEF Repair, files
<1>6. CASE StreamGoesBad
  BY <1>6, FilesUnchanged DEF StreamGoesBad, files
<1>7. CASE Restore
  BY <1>7, FilesUnchanged DEF Restore, files
<1>8. CASE BeginBackup
  <2> step' = "copy" /\ temp' = {Copy(Null, FALSE)}
    BY <1>8 DEF BeginBackup, Goto
  <2>a. \A f \in temp' : IsFile(f) /\ f.backup = TRUE
    <3> SUFFICES ASSUME NEW f, f = Copy(Null, FALSE) PROVE IsFile(f) /\ f.backup = TRUE
      OBVIOUS
    <3> QED BY CopyIsFile
  <2>1. TempOK'
    BY <2>a DEF TempOK
  <2>2. DestOK' /\ NoTempLeft'
    BY <1>8 DEF BeginBackup, Goto, IInv, DestOK, NoTempLeft
  <2> QED BY <2>1, <2>2 DEF IInv
<1>9. CASE CopyPages
  <2>1. PICK w \in BOOLEAN : w = (pages' = activity.pages)
    OBVIOUS
  <2>2. temp' = {Copy(db, w)} /\ step' = IF w THEN "verify" ELSE "copy"
    BY <1>9, <2>1 DEF CopyPages, Goto
  <2>3. TempOK'
    <3>1. \A f \in temp' : IsFile(f) /\ f.backup = TRUE /\ f.whole = w
      <4> SUFFICES ASSUME NEW f, f = Copy(db, w)
                   PROVE  IsFile(f) /\ f.backup = TRUE /\ f.whole = w
        BY <2>2
      <4> QED BY CopyIsFile
    <3>2. step' \in Complete => w = TRUE
      BY <2>1, <2>2
    <3>3. step' \in Complete => temp' # {} /\ \A f \in temp' : f.whole = TRUE
      BY <2>2, <3>1, <3>2
    <3>4. step' \notin Checked /\ step' \notin Synced /\ step' # "syncdir"
      BY <2>2
    <3> QED BY <3>1, <3>3, <3>4 DEF TempOK
  <2>4. DestOK' /\ NoTempLeft'
    BY <1>9, <2>2 DEF CopyPages, IInv, DestOK, NoTempLeft
  <2> QED BY <2>3, <2>4 DEF IInv
<1>10. CASE Verify
  BY <1>10 DEF Verify, Goto, IInv, TempOK, DestOK, NoTempLeft
<1>11. CASE SyncFile
  <2>1. step = "sync" /\ step' = "publish" /\ temp' = {[f EXCEPT !.synced = TRUE] : f \in temp}
    BY <1>11 DEF SyncFile, Goto
  <2>2. /\ temp # {}
        /\ \A f \in temp : IsFile(f) /\ f.backup = TRUE /\ f.whole = TRUE /\ DoctorOK(f.of)
    BY <2>1 DEF IInv, TempOK
  <2>3. ASSUME NEW g \in temp'
        PROVE  IsFile(g) /\ g.backup = TRUE /\ g.whole = TRUE /\ DoctorOK(g.of) /\ g.synced = TRUE
    <3>1. PICK f \in temp : g = [f EXCEPT !.synced = TRUE]
      BY <2>1, <2>3
    <3>2. g.of = f.of /\ IsFile(g) /\ g.backup = TRUE /\ g.whole = TRUE /\ g.synced = TRUE
      BY <2>2, <3>1, SyncedFile
    <3> QED BY <2>2, <3>2
  <2>4. TempOK'
    BY <2>1, <2>2, <2>3 DEF TempOK
  <2>5. DestOK' /\ NoTempLeft'
    BY <1>11, <2>1 DEF SyncFile, IInv, DestOK, NoTempLeft
  <2> QED BY <2>4, <2>5 DEF IInv
<1>12. CASE Publish
  BY <1>12 DEF Publish, Goto, IInv, TempOK, DestOK, NoTempLeft
<1>13. CASE RemoveTemp
  BY <1>13 DEF RemoveTemp, Goto, IInv, TempOK, DestOK, NoTempLeft
<1>14. CASE SyncDirectory
  <2>1. TempOK' /\ NoTempLeft'
    BY <1>14 DEF SyncDirectory, Goto, IInv, TempOK, NoTempLeft
  <2>2. DestOK'
    BY <1>14 DEF SyncDirectory, Goto, IInv, DestOK
  <2> QED BY <2>1, <2>2 DEF IInv
<1>15. CASE BackupFails
  BY <1>15 DEF BackupFails, Goto, IInv, TempOK, DestOK, NoTempLeft
<1>16. CASE OtherCreates
  <2>1. TempOK' /\ NoTempLeft'
    BY <1>16 DEF OtherCreates, IInv, TempOK, NoTempLeft
  <2>2. ~acked /\ step \notin Visible
    BY <1>16 DEF OtherCreates, IInv, DestOK
  <2>3. DestOK'
    BY <1>16, <2>2 DEF OtherCreates, Foreign, DestOK
  <2> QED BY <2>1, <2>3 DEF IInv
<1>17. CASE MachineCrash
  <2>1. TempOK' /\ NoTempLeft'
    BY <1>17, TornFile DEF MachineCrash, Goto, IInv, TempOK, NoTempLeft
  <2>2. dest' = dest \/ (dest' = {} /\ ~durable)
    BY <1>17, TornSynced DEF MachineCrash, IInv, DestOK
  <2>3. DestOK'
    BY <1>17, <2>2 DEF MachineCrash, Goto, IInv, DestOK
  <2> QED BY <2>1, <2>3 DEF IInv
<1>18. CASE UNCHANGED vars
  BY <1>18, FilesUnchanged DEF vars
<1> QED
  BY <1>1, <1>2, <1>3, <1>4, <1>5, <1>6, <1>7, <1>8, <1>9, <1>10, <1>11, <1>12,
     <1>13, <1>14, <1>15, <1>16, <1>17, <1>18 DEF Next

(* The inductive invariant of the backup protocol. *)
THEOREM Invariance == Spec => []IInv
BY InitIInv, NextIInv, PTL DEF Spec

-----------------------------------------------------------------------------
(* Whatever call of Backup fails, whatever else writes the directory and
   whenever the machine stops: a backup under its name is a complete copy
   doctor accepts, it is there for good once Backup has returned without
   error, and no temporary file is left but by a crash. *)
THEOREM BackupIsSafe == Spec => []BackupSafe
<1>1. IInv => BackupSafe
  BY DEF IInv, DestOK, BackupSafe, BackupWhole, AckedSurvives
<1> QED BY <1>1, Invariance, PTL

(* publishBackup makes a hard link, so nothing that has the destination's
   name is ever replaced; and a crash does not tear it, since a file gets
   that name only after its fsync. *)
THEOREM NothingOverwritten == Spec => NeverOverwritten
<1>1. IInv /\ [Next]_vars => [dest # {} /\ dest' # {} => dest' = dest]_vars
  <2> SUFFICES ASSUME IInv, Next, dest # {}, dest' # {} PROVE dest' = dest
    BY DEF vars
  <2>1. CASE MachineCrash
    BY <2>1, TornSynced DEF MachineCrash, IInv, DestOK
  <2>2. CASE ~MachineCrash
    BY <2>2 DEF Next, Put, ExciseThing, Commit, TakeSnapshot, GoesBad, Repair, StreamGoesBad,
                Restore, BeginBackup, CopyPages, Verify, SyncFile, Publish, RemoveTemp,
                SyncDirectory, BackupFails, OtherCreates, files
  <2> QED BY <2>1, <2>2
<1> QED BY <1>1, Invariance, PTL DEF Spec, NeverOverwritten

-----------------------------------------------------------------------------
(* The content of a file, as the writers leave it. *)
IsContent(c) ==
    c = [registry |-> c.registry, facts |-> c.facts, events |-> c.events, blobs |-> c.blobs,
         fts |-> c.fts, next |-> c.next, row |-> c.row, born |-> c.born]

Ids(c) == FirstUserID..(c.next - 1)
OwnAttr == {At, ImportedAt, Excised}

(* Identities: one per selector, those of events are the transactions, the
   event that made each is there, and the last one is an event's. *)
IdentityOK(c, i) ==
    /\ c.registry[i].sel \in Event \cup Thing
    /\ c.registry[i].sel \in Event <=> i \in DOMAIN c.events
    /\ i \in DOMAIN c.events => c.registry[i].created = i
    /\ c.registry[i].created \in DOMAIN c.events

RegistryOK(c) ==
    /\ c.next \in Nat /\ c.next >= FirstUserID
    /\ DOMAIN c.registry = Ids(c)
    /\ DOMAIN c.events \subseteq Ids(c)
    /\ \A i \in Ids(c) : IdentityOK(c, i)
    /\ \A i, j \in Ids(c) : c.registry[i].sel = c.registry[j].sel => i = j
    /\ c.next = FirstUserID \/ c.next - 1 \in DOMAIN c.events

(* Rows: an application's are on its entities and attributes, a transaction's
   own are on the transaction and stay. *)
Timely(c, i, tx) == i \in Ids(c) /\ c.registry[i].created <= tx
OfThing(c, i, tx) == Timely(c, i, tx) /\ c.registry[i].sel \in Thing

RowOK(c, f) ==
    /\ f = [id |-> f.id, e |-> f.e, a |-> f.a, tag |-> f.tag, v |-> f.v, tx |-> f.tx, rx |-> f.rx]
    /\ f.id \in Nat /\ f.id < c.row
    /\ f.tx \in DOMAIN c.events
    /\ f.rx = 0 \/ (f.rx \in DOMAIN c.events /\ f.rx > f.tx)
    /\ IF f.a \in OwnAttr
       THEN f.e = f.tx /\ f.rx = 0 /\ f.tag = IF f.a = Excised THEN "ref" ELSE "instant"
       ELSE OfThing(c, f.e, f.tx) /\ (f.a = NoHistory \/ OfThing(c, f.a, f.tx))
    /\ f.tag = "ref" => OfThing(c, f.v, f.tx)

RowsOK(c) ==
    /\ c.row \in Nat
    /\ \A f \in c.facts : RowOK(c, f)
    /\ \A f, g \in c.facts : f.id = g.id => f = g
    /\ \A f, g \in c.facts : f.rx = 0 /\ g.rx = 0 /\ f.e = g.e /\ f.a = g.a => f = g
    /\ \A t \in DOMAIN c.events : \E f \in c.facts : f.e = t /\ f.tx = t /\ f.a = At

(* A transaction asserts one row of an application and retracts one, and a
   row is closed before the next one of its cell is open. *)
SparseOK(c) ==
    /\ \A f, g \in c.facts : f.tx = g.tx /\ f.e # f.tx /\ g.e # g.tx => f = g
    /\ \A f, g \in c.facts : f.rx = g.rx /\ f.rx # 0 => f = g
    /\ \A f, g \in c.facts : f.rx = 0 /\ g.rx # 0 /\ f.e = g.e /\ f.a = g.a => g.rx <= f.tx

(* The index and the blobs follow from the rows. *)
DerivedOK(c) ==
    /\ c.fts = ExpectedFTS(c)
    /\ \A b : b \in c.blobs <=> UsesBlob(c.facts, b)

(* Events: the receipt of an excision, whose transaction has nothing but rows
   of its own, or of a write; what is retained agrees with the rows. *)
EventOK(c, t, twice) ==
    LET ev == c.events[t]
        data == ev.hash
    IN  /\ ev = [data |-> ev.data, hash |-> data, op |-> ev.op]
        /\ ev.data \in {<<>>, <<data>>}
        /\ data.event = c.registry[t].sel
        /\ data.redacted \in BOOLEAN
        /\ data.redacted =>
              /\ data.created = <<>> /\ data.asserted = {} /\ data.retracted = {}
              /\ \A f \in c.facts : f.rx # t /\ (f.tx = t => f.e = t)
              /\ ev.data # <<>> => twice \/ Marked(c, t)
        /\ ~data.redacted =>
              /\ data.redacts = {}
              /\ \A f \in c.facts : f.tx = t => f.a # Excised
              /\ ev.data # <<>> => ExportTransaction(c, t) = data \/ MayLoseHistory(c, data)
        /\ ev.data # <<>> => data.at = OriginAt(c, t)
        /\ Marked(c, t) => ev.data # <<>>

ReceiptsOK(c, twice) == \A t \in DOMAIN c.events : EventOK(c, t, twice)

(* Redactions: what an excision names is cleared and older, and what is
   cleared is named by one; the marker names what was excised. *)
Names(c, r, t) == c.registry[t].sel \in c.events[r].hash.redacts
AuditOK(c, done, twice) ==
    /\ \A r \in DOMAIN c.events : Marked(c, r) =>
          \A s \in c.events[r].hash.redacts : \E t \in DOMAIN c.events :
              c.registry[t].sel = s /\ t < r /\ c.events[t].data = <<>>
    /\ ~twice => \A t \in DOMAIN c.events : c.events[t].data = <<>> =>
          \E r \in DOMAIN c.events : Marked(c, r) /\ Names(c, r, t)
    /\ \A f \in c.facts : f.a = Excised => c.registry[f.v].sel \in done

Good(c, done, twice) ==
    /\ IsContent(c) /\ RegistryOK(c) /\ RowsOK(c) /\ SparseOK(c) /\ DerivedOK(c)
    /\ ReceiptsOK(c, twice) /\ AuditOK(c, done, twice)

(* Damage to the index or the blobs: the rest is as before, and no blob that is
   used is missing. *)
OnlyDerived(c, d) ==
    /\ IsContent(c)
    /\ c.registry = d.registry /\ c.facts = d.facts /\ c.events = d.events
    /\ c.next = d.next /\ c.row = d.row /\ c.born = d.born
    /\ d.blobs \subseteq c.blobs

(* The identifiers the genesis fixes, as numbers. *)
LEMMA NumberFacts ==
    /\ GenesisTx = 64 /\ FirstUserID = 65
    /\ At = 1 /\ NoHistory = 7 /\ Excised = 11 /\ ImportedAt = 13
BY DEF GenesisTx, FirstUserID, At, NoHistory, Excised, ImportedAt

(* The largest of a set of numbers is the one no other exceeds. *)
LEMMA LargestIs ==
    ASSUME NEW S \in SUBSET Nat, NEW m \in S, \A x \in S : x <= m
    PROVE  Max(S) = m
<1>1. \E x \in S : \A y \in S : x >= y
  OBVIOUS
<1>2. Max(S) \in S /\ \A y \in S : Max(S) >= y
  BY <1>1, Zenon DEF Max
<1>3. Max(S) \in Nat /\ m \in Nat /\ Max(S) >= m /\ Max(S) <= m
  BY <1>2
<1> QED  BY <1>3

(* Every identity a row mentions is in the registry, and so is its event. *)
LEMMA RowIds ==
    ASSUME NEW c, RegistryOK(c), RowsOK(c), NEW f \in c.facts
    PROVE  /\ f.e \in Ids(c) /\ f.tx \in Ids(c) /\ f.rx \in {0} \cup Ids(c)
           /\ f.a \in 1..GenesisTx \cup Ids(c)
           /\ f.tag = "ref" => f.v \in Ids(c)
           /\ f.tx \in DOMAIN c.events
<1>1. RowOK(c, f) /\ DOMAIN c.events \subseteq Ids(c)
  BY DEF RowsOK, RegistryOK
<1> QED  BY <1>1, NumberFacts DEF RowOK, OwnAttr, OfThing, Timely

(* A row mentions genesis identifiers and registered ones only. *)
LEMMA IdentifiersKnown ==
    ASSUME NEW c, RegistryOK(c), RowsOK(c)
    PROVE  Identifiers(c.facts) \subseteq 1..GenesisTx \cup Ids(c)
<1>1. \A f \in c.facts : /\ f.e \in Ids(c) /\ f.tx \in Ids(c) /\ f.rx \in {0} \cup Ids(c)
                         /\ f.a \in 1..GenesisTx \cup Ids(c)
                         /\ f.tag = "ref" => f.v \in Ids(c)
  BY RowIds
<1> QED  BY <1>1 DEF Identifiers, Ends, RefsOf

(* Of a good file doctor finds the allocator, the registry, the creating events
   and the events' identities in order; *)
LEMMA NoRegistryProblem ==
    ASSUME NEW c, RegistryOK(c), RowsOK(c)
    PROVE  ~AllocatorBehind(c) /\ RegistryGaps(c) = {} /\ UntimelyIdentities(c) = {}
           /\ BadEvents(c) = {}
<1>1. RegistryGaps(c) = {}
  <2>1. \A i \in 1..GenesisTx : ~(i > GenesisTx)
    BY NumberFacts
  <2>2. DOMAIN c.registry = Ids(c)
    BY DEF RegistryOK
  <2> QED  BY <2>1, <2>2, IdentifiersKnown DEF RegistryGaps
<1>2. ~AllocatorBehind(c)
  <2> DEFINE S == {GenesisTx} \cup DOMAIN c.registry \cup Identifiers(c.facts)
  <2>1. c.next \in Nat /\ c.next >= 65 /\ DOMAIN c.registry = Ids(c)
    BY NumberFacts DEF RegistryOK
  <2>2. S \in SUBSET Nat /\ c.next - 1 \in S /\ \A x \in S : x <= c.next - 1
    <3>1. \A x \in 1..GenesisTx \cup Ids(c) : x \in Nat /\ x <= c.next - 1
      BY <2>1, NumberFacts DEF Ids
    <3>2. GenesisTx \in Nat /\ GenesisTx <= c.next - 1
      BY <2>1, NumberFacts
    <3>3. \A x \in S : x \in Nat /\ x <= c.next - 1
      BY <2>1, <3>1, <3>2, IdentifiersKnown
    <3>4. c.next - 1 = GenesisTx \/ c.next - 1 \in Ids(c)
      BY <2>1, NumberFacts DEF Ids
    <3> QED  BY <2>1, <3>3, <3>4
  <2>3. Max(S) = c.next - 1
    BY <2>2, LargestIs
  <2> QED  BY <2>1, <2>3 DEF AllocatorBehind
<1>3. UntimelyIdentities(c) = {}
  <2> SUFFICES ASSUME NEW i \in DOMAIN c.registry, NEW f \in c.facts,
                      i \in {f.e, f.a} \/ (f.tag = "ref" /\ f.v = i),
                      f.tx < c.registry[i].created
               PROVE  FALSE
    BY DEF UntimelyIdentities, RegistryOK, IdentityOK
  <2>1. RowOK(c, f) /\ i \in Ids(c) /\ IdentityOK(c, i)
    BY DEF RowsOK, RegistryOK
  <2>2. DOMAIN c.events \subseteq Nat
    BY NumberFacts DEF RegistryOK, Ids
  <2>3. f.tx \in Nat /\ c.registry[i].created \in Nat
    BY <2>1, <2>2 DEF RowOK, IdentityOK
  <2>4. i # f.tx
    BY <2>1, <2>3 DEF RowOK, IdentityOK
  <2> QED  BY <2>1, <2>3, <2>4, NumberFacts DEF RowOK, OwnAttr, OfThing, Timely, Ids
<1>4. BadEvents(c) = {}
  BY DEF BadEvents, RegistryOK, IdentityOK
<1> QED  BY <1>1, <1>2, <1>3, <1>4

(* the rows, their intervals, cells, blobs and index in order; *)
LEMMA NoRowProblem ==
    ASSUME NEW c, RegistryOK(c), RowsOK(c), DerivedOK(c)
    PROVE  /\ \A f \in c.facts : f.tx \in DOMAIN c.events
           /\ Ends(c.facts) \subseteq DOMAIN c.events
           /\ \A f \in c.facts : f.tag = "textref" => f.v \in c.blobs
           /\ \A f \in c.facts : ~(f.rx # 0 /\ f.rx <= f.tx)
           /\ CrowdedCells(c) = {}
           /\ ~RepairNeeded(c)
<1>1. \A f \in c.facts : RowOK(c, f)
  BY DEF RowsOK
<1>2. DOMAIN c.events \subseteq Nat
  BY NumberFacts DEF RegistryOK, Ids
<1>3. \A f \in c.facts : ~(f.rx # 0 /\ f.rx <= f.tx)
  BY <1>1, <1>2 DEF RowOK
<1>4. CrowdedCells(c) = {}
  BY DEF CrowdedCells, RowsOK
<1>5. ~RepairNeeded(c)
  BY DEF RepairNeeded, DerivedOK
<1>6. \A f \in c.facts : f.tag = "textref" => f.v \in c.blobs
  BY DEF DerivedOK, UsesBlob
<1>7. Ends(c.facts) \subseteq DOMAIN c.events
  BY <1>1 DEF Ends, RowOK
<1> QED  BY <1>1, <1>3, <1>4, <1>5, <1>6, <1>7 DEF RowOK

(* every event has its time, on its transaction; *)
LEMMA TimesThere ==
    ASSUME NEW c, RowsOK(c), NEW t \in DOMAIN c.events
    PROVE  TimeOf(c, t, At) # {}
<1>1. PICK f \in c.facts : f.e = t /\ f.tx = t /\ f.a = At
  BY DEF RowsOK
<1> QED  BY <1>1 DEF TimeOf

(* A registered identifier has the selector of its registry row. *)
LEMMA SelectorIs ==
    ASSUME NEW c, RegistryOK(c), NEW i \in Ids(c)
    PROVE  Selector(c, i) = c.registry[i].sel
BY NumberFacts DEF Selector, RegistryOK, Ids

(* and every retained payload. *)
LEMMA NoPayloadProblem ==
    ASSUME NEW c, RegistryOK(c), RowsOK(c), ReceiptsOK(c, FALSE),
           NEW t \in DOMAIN c.events, c.events[t].data # <<>>
    PROVE  PayloadOK(c, t)
<1>1. EventOK(c, t, FALSE)
  BY DEF ReceiptsOK
<1>2. c.events[t].data = <<c.events[t].hash>>
  BY <1>1 DEF EventOK
<1>3. c.events[t].data[1] = c.events[t].hash
  BY <1>2
<1>4. Selector(c, t) = c.registry[t].sel
  BY SelectorIs DEF RegistryOK
<1> QED  BY <1>1, <1>3, <1>4, TimesThere DEF PayloadOK, EventOK

(* An excision names as many events as it cleared: selectors tell them apart. *)
LEMMA NoRedactionProblem ==
    ASSUME NEW c, NEW done, RegistryOK(c), RowsOK(c), ReceiptsOK(c, FALSE), AuditOK(c, done, FALSE)
    PROVE  RedactionsOK(c)
<1> DEFINE cleared == {t \in DOMAIN c.events : c.events[t].data = <<>>}
           redactors == {t \in DOMAIN c.events \ cleared : Marked(c, t)}
           targets(r) == {t \in DOMAIN c.events : Selector(c, t) \in c.events[r].data[1].redacts}
<1>1. \A t \in DOMAIN c.events : t \in Ids(c) /\ Selector(c, t) = c.registry[t].sel
  BY SelectorIs DEF RegistryOK
<1>2. \A r \in DOMAIN c.events : Marked(c, r) => r \in redactors /\ c.events[r].data[1] = c.events[r].hash
  <2> SUFFICES ASSUME NEW r \in DOMAIN c.events, Marked(c, r)
               PROVE  c.events[r].data # <<>> /\ c.events[r].data[1] = c.events[r].hash
    OBVIOUS
  <2>1. EventOK(c, r, FALSE)
    BY DEF ReceiptsOK
  <2>2. c.events[r].data = <<c.events[r].hash>>
    BY <2>1 DEF EventOK
  <2> QED  BY <2>2
<1>3. \A r \in redactors, t \in DOMAIN c.events : t \in targets(r) <=> Names(c, r, t)
  BY <1>1, <1>2 DEF Names
<1>4. \A r \in redactors : \A t \in targets(r) : t \in cleared /\ t < r
  <2> SUFFICES ASSUME NEW r \in redactors, NEW t \in targets(r) PROVE t \in cleared /\ t < r
    OBVIOUS
  <2>1. Names(c, r, t) /\ Marked(c, r)
    BY <1>3
  <2>2. PICK s \in DOMAIN c.events : c.registry[s].sel = c.registry[t].sel /\ s < r
                                     /\ c.events[s].data = <<>>
    BY <2>1 DEF AuditOK, Names
  <2>3. s = t
    BY <1>1, <2>2 DEF RegistryOK
  <2> QED  BY <2>2, <2>3
<1>5. \A t \in cleared : \E r \in redactors : t \in targets(r)
  <2> SUFFICES ASSUME NEW t \in cleared PROVE \E r \in redactors : t \in targets(r)
    OBVIOUS
  <2>1. PICK r \in DOMAIN c.events : Marked(c, r) /\ Names(c, r, t)
    BY DEF AuditOK
  <2> QED  BY <1>2, <1>3, <2>1
<1>6. ASSUME NEW r \in redactors
      PROVE  Cardinality(targets(r)) = Cardinality(c.events[r].data[1].redacts)
  <2> DEFINE T == targets(r)
             R == c.events[r].data[1].redacts
             g == [t \in T |-> Selector(c, t)]
  <2>1. IsFiniteSet(T)
    <3>1. IsFiniteSet(Ids(c))
      <4>1. FirstUserID \in Int /\ c.next - 1 \in Int
        BY NumberFacts DEF RegistryOK
      <4> QED  BY <4>1, FS_Interval DEF Ids
    <3> QED  BY <1>1, <3>1, FS_Subset
  <2>2. g \in Injection(T, R)
    <3>1. \A s, t \in T : g[s] = g[t] => s = t
      BY <1>1 DEF RegistryOK
    <3>2. g \in [T -> R]
      OBVIOUS
    <3> QED  BY <3>1, <3>2 DEF Injection, IsInjective
  <2>3. \A s \in R : \E t \in T : g[t] = s
    <3> SUFFICES ASSUME NEW s \in R PROVE \E t \in T : g[t] = s
      OBVIOUS
    <3>1. s \in c.events[r].hash.redacts /\ Marked(c, r)
      BY <1>2
    <3>2. PICK t \in DOMAIN c.events : c.registry[t].sel = s
      BY SMTT(30), <3>1 DEF AuditOK
    <3> QED  BY <1>1, <3>2
  <2>4. g \in Bijection(T, R)
    BY <2>2, <2>3 DEF Bijection, Surjection, Injection
  <2>5. Cardinality(T) = Cardinality(R)
    <3>1. ExistsBijection(T, R)
      BY <2>4 DEF ExistsBijection
    <3> HIDE DEF T, R, g
    <3> QED  BY <2>1, <3>1, FS_Bijection
  <2> QED  BY <2>5
<1> QED  BY <1>4, <1>5, <1>6 DEF RedactionsOK

(* The checks of doctorReport, one by one: with none failing there is no problem. *)
LEMMA FatalNothing ==
    ASSUME NEW c, ~AllocatorBehind(c), RegistryGaps(c) = {}, UntimelyIdentities(c) = {},
           BadEvents(c) = {}, \A f \in c.facts : f.tx \in DOMAIN c.events,
           Ends(c.facts) \subseteq DOMAIN c.events,
           \A f \in c.facts : f.tag = "textref" => f.v \in c.blobs,
           \A f \in c.facts : ~(f.rx # 0 /\ f.rx <= f.tx),
           \A t \in DOMAIN c.events : c.events[t].data # <<>> => PayloadOK(c, t),
           RedactionsOK(c), CrowdedCells(c) = {}
    PROVE  Fatal(c) = {}
BY DEF Fatal

(* Doctor has nothing to say about a good file. *)
LEMMA GoodIsQuiet ==
    ASSUME NEW c, NEW done, Good(c, done, FALSE)
    PROVE  DoctorOK(c)
<1>1. Fatal(c) = {}
  BY NoRegistryProblem, NoRowProblem, NoPayloadProblem, NoRedactionProblem, FatalNothing DEF Good
<1> QED  BY <1>1, NoRowProblem DEF DoctorOK, Good

(* A good file is one the program can have written. *)
LEMMA GoodIsSane ==
    ASSUME NEW c, NEW done, NEW twice, Good(c, done, twice)
    PROVE  Sane(c)
<1>1. RegistryOK(c) /\ RowsOK(c)
  BY DEF Good
<1>2. \A f \in c.facts : f.id < c.row /\ f.tx \in DOMAIN c.events /\ f.rx < c.next
  BY SMTT(30), <1>1, RowIds, NumberFacts DEF RowsOK, RowOK, RegistryOK, Ids
<1> QED  BY <1>1, <1>2 DEF Sane, RegistryOK, RowsOK, Ids

-----------------------------------------------------------------------------
(* Numbers in order: the k-th of a finite set of numbers is one of them. *)
LEMMA AscendingIn ==
    ASSUME NEW K \in SUBSET Nat, IsFiniteSet(K)
    PROVE  /\ DOMAIN Ascending(K) = 1..Cardinality(K)
           /\ \A k \in 1..Cardinality(K) : Ascending(K)[k] \in K
<1> DEFINE UpTo(x) == {y \in K : y <= x}
<1>1. Cardinality(K) \in Nat
  BY FS_CardinalityType
<1>2. ASSUME NEW x \in K
      PROVE  /\ IsFiniteSet(UpTo(x)) /\ Cardinality(UpTo(x)) \in 1..Cardinality(K)
  <2>1. UpTo(x) \in SUBSET K /\ UpTo(x) # {}
    OBVIOUS
  <2>2. IsFiniteSet(UpTo(x)) /\ Cardinality(UpTo(x)) <= Cardinality(K)
    BY <2>1, FS_Subset
  <2>3. Cardinality(UpTo(x)) \in Nat /\ Cardinality(UpTo(x)) # 0
    BY <2>1, <2>2, FS_CardinalityType, FS_EmptySet
  <2> QED  BY <1>1, <2>2, <2>3
<1>3. ASSUME NEW i \in K, NEW j \in K, i < j
      PROVE  Cardinality(UpTo(i)) < Cardinality(UpTo(j))
  <2>1. PICK B, C : B = UpTo(i) /\ C = UpTo(j)
    OBVIOUS
  <2>2. i \in Nat /\ j \in Nat /\ \A y \in K : y \in Nat
    OBVIOUS
  <2>3. \A y \in B : y \in C
    BY <1>3, <2>1, <2>2
  <2>4. j \in C /\ j \notin B
    BY <1>3, <2>1, <2>2
  <2>5. IsFiniteSet(C) /\ Cardinality(C) \in Nat /\ Cardinality(B) \in Nat
    BY <1>1, <1>2, <2>1
  <2>6. Cardinality(B) <= Cardinality(C) /\ (Cardinality(C) = Cardinality(B) => C = B)
    <3>1. B \in SUBSET C
      BY <2>3
    <3> QED  BY <2>5, <3>1, FS_Subset
  <2>7. Cardinality(B) < Cardinality(C)
    BY <2>4, <2>5, <2>6
  <2> QED  BY <2>1, <2>7
<1> HIDE DEF UpTo
<1>4. PICK T : T = 1..Cardinality(K)
  OBVIOUS
<1>5. IsFiniteSet(T) /\ Cardinality(T) = Cardinality(K)
  <2>1. PICK b : b = Cardinality(K)
    OBVIOUS
  <2>2. b \in Int /\ 1 \in Int
    BY <1>1, <2>1
  <2>3. IsFiniteSet(1..b) /\ Cardinality(1..b) = IF 1 > b THEN 0 ELSE b - 1 + 1
    BY <2>2, FS_Interval
  <2> QED  BY <1>1, <1>4, <2>1, <2>3
<1>6. PICK g : g = [x \in K |-> Cardinality(UpTo(x))]
  OBVIOUS
<1>7. g \in [K -> T]
  BY <1>2, <1>4, <1>6
<1>8. ASSUME NEW i \in K, NEW j \in K, g[i] = g[j] PROVE i = j
  <2>1. i \in Nat /\ j \in Nat
    OBVIOUS
  <2>2. g[i] = Cardinality(UpTo(i)) /\ g[j] = Cardinality(UpTo(j))
    BY <1>6
  <2>3. PICK m \in Nat : m = Cardinality(UpTo(i))
    BY <1>1, <1>2
  <2>4. PICK n \in Nat : n = Cardinality(UpTo(j))
    BY <1>1, <1>2
  <2>5. m = n
    BY <1>8, <2>2, <2>3, <2>4
  <2>6. i < j => m < n
    BY <1>3, <2>3, <2>4
  <2>7. j < i => n < m
    BY <1>3, <2>3, <2>4
  <2> QED  BY <2>1, <2>5, <2>6, <2>7
<1>9. g \in Injection(K, T)
  BY <1>7, <1>8 DEF Injection, IsInjective
<1>10. g \in Surjection(K, T)
  BY <1>5, <1>9, FS_Injection
<1>11. \A k \in T : \E x \in K : g[x] = k
  BY <1>10, Fun_SurjectionProperties
<1>12. Ascending(K) = [k \in T |-> CHOOSE x \in K : Cardinality(UpTo(x)) = k]
  BY <1>4 DEF Ascending, UpTo
<1>13. ASSUME NEW k \in T PROVE Ascending(K)[k] \in K
  <2>1. \E x \in K : Cardinality(UpTo(x)) = k
    BY <1>6, <1>11
  <2>2. (CHOOSE x \in K : Cardinality(UpTo(x)) = k) \in K
    BY <2>1
  <2> QED  BY <1>12, <2>2
<1> QED  BY <1>4, <1>12, <1>13

-----------------------------------------------------------------------------
(* New identities: the registry goes on. *)

RegistryGrows(c, d, tx, event) ==
    /\ tx \in Nat /\ tx >= c.next /\ d.next = tx + 1
    /\ DOMAIN d.registry = Ids(d)
    /\ \A i \in Ids(c) : d.registry[i] = c.registry[i]
    /\ \A i \in c.next..tx :
          /\ d.registry[i].created = tx
          /\ ~Known(c, d.registry[i].sel)
          /\ d.registry[i].sel \in IF i = tx THEN {event} ELSE Thing
    /\ \A i, j \in c.next..tx : d.registry[i].sel = d.registry[j].sel => i = j
    /\ DOMAIN d.events = DOMAIN c.events \cup {tx}

(* A transaction's identifiers follow the ones there are. *)
LEMMA IdsGrow ==
    ASSUME NEW c, NEW d, NEW tx, NEW event, RegistryOK(c), RegistryGrows(c, d, tx, event)
    PROVE  /\ Ids(c) \subseteq Nat /\ tx \notin Ids(c) /\ \A i \in Ids(c) : i < tx
           /\ Ids(d) = Ids(c) \cup c.next..tx /\ tx \in c.next..tx
           /\ Ids(d) \subseteq Nat
           /\ DOMAIN c.events \subseteq Ids(c)
BY NumberFacts DEF RegistryOK, RegistryGrows, Ids

(* A registry that grows this way stays in order, *)
LEMMA RegistryKept ==
    ASSUME NEW c, NEW d, NEW tx, NEW event \in Event, RegistryOK(c), RegistryGrows(c, d, tx, event)
    PROVE  RegistryOK(d)
<1>0. /\ Ids(c) \subseteq Nat /\ tx \notin Ids(c) /\ \A i \in Ids(c) : i < tx
      /\ Ids(d) = Ids(c) \cup c.next..tx /\ tx \in c.next..tx
      /\ DOMAIN c.events \subseteq Ids(c)
  BY IdsGrow
<1>1. d.next \in Nat /\ d.next >= FirstUserID
  BY NumberFacts DEF RegistryOK, RegistryGrows
<1>2. DOMAIN d.registry = Ids(d) /\ DOMAIN d.events \subseteq Ids(d)
  BY <1>0 DEF RegistryGrows
<1>3. ASSUME NEW i \in Ids(d) PROVE IdentityOK(d, i)
  <2>1. CASE i \in Ids(c)
    <3>1. IdentityOK(c, i) /\ d.registry[i] = c.registry[i] /\ i # tx
      BY <1>0, <2>1 DEF RegistryOK, RegistryGrows
    <3> QED  BY <3>1 DEF IdentityOK, RegistryGrows
  <2>2. CASE i \in c.next..tx
    <3>1. i \notin Ids(c)
      BY <2>2 DEF Ids, RegistryOK, RegistryGrows
    <3>2. i \in DOMAIN d.events <=> i = tx
      BY <1>0, <3>1 DEF RegistryGrows
    <3>3. /\ d.registry[i].created = tx
          /\ d.registry[i].sel \in IF i = tx THEN {event} ELSE Thing
      BY <2>2 DEF RegistryGrows
    <3> QED  BY <3>2, <3>3, SelectorsAssumption DEF IdentityOK, RegistryGrows
  <2> QED  BY <1>0, <2>1, <2>2
<1>4. ASSUME NEW i \in Ids(d), NEW j \in Ids(d), d.registry[i].sel = d.registry[j].sel
      PROVE  i = j
  <2>1. ASSUME NEW m \in Ids(c), NEW n \in c.next..tx PROVE d.registry[m].sel # d.registry[n].sel
    BY DEF RegistryGrows, RegistryOK, Known
  <2>2. CASE i \in Ids(c) /\ j \in Ids(c)
    BY <1>4, <2>2 DEF RegistryOK, RegistryGrows
  <2>3. CASE i \in c.next..tx /\ j \in c.next..tx
    BY <1>4, <2>3 DEF RegistryGrows
  <2> QED  BY <1>0, <1>4, <2>1, <2>2, <2>3
<1>5. d.next - 1 \in DOMAIN d.events
  <2>1. d.next - 1 = tx
    BY DEF RegistryGrows
  <2> QED  BY <2>1 DEF RegistryGrows
<1> QED  BY <1>1, <1>2, <1>3, <1>4, <1>5 DEF RegistryOK

(* and the selectors of old identifiers do not change. *)
LEMMA SelectorsKept ==
    ASSUME NEW c, NEW d, NEW tx, NEW event \in Event, RegistryOK(c), RegistryGrows(c, d, tx, event),
           NEW i \in 1..GenesisTx \cup Ids(c)
    PROVE  Selector(d, i) = Selector(c, i)
<1>1. CASE i \in Ids(c)
  <2>1. RegistryOK(d) /\ i \in Ids(d)
    BY <1>1, RegistryKept, IdsGrow
  <2>2. Selector(c, i) = c.registry[i].sel /\ Selector(d, i) = d.registry[i].sel
    BY <1>1, <2>1, SelectorIs
  <2> QED  BY <1>1, <2>2 DEF RegistryGrows
<1>2. CASE i \in 1..GenesisTx
  BY <1>2, NumberFacts DEF Selector
<1> QED  BY <1>1, <1>2

(* What an earlier event created stays what it created. *)
LEMMA CreatedKept ==
    ASSUME NEW c, NEW d, NEW tx, NEW event \in Event, RegistryOK(c), RegistryGrows(c, d, tx, event),
           NEW t \in DOMAIN c.events
    PROVE  CreatedBy(d, t) = CreatedBy(c, t)
<1> DEFINE Of(x) == {i \in DOMAIN x.registry : x.registry[i].created = t /\ i # t}
<1>1. t # tx
  BY IdsGrow
<1>2. Of(d) = Of(c)
  <2>1. DOMAIN c.registry = Ids(c) /\ DOMAIN d.registry = Ids(c) \cup c.next..tx
    BY IdsGrow DEF RegistryOK, RegistryGrows
  <2>2. \A i \in c.next..tx : d.registry[i].created # t
    BY <1>1 DEF RegistryGrows
  <2>3. \A i \in Ids(c) : d.registry[i] = c.registry[i]
    BY DEF RegistryGrows
  <2> QED  BY <2>1, <2>2, <2>3
<1>3. PICK S : S = Of(c)
  OBVIOUS
<1>4. S \in SUBSET Nat /\ IsFiniteSet(S) /\ S \subseteq Ids(c)
  <2>1. S \subseteq Ids(c)
    BY <1>3 DEF RegistryOK
  <2>2. FirstUserID \in Int /\ c.next - 1 \in Int
    BY NumberFacts DEF RegistryOK
  <2>3. IsFiniteSet(Ids(c))
    BY <2>2, FS_Interval DEF Ids
  <2> QED  BY <2>1, <2>3, FS_Subset, IdsGrow
<1>5. CreatedBy(c, t) = [k \in DOMAIN Ascending(S) |-> c.registry[Ascending(S)[k]].sel]
  BY <1>3 DEF CreatedBy
<1>6. CreatedBy(d, t) = [k \in DOMAIN Ascending(S) |-> d.registry[Ascending(S)[k]].sel]
  BY <1>2, <1>3 DEF CreatedBy
<1>7. \A k \in DOMAIN Ascending(S) : Ascending(S)[k] \in Ids(c)
  BY <1>4, AscendingIn
<1>8. \A k \in DOMAIN Ascending(S) :
          d.registry[Ascending(S)[k]].sel = c.registry[Ascending(S)[k]].sel
  BY <1>7 DEF RegistryGrows
<1> QED  BY <1>5, <1>6, <1>8

(* What a transaction tx does to the rows: some go, some are closed, some are
   new. *)
RowsChange(c, d, tx, gone, shut, new) ==
    /\ gone \subseteq c.facts /\ shut \subseteq c.facts
    /\ \A f \in gone : f.a # At
    /\ \A f \in shut : f \notin gone /\ f.rx = 0 /\ f.a \notin OwnAttr
    /\ \A f : f \in d.facts <=> \/ f \in c.facts /\ f \notin gone /\ f \notin shut
                                \/ \E g \in shut : f = [g EXCEPT !.rx = tx]
                                \/ f \in new
    /\ d.row \in Nat /\ c.row <= d.row
    /\ \A f \in new : RowOK(d, f) /\ f.tx = tx /\ f.rx = 0 /\ f.id >= c.row
    /\ \A f, g \in new : f.id = g.id \/ (f.e = g.e /\ f.a = g.a) => f = g
    /\ \A f \in new, g \in c.facts :
          g \notin gone /\ g \notin shut /\ g.rx = 0 /\ f.e = g.e => f.a # g.a
    /\ \E f \in new : f.e = tx /\ f.a = At
    /\ \A f, g \in new : f.e # tx /\ g.e # tx => f = g
    /\ \A f, g \in shut : f = g

Shutting(f, g, tx) ==
    f = [id |-> g.id, e |-> g.e, a |-> g.a, tag |-> g.tag, v |-> g.v, tx |-> g.tx, rx |-> tx]

(* The transaction number is new to every row. *)
LEMMA NewTx ==
    ASSUME NEW c, RegistryOK(c), RowsOK(c), NEW tx \in Nat, tx >= c.next
    PROVE  /\ tx \notin Ids(c) /\ tx \notin DOMAIN c.events /\ tx # 0
           /\ \A f \in c.facts : f.e # tx /\ f.tx # tx /\ f.rx # tx
<1>1. c.next \in Nat /\ c.next >= 65 /\ DOMAIN c.events \subseteq Ids(c)
  BY NumberFacts DEF RegistryOK
<1>2. tx \notin Ids(c) /\ tx # 0
  BY <1>1, NumberFacts DEF Ids
<1>3. \A f \in c.facts : f.e \in Ids(c) /\ f.tx \in Ids(c) /\ f.rx \in {0} \cup Ids(c)
  BY RowIds
<1> QED  BY <1>1, <1>2, <1>3

(* Where a row of the new file comes from. *)
LEMMA RowFrom ==
    ASSUME NEW c, NEW d, NEW tx, NEW gone, NEW shut, NEW new,
           RowsOK(c), RowsChange(c, d, tx, gone, shut, new), NEW f \in d.facts
    PROVE  \/ f \in c.facts /\ f \notin gone /\ f \notin shut
           \/ \E g \in shut : Shutting(f, g, tx)
           \/ f \in new
<1>1. ASSUME NEW g \in shut, f = [g EXCEPT !.rx = tx] PROVE Shutting(f, g, tx)
  <2>1. RowOK(c, g)
    BY DEF RowsOK, RowsChange
  <2>2. g = [id |-> g.id, e |-> g.e, a |-> g.a, tag |-> g.tag, v |-> g.v, tx |-> g.tx, rx |-> g.rx]
    BY <2>1 DEF RowOK
  <2> QED  BY <1>1, <2>2 DEF Shutting
<1>2. \/ f \in c.facts /\ f \notin gone /\ f \notin shut
      \/ \E g \in shut : f = [g EXCEPT !.rx = tx]
      \/ f \in new
  BY DEF RowsChange
<1> QED  BY <1>1, <1>2

(* A row that is closed is still there, with its end. *)
LEMMA ShutStays ==
    ASSUME NEW c, NEW d, NEW tx, NEW gone, NEW shut, NEW new,
           RowsOK(c), RowsChange(c, d, tx, gone, shut, new), NEW g \in shut
    PROVE  \E f \in d.facts : Shutting(f, g, tx)
<1>1. RowOK(c, g)
  BY DEF RowsOK, RowsChange
<1>2. g = [id |-> g.id, e |-> g.e, a |-> g.a, tag |-> g.tag, v |-> g.v, tx |-> g.tx, rx |-> g.rx]
  BY <1>1 DEF RowOK
<1>3. PICK f : f = [g EXCEPT !.rx = tx]
  OBVIOUS
<1>4. f \in d.facts
  BY <1>3 DEF RowsChange
<1>5. Shutting(f, g, tx)
  BY <1>2, <1>3 DEF Shutting
<1> QED  BY <1>4, <1>5

(* What an entity or attribute was made by stays known. *)
LEMMA TimelyKept ==
    ASSUME NEW c, NEW d, NEW tx, NEW event, RegistryOK(c), RegistryGrows(c, d, tx, event),
           NEW i, NEW t, OfThing(c, i, t)
    PROVE  OfThing(d, i, t)
<1>1. i \in Ids(c) /\ d.registry[i] = c.registry[i]
  BY DEF OfThing, Timely, RegistryGrows
<1>2. i \in Ids(d)
  BY <1>1, IdsGrow
<1> QED  BY <1>1, <1>2 DEF OfThing, Timely

(* Rows that are left alone are as good as before, *)
LEMMA OldRowKept ==
    ASSUME NEW c, NEW d, NEW tx, NEW event, RegistryOK(c), RegistryGrows(c, d, tx, event),
           NEW f, RowOK(c, f), c.row \in Nat, d.row \in Nat, c.row <= d.row
    PROVE  RowOK(d, f)
<1>1. f.id \in Nat /\ f.id < d.row
  BY DEF RowOK
<1>2. DOMAIN c.events \subseteq DOMAIN d.events
  BY DEF RegistryGrows
<1>3. \A i, t : OfThing(c, i, t) => OfThing(d, i, t)
  BY TimelyKept
<1> QED  BY <1>1, <1>2, <1>3 DEF RowOK

(* rows that are closed too, *)
LEMMA ShutRowKept ==
    ASSUME NEW c, NEW d, NEW tx, NEW event, RegistryOK(c), RegistryGrows(c, d, tx, event),
           NEW f, NEW g, RowOK(c, g), c.row \in Nat, d.row \in Nat, c.row <= d.row,
           g.a \notin OwnAttr, Shutting(f, g, tx)
    PROVE  RowOK(d, f)
<1>1. RowOK(d, g)
  BY OldRowKept
<1>2. tx \in DOMAIN d.events
  BY DEF RegistryGrows
<1>3. tx > g.tx
  <2>1. g.tx \in Ids(c) /\ tx \in Nat
    BY DEF RegistryOK, RegistryGrows, RowOK
  <2>2. g.tx < tx /\ g.tx \in Nat
    BY <2>1, IdsGrow
  <2> QED  BY <2>1, <2>2
<1>4. /\ f = [id |-> f.id, e |-> f.e, a |-> f.a, tag |-> f.tag, v |-> f.v, tx |-> f.tx, rx |-> f.rx]
      /\ f.id = g.id /\ f.e = g.e /\ f.a = g.a /\ f.tag = g.tag /\ f.v = g.v /\ f.tx = g.tx
      /\ f.rx = tx
  BY DEF Shutting
<1> QED  BY <1>1, <1>2, <1>3, <1>4 DEF RowOK

(* and so are all of them, with the new ones. *)
LEMMA RowsKept ==
    ASSUME NEW c, NEW d, NEW tx, NEW event, NEW gone, NEW shut, NEW new,
           RegistryOK(c), RowsOK(c), RegistryGrows(c, d, tx, event),
           RowsChange(c, d, tx, gone, shut, new)
    PROVE  RowsOK(d)
<1>0. c.row \in Nat /\ d.row \in Nat /\ c.row <= d.row /\ \A f \in c.facts : RowOK(c, f)
  BY DEF RowsOK, RowsChange
<1>1. tx \in Nat /\ tx # 0
  <2>1. tx \in Nat /\ tx >= c.next /\ c.next \in Nat /\ c.next >= 65
    BY NumberFacts DEF RegistryGrows, RegistryOK
  <2> QED  BY <2>1
<1>2. ASSUME NEW f \in d.facts PROVE RowOK(d, f)
  <2>1. CASE f \in c.facts
    BY <1>0, <2>1, OldRowKept
  <2>2. ASSUME NEW g \in shut, Shutting(f, g, tx) PROVE RowOK(d, f)
    <3>1. g \in c.facts /\ g.a \notin OwnAttr
      BY DEF RowsChange
    <3> QED  BY <1>0, <2>2, <3>1, ShutRowKept
  <2>3. CASE f \in new
    BY <2>3 DEF RowsChange
  <2> QED  BY <2>1, <2>2, <2>3, RowFrom
<1>3. ASSUME NEW f \in d.facts
      PROVE  \/ f \in c.facts /\ f \notin gone /\ f \notin shut /\ f.id \in Nat /\ f.id < c.row
             \/ \E g \in shut : Shutting(f, g, tx) /\ f.id = g.id /\ f.rx = tx /\ g \in c.facts
                                /\ f.id \in Nat /\ f.id < c.row
             \/ f \in new /\ f.id \in Nat /\ f.id >= c.row /\ f.rx = 0
  <2>1. CASE f \in c.facts /\ f \notin gone /\ f \notin shut
    BY <1>0, <2>1 DEF RowOK
  <2>2. ASSUME NEW g \in shut, Shutting(f, g, tx)
        PROVE  f.id = g.id /\ f.rx = tx /\ g \in c.facts /\ f.id \in Nat /\ f.id < c.row
    <3>1. g \in c.facts
      BY DEF RowsChange
    <3>2. g.id \in Nat /\ g.id < c.row
      BY <1>0, <3>1 DEF RowOK
    <3> QED  BY <2>2, <3>1, <3>2 DEF Shutting
  <2>3. CASE f \in new
    <3>1. RowOK(d, f) /\ f.id >= c.row /\ f.rx = 0
      BY <2>3 DEF RowsChange
    <3> QED  BY <2>3, <3>1 DEF RowOK
  <2> QED  BY <2>1, <2>2, <2>3, RowFrom
<1>4. ASSUME NEW f \in d.facts, NEW g \in d.facts, f.id = g.id PROVE f = g
  <2>1. \A x, y \in c.facts : x.id = y.id => x = y
    BY DEF RowsOK
  <2>2. \A x, y \in new : x.id = y.id => x = y
    BY DEF RowsChange
  <2>3. \A x, y, z : Shutting(x, z, tx) /\ Shutting(y, z, tx) => x = y
    BY DEF Shutting
  <2> QED  BY <1>0, <1>3, <1>4, <2>1, <2>2, <2>3
<1>5. ASSUME NEW f \in d.facts, NEW g \in d.facts, f.rx = 0, g.rx = 0, f.e = g.e, f.a = g.a
      PROVE  f = g
  <2>1. \A x \in {f, g} : (x \in c.facts /\ x \notin gone /\ x \notin shut) \/ x \in new
    BY <1>1, <1>3, <1>5
  <2>2. \A x, y \in c.facts : x.rx = 0 /\ y.rx = 0 /\ x.e = y.e /\ x.a = y.a => x = y
    BY DEF RowsOK
  <2>3. \A x, y \in new : x.e = y.e /\ x.a = y.a => x = y
    BY DEF RowsChange
  <2>4. \A x \in new, y \in c.facts :
           y \notin gone /\ y \notin shut /\ y.rx = 0 /\ x.e = y.e => x.a # y.a
    BY DEF RowsChange
  <2> QED  BY <1>5, <2>1, <2>2, <2>3, <2>4
<1>6. ASSUME NEW t \in DOMAIN d.events PROVE \E f \in d.facts : f.e = t /\ f.tx = t /\ f.a = At
  <2>1. CASE t = tx
    <3>1. PICK f \in new : f.e = tx /\ f.a = At
      BY DEF RowsChange
    <3> QED  BY <2>1, <3>1 DEF RowsChange
  <2>2. CASE t \in DOMAIN c.events
    <3>1. PICK f \in c.facts : f.e = t /\ f.tx = t /\ f.a = At
      BY <2>2 DEF RowsOK
    <3>2. f \notin gone /\ f \notin shut
      BY <3>1 DEF RowsChange, OwnAttr
    <3> QED  BY <3>1, <3>2 DEF RowsChange
  <2> QED  BY <2>1, <2>2 DEF RegistryGrows
<1> QED  BY <1>0, <1>2, <1>4, <1>5, <1>6 DEF RowsOK

(* and each transaction still asserts and retracts at most one. *)
LEMMA SparseKept ==
    ASSUME NEW c, NEW d, NEW tx, NEW event, NEW gone, NEW shut, NEW new,
           RegistryOK(c), RowsOK(c), SparseOK(c), RegistryGrows(c, d, tx, event),
           RowsChange(c, d, tx, gone, shut, new)
    PROVE  SparseOK(d)
<1>0. tx \in Nat /\ tx >= c.next
  BY DEF RegistryGrows
<1>1. tx # 0 /\ \A f \in c.facts : /\ f.e # tx /\ f.tx # tx /\ f.rx # tx
                                    /\ f.tx \in Nat /\ f.rx \in Nat /\ f.tx < tx /\ f.rx < tx
  <2>1. c.next \in Nat /\ c.next >= 65 /\ \A t \in DOMAIN c.events : t \in Nat /\ t < c.next
    BY NumberFacts DEF RegistryOK, Ids
  <2>2. \A f \in c.facts : f.tx \in DOMAIN c.events /\ (f.rx = 0 \/ f.rx \in DOMAIN c.events)
    BY DEF RowsOK, RowOK
  <2>3. tx \notin Ids(c) /\ \A f \in c.facts : f.e # tx
    BY <1>0, NewTx
  <2> QED  BY <1>0, <2>1, <2>2, <2>3
<1>2. ASSUME NEW f \in d.facts
      PROVE  \/ f \in c.facts /\ f \notin shut
             \/ \E g \in shut : g \in c.facts /\ Shutting(f, g, tx)
             \/ f \in new /\ f.tx = tx /\ f.rx = 0
  <2>1. \/ f \in c.facts /\ f \notin gone /\ f \notin shut
        \/ \E g \in shut : Shutting(f, g, tx)
        \/ f \in new
    BY RowFrom
  <2>2. /\ shut \subseteq c.facts
        /\ f \in new => f.tx = tx /\ f.rx = 0
    BY DEF RowsChange
  <2> QED  BY <2>1, <2>2
<1>3. \A f, g : Shutting(f, g, tx) => f.e = g.e /\ f.a = g.a /\ f.tx = g.tx /\ f.rx = tx
  BY DEF Shutting
<1>4. \A f, g \in shut : f = g
  BY DEF RowsChange
<1>5. \A x, y, z : Shutting(x, z, tx) /\ Shutting(y, z, tx) => x = y
  BY DEF Shutting
<1>6. \A f \in shut : f.rx = 0
  BY DEF RowsChange
<1>7. ASSUME NEW f \in d.facts, NEW g \in d.facts, f.tx = g.tx, f.e # f.tx, g.e # g.tx
      PROVE  f = g
  <2>1. CASE f.tx = tx
    <3>1. f \in new /\ g \in new
      BY <1>1, <1>2, <1>3, <1>7, <2>1
    <3> QED  BY <1>7, <2>1, <3>1 DEF RowsChange
  <2>2. CASE f.tx # tx
    <3>1. \A x \in {f, g} : \/ x \in c.facts /\ x \notin shut
                            \/ \E z \in shut : z \in c.facts /\ Shutting(x, z, tx)
      BY <1>2, <1>7, <2>2
    <3>2. \A x, y \in c.facts : x.tx = y.tx /\ x.e # x.tx /\ y.e # y.tx => x = y
      BY DEF SparseOK
    <3> QED  BY <1>3, <1>4, <1>5, <1>7, <3>1, <3>2
  <2> QED  BY <2>1, <2>2
<1>8. ASSUME NEW f \in d.facts, NEW g \in d.facts, f.rx = g.rx, f.rx # 0 PROVE f = g
  <2>1. CASE f.rx = tx
    BY ZenonT(60), <1>1, <1>2, <1>4, <1>5, <1>8, <2>1
  <2>2. CASE f.rx # tx
    <3>1. f \in c.facts /\ g \in c.facts
      BY <1>2, <1>3, <1>8, <2>2
    <3> QED  BY <1>8, <3>1 DEF SparseOK
  <2> QED  BY <2>1, <2>2
<1>9. ASSUME NEW f \in d.facts, NEW g \in d.facts, f.rx = 0, g.rx # 0, f.e = g.e, f.a = g.a
      PROVE  g.rx <= f.tx
  <2>1. CASE f \in new
    <3>1. f.tx = tx /\ g.rx \in Nat /\ g.rx <= tx
      BY <1>0, <1>1, <1>2, <1>3, <1>9, <2>1 DEF RowsChange
    <3> QED  BY <3>1
  <2>2. CASE f \notin new
    <3>1. f \in c.facts /\ f \notin shut
      BY <1>1, <1>2, <1>3, <1>9, <2>2
    <3>2. CASE g \in c.facts
      BY <1>9, <3>1, <3>2 DEF SparseOK
    <3>3. ASSUME NEW z \in shut, z \in c.facts, Shutting(g, z, tx) PROVE FALSE
      <4>1. z.e = f.e /\ z.a = f.a /\ z.rx = 0
        BY <1>3, <1>6, <1>9, <3>3
      <4>2. z = f
        BY <1>9, <3>1, <3>3, <4>1 DEF RowsOK
      <4> QED  BY <3>1, <4>2
    <3> QED  BY <1>2, <1>9, <3>2, <3>3
  <2> QED  BY <2>1, <2>2
<1> QED  BY <1>7, <1>8, <1>9 DEF SparseOK

-----------------------------------------------------------------------------
(* The index and the blobs go with the rows. *)
DerivedChange(c, d, gone, shut, new) ==
    /\ \A r : r \in d.fts <=>
          \/ r \in c.fts /\ \A f \in gone \cup shut : f.id # r.id
          \/ \E f \in new : f.tag \in Texts /\ r = [id |-> f.id, text |-> f.v]
    /\ \A b : b \in d.blobs <=> UsesBlob(d.facts, b)

(* The index and the blobs follow when they are changed with the rows. *)
LEMMA DerivedKept ==
    ASSUME NEW c, NEW d, NEW tx, NEW event, NEW gone, NEW shut, NEW new,
           RegistryOK(c), RowsOK(c), DerivedOK(c), RegistryGrows(c, d, tx, event),
           RowsChange(c, d, tx, gone, shut, new), DerivedChange(c, d, gone, shut, new)
    PROVE  DerivedOK(d)
<1>1. tx # 0
  <2>1. tx \in Nat /\ tx >= c.next /\ c.next \in Nat /\ c.next >= 65
    BY NumberFacts DEF RegistryGrows, RegistryOK
  <2> QED  BY <2>1
<1>2. \A r : r \in c.fts <=> \E f \in c.facts : f.rx = 0 /\ f.tag \in Texts /\ r = [id |-> f.id, text |-> f.v]
  BY DEF DerivedOK, ExpectedFTS
<1>3. ASSUME NEW r \in d.fts
      PROVE  \E f \in d.facts : f.rx = 0 /\ f.tag \in Texts /\ r = [id |-> f.id, text |-> f.v]
  <2>1. ASSUME r \in c.fts, \A f \in gone \cup shut : f.id # r.id
        PROVE  \E f \in d.facts : f.rx = 0 /\ f.tag \in Texts /\ r = [id |-> f.id, text |-> f.v]
    <3>1. PICK f \in c.facts : f.rx = 0 /\ f.tag \in Texts /\ r = [id |-> f.id, text |-> f.v]
      BY <1>2, <2>1
    <3>2. f \notin gone /\ f \notin shut
      BY <2>1, <3>1
    <3> QED  BY <3>1, <3>2 DEF RowsChange
  <2>2. ASSUME NEW f \in new, f.tag \in Texts, r = [id |-> f.id, text |-> f.v]
        PROVE  f \in d.facts /\ f.rx = 0
    BY DEF RowsChange
  <2> QED  BY <2>1, <2>2 DEF DerivedChange
<1>4. ASSUME NEW f \in d.facts, f.rx = 0, f.tag \in Texts,
             NEW r, r = [id |-> f.id, text |-> f.v]
      PROVE  r \in d.fts
  <2>1. CASE f \in c.facts /\ f \notin gone /\ f \notin shut
    <3>1. r \in c.fts
      BY <1>2, <1>4, <2>1
    <3>2. \A g \in gone \cup shut : g \in c.facts
      BY DEF RowsChange
    <3>3. \A g \in c.facts : g.id = f.id => g = f
      BY <2>1 DEF RowsOK
    <3>4. r.id = f.id
      BY <1>4
    <3>5. \A g \in gone \cup shut : g.id # r.id
      BY <2>1, <3>2, <3>3, <3>4
    <3> QED  BY <3>1, <3>5 DEF DerivedChange
  <2>2. ASSUME NEW g \in shut, Shutting(f, g, tx) PROVE FALSE
    BY <1>1, <1>4, <2>2 DEF Shutting
  <2>3. CASE f \in new
    BY <1>4, <2>3 DEF DerivedChange
  <2> QED  BY <2>1, <2>2, <2>3, RowFrom
<1>5. d.fts = ExpectedFTS(d)
  BY <1>3, <1>4 DEF ExpectedFTS
<1> QED  BY <1>5 DEF DerivedOK, DerivedChange

-----------------------------------------------------------------------------
(* What a transaction does to the events: some are cleared, and it adds its
   own, whose receipt is h. *)
EventsChange(c, d, tx, R, h, op) ==
    /\ R \subseteq DOMAIN c.events
    /\ \A t \in DOMAIN c.events :
          d.events[t] = [data |-> IF t \in R THEN <<>> ELSE c.events[t].data,
                         hash |-> c.events[t].hash, op |-> c.events[t].op]
    /\ d.events[tx] = [data |-> <<h>>, hash |-> h, op |-> op]
    /\ h.redacts = {c.registry[t].sel : t \in R}

(* The rows that go: of events that are cleared, or history given up; a
   declaration of nohistory goes only with the events it is about. *)
GoneRightly(c, gone, R) ==
    /\ \A f \in gone :
          \/ f.tx \in R /\ (f.rx # 0 => f.rx \in R)
          \/ f.rx = 0 /\ f.a \notin OwnAttr /\ DeletesHistory(c, f.a)
    /\ \A f \in gone, t \in DOMAIN c.events :
          f.a = NoHistory /\ f.v = 1 /\ c.events[t].data # <<>>
          /\ (\E x \in c.events[t].hash.asserted \cup c.events[t].hash.retracted :
                 x.a = Selector(c, f.e))
          => t \in R

AuditChange(c, d, tx, gone, R, done, twice, done2, twice2) ==
    /\ R # {} => Marked(d, tx)
    /\ \A t \in R : ~Marked(d, t)
    /\ ~twice2 => ~twice /\ \A f \in gone : f.a # Excised
    /\ twice => twice2
    /\ done \subseteq done2
    /\ \A f \in d.facts : f.tx = tx /\ f.a = Excised => d.registry[f.v].sel \in done2

(* Every earlier transaction has a smaller number, its identity and its selector. *)
LEMMA OldTx ==
    ASSUME NEW c, NEW d, NEW tx, NEW event, RegistryOK(c), RegistryGrows(c, d, tx, event),
           NEW t \in DOMAIN c.events
    PROVE  t \in Nat /\ t \in Ids(c) /\ t < tx /\ t # tx /\ t # 0 /\ d.registry[t] = c.registry[t]
           /\ Selector(c, t) = c.registry[t].sel /\ tx \in Nat
<1>1. t \in Ids(c) /\ t \in Nat /\ t < tx /\ tx \in Nat
  BY ZenonT(60), IdsGrow DEF RegistryGrows
<1>2. t # 0
  BY <1>1, NumberFacts DEF Ids, RegistryOK
<1>3. Selector(c, t) = c.registry[t].sel
  BY <1>1, SelectorIs
<1> QED  BY <1>1, <1>2, <1>3 DEF RegistryGrows

(* Tuples of old rows stay. *)
LEMMA TupleKept ==
    ASSUME NEW c, NEW d, NEW tx, NEW event \in Event, RegistryOK(c), RowsOK(c),
           RegistryGrows(c, d, tx, event), NEW f \in c.facts
    PROVE  Tuple(d, f) = Tuple(c, f)
<1>1. f.e \in 1..GenesisTx \cup Ids(c) /\ f.a \in 1..GenesisTx \cup Ids(c)
      /\ (f.tag = "ref" => f.v \in 1..GenesisTx \cup Ids(c))
  BY RowIds
<1>2. \A i \in 1..GenesisTx \cup Ids(c) : Selector(d, i) = Selector(c, i)
  BY SelectorsKept
<1>3. Selector(d, f.e) = Selector(c, f.e) /\ Selector(d, f.a) = Selector(c, f.a)
      /\ (f.tag = "ref" => Selector(d, f.v) = Selector(c, f.v))
  BY <1>1, <1>2
<1> QED  BY <1>3 DEF Tuple

(* Closing a row does not change what an export says of it. *)
LEMMA ShutTuple ==
    ASSUME NEW d, NEW f, NEW g, NEW tx, Shutting(f, g, tx)
    PROVE  Tuple(d, f) = Tuple(d, g)
BY DEF Shutting, Tuple

(* The times of an earlier event, unless rows of it went. *)
LEMMA TimesKept ==
    ASSUME NEW c, NEW d, NEW tx, NEW event, NEW gone, NEW shut, NEW new,
           RegistryOK(c), RowsOK(c), RegistryGrows(c, d, tx, event),
           RowsChange(c, d, tx, gone, shut, new), NEW t \in DOMAIN c.events,
           NEW a \in {At, ImportedAt}, \A f \in gone : f.a \in OwnAttr => f.tx # t
    PROVE  TimeOf(d, t, a) = TimeOf(c, t, a)
<1>1. t # tx
  BY OldTx
<1>2. ASSUME NEW f \in c.facts, f.e = t, f.tx = t, f.a = a PROVE f \in d.facts
  <2>1. f \notin gone /\ f \notin shut
    BY <1>2 DEF RowsChange, OwnAttr
  <2> QED  BY <2>1 DEF RowsChange
<1>3. ASSUME NEW f \in d.facts, f.e = t, f.tx = t, f.a = a PROVE f \in c.facts
  <2>1. ASSUME NEW g \in shut, Shutting(f, g, tx) PROVE FALSE
    <3>1. g.a \notin OwnAttr
      BY DEF RowsChange
    <3> QED  BY <1>3, <2>1, <3>1 DEF Shutting, OwnAttr
  <2>2. f \notin new
    BY <1>1, <1>3 DEF RowsChange
  <2> QED  BY <2>1, <2>2, RowFrom
<1> QED  BY <1>2, <1>3 DEF TimeOf

(* The time an event was written is not touched by later transactions. *)
LEMMA OriginKept ==
    ASSUME NEW c, NEW d, NEW tx, NEW event, NEW gone, NEW shut, NEW new,
           RegistryOK(c), RowsOK(c), RegistryGrows(c, d, tx, event),
           RowsChange(c, d, tx, gone, shut, new), NEW t \in DOMAIN c.events,
           \A f \in gone : f.a \in OwnAttr => f.tx # t
    PROVE  OriginAt(d, t) = OriginAt(c, t)
<1>1. TimeOf(d, t, At) = TimeOf(c, t, At) /\ TimeOf(d, t, ImportedAt) = TimeOf(c, t, ImportedAt)
  BY TimesKept
<1> QED  BY <1>1 DEF OriginAt

(* An earlier event of which no row went is exported as before. *)
LEMMA ExportKept ==
    ASSUME NEW c, NEW d, NEW tx, NEW event \in Event, NEW gone, NEW shut, NEW new,
           RegistryOK(c), RowsOK(c), RegistryGrows(c, d, tx, event),
           RowsChange(c, d, tx, gone, shut, new), NEW t \in DOMAIN c.events,
           \A f \in gone : f.tx # t /\ f.rx # t
    PROVE  ExportTransaction(d, t) = ExportTransaction(c, t)
<1>0. t # tx /\ t # 0 /\ t \in Ids(c)
  BY OldTx
<1>1. OriginAt(d, t) = OriginAt(c, t)
  BY OriginKept
<1>2. CreatedBy(d, t) = CreatedBy(c, t)
  BY CreatedKept
<1>3. Selector(d, t) = Selector(c, t)
  BY <1>0, SelectorsKept
<1>4. ASSUME NEW f \in d.facts, f.tx = t \/ f.rx = t
      PROVE  \E g \in c.facts : /\ g.tx = f.tx /\ g.e = f.e /\ (f.rx = t => g.rx = t)
                                /\ Tuple(c, g) = Tuple(d, f)
  <2>1. CASE f \in c.facts
    BY <2>1, TupleKept
  <2>2. ASSUME NEW g \in shut, Shutting(f, g, tx)
        PROVE  /\ g \in c.facts /\ g.tx = f.tx /\ g.e = f.e /\ f.rx # t
               /\ Tuple(c, g) = Tuple(d, f)
    <3>1. g \in c.facts
      BY DEF RowsChange
    <3>2. Tuple(d, f) = Tuple(d, g) /\ Tuple(d, g) = Tuple(c, g)
      BY <2>2, <3>1, ShutTuple, TupleKept
    <3>3. g.tx = f.tx /\ g.e = f.e /\ f.rx # t
      BY <1>0, <2>2 DEF Shutting
    <3> QED  BY <3>1, <3>2, <3>3
  <2>3. f \notin new
    BY <1>0, <1>4 DEF RowsChange
  <2> QED  BY <2>1, <2>2, <2>3, RowFrom
<1>5. ASSUME NEW g \in c.facts, g.tx = t \/ g.rx = t
      PROVE  \E f \in d.facts : /\ g.tx = f.tx /\ g.e = f.e /\ (g.rx = t => f.rx = t)
                                /\ Tuple(c, g) = Tuple(d, f)
  <2>1. g \notin gone
    BY <1>5
  <2>2. CASE g \notin shut
    <3>1. g \in d.facts
      BY <2>1, <2>2 DEF RowsChange
    <3> QED  BY <3>1, TupleKept
  <2>3. CASE g \in shut
    <3>1. PICK f \in d.facts : Shutting(f, g, tx)
      BY <2>3, ShutStays
    <3>2. Tuple(d, f) = Tuple(d, g) /\ Tuple(d, g) = Tuple(c, g)
      BY <3>1, ShutTuple, TupleKept
    <3>3. g.tx = f.tx /\ g.e = f.e
      BY <3>1 DEF Shutting
    <3>4. g.rx # t
      BY <1>0, <2>3 DEF RowsChange
    <3> QED  BY <3>2, <3>3, <3>4
  <2> QED  BY <2>2, <2>3
<1>6. {Tuple(d, f) : f \in {g \in d.facts : g.tx = t /\ g.e # t}}
      = {Tuple(c, f) : f \in {g \in c.facts : g.tx = t /\ g.e # t}}
  <2>1. ASSUME NEW x \in {Tuple(d, f) : f \in {g \in d.facts : g.tx = t /\ g.e # t}}
        PROVE  x \in {Tuple(c, f) : f \in {g \in c.facts : g.tx = t /\ g.e # t}}
    <3>1. PICK f \in d.facts : f.tx = t /\ f.e # t /\ x = Tuple(d, f)
      OBVIOUS
    <3>2. PICK g \in c.facts : g.tx = f.tx /\ g.e = f.e /\ Tuple(c, g) = Tuple(d, f)
      BY <1>4, <3>1
    <3> QED  BY <3>1, <3>2
  <2>2. ASSUME NEW x \in {Tuple(c, f) : f \in {g \in c.facts : g.tx = t /\ g.e # t}}
        PROVE  x \in {Tuple(d, f) : f \in {g \in d.facts : g.tx = t /\ g.e # t}}
    <3>1. PICK f \in c.facts : f.tx = t /\ f.e # t /\ x = Tuple(c, f)
      OBVIOUS
    <3>2. PICK g \in d.facts : f.tx = g.tx /\ f.e = g.e /\ Tuple(c, f) = Tuple(d, g)
      BY <1>5, <3>1
    <3> QED  BY <3>1, <3>2
  <2> QED  BY <2>1, <2>2
<1>7. {Tuple(d, f) : f \in {g \in d.facts : g.rx = t}}
      = {Tuple(c, f) : f \in {g \in c.facts : g.rx = t}}
  <2>1. ASSUME NEW x \in {Tuple(d, f) : f \in {g \in d.facts : g.rx = t}}
        PROVE  x \in {Tuple(c, f) : f \in {g \in c.facts : g.rx = t}}
    <3>1. PICK f \in d.facts : f.rx = t /\ x = Tuple(d, f)
      OBVIOUS
    <3>2. PICK g \in c.facts : (f.rx = t => g.rx = t) /\ Tuple(c, g) = Tuple(d, f)
      BY <1>4, <3>1
    <3> QED  BY <3>1, <3>2
  <2>2. ASSUME NEW x \in {Tuple(c, f) : f \in {g \in c.facts : g.rx = t}}
        PROVE  x \in {Tuple(d, f) : f \in {g \in d.facts : g.rx = t}}
    <3>1. PICK f \in c.facts : f.rx = t /\ x = Tuple(c, f)
      OBVIOUS
    <3>2. PICK g \in d.facts : (f.rx = t => g.rx = t) /\ Tuple(c, f) = Tuple(d, g)
      BY <1>5, <3>1
    <3> QED  BY <3>1, <3>2
  <2> QED  BY <2>1, <2>2
<1> QED  BY <1>1, <1>2, <1>3, <1>6, <1>7 DEF ExportTransaction

(* Once an attribute has given up history, that stays on record. *)
LEMMA MayLoseKept ==
    ASSUME NEW c, NEW d, NEW tx, NEW event \in Event, NEW gone, NEW shut, NEW new, NEW R,
           RegistryOK(c), RowsOK(c), RegistryGrows(c, d, tx, event),
           RowsChange(c, d, tx, gone, shut, new), GoneRightly(c, gone, R),
           NEW t \in DOMAIN c.events, t \notin R, c.events[t].data # <<>>,
           MayLoseHistory(c, c.events[t].hash)
    PROVE  MayLoseHistory(d, c.events[t].hash)
<1>1. PICK x \in c.events[t].hash.asserted \cup c.events[t].hash.retracted, f \in c.facts :
          f.a = NoHistory /\ f.v = 1 /\ Selector(c, f.e) = x.a
  BY DEF MayLoseHistory
<1>2. f \notin gone
  BY <1>1 DEF GoneRightly
<1>3. Selector(d, f.e) = x.a
  <2>1. f.e \in 1..GenesisTx \cup Ids(c)
    BY RowIds
  <2>2. Selector(d, f.e) = Selector(c, f.e)
    BY <2>1, SelectorsKept
  <2> QED  BY <1>1, <2>2
<1>4. \E g \in d.facts : g.a = NoHistory /\ g.v = 1 /\ g.e = f.e
  <2>1. CASE f \in shut
    <3>1. PICK g \in d.facts : Shutting(g, f, tx)
      BY <2>1, ShutStays
    <3> QED  BY <1>1, <3>1 DEF Shutting
  <2>2. CASE f \notin shut
    BY <1>1, <1>2, <2>2 DEF RowsChange
  <2> QED  BY <2>1, <2>2
<1> QED  BY <1>3, <1>4 DEF MayLoseHistory

(* History given up is history of an event that may lose it. *)
LEMMA GoneMayLose ==
    ASSUME NEW c, RegistryOK(c), RowsOK(c), NEW f \in c.facts, NEW t \in DOMAIN c.events,
           f.tx = t, f.a \notin OwnAttr, DeletesHistory(c, f.a)
    PROVE  MayLoseHistory(c, ExportTransaction(c, t))
<1>1. PICK g \in c.facts : g.e = f.a /\ g.a = NoHistory /\ g.v = 1
  BY DEF DeletesHistory
<1>2. f.e # t
  <2>1. RowOK(c, f) /\ t \in Ids(c) /\ IdentityOK(c, t)
    BY DEF RowsOK, RegistryOK
  <2> QED  BY <2>1, SelectorsAssumption DEF RowOK, OfThing, IdentityOK
<1>3. PICK x : x = Tuple(c, f)
  OBVIOUS
<1>4. x \in ExportTransaction(c, t).asserted
  BY <1>2, <1>3 DEF ExportTransaction
<1>5. x.a = Selector(c, g.e)
  BY <1>1, <1>3 DEF Tuple
<1> QED  BY <1>1, <1>4, <1>5 DEF MayLoseHistory

(* The audit marker of an earlier excision stays, *)
LEMMA MarkKept ==
    ASSUME NEW c, NEW d, NEW tx, NEW event, NEW gone, NEW shut, NEW new,
           RegistryOK(c), RowsOK(c), RegistryGrows(c, d, tx, event),
           RowsChange(c, d, tx, gone, shut, new), NEW t \in DOMAIN c.events, Marked(c, t),
           \A f \in gone : f.a = Excised => f.tx # t
    PROVE  Marked(d, t)
<1>1. PICK f \in c.facts : f.e = t /\ f.a = Excised /\ f.tx = t /\ f.rx = 0
  BY DEF Marked
<1>2. f \notin gone /\ f \notin shut
  BY <1>1 DEF RowsChange, OwnAttr
<1>3. f \in d.facts
  BY <1>2 DEF RowsChange
<1> QED  BY <1>1, <1>3 DEF Marked

(* and no later transaction makes one. *)
LEMMA MarkWas ==
    ASSUME NEW c, NEW d, NEW tx, NEW event, NEW gone, NEW shut, NEW new,
           RegistryOK(c), RowsOK(c), RegistryGrows(c, d, tx, event),
           RowsChange(c, d, tx, gone, shut, new), NEW t \in DOMAIN c.events, Marked(d, t)
    PROVE  Marked(c, t)
<1>1. PICK f \in d.facts : f.e = t /\ f.a = Excised /\ f.tx = t /\ f.rx = 0
  BY DEF Marked
<1>2. f \notin new
  BY <1>1, OldTx DEF RowsChange
<1>3. ASSUME NEW g \in shut, Shutting(f, g, tx) PROVE FALSE
  <2>1. g.a \notin OwnAttr
    BY DEF RowsChange
  <2> QED  BY <1>1, <1>3, <2>1 DEF Shutting, OwnAttr
<1>4. f \in c.facts
  BY <1>2, <1>3, RowFrom
<1> QED  BY <1>1, <1>4 DEF Marked

(* Earlier events stay as they should be. *)
LEMMA OldEventKept ==
    ASSUME NEW c, NEW d, NEW tx, NEW event \in Event, NEW gone, NEW shut, NEW new, NEW R,
           NEW h, NEW op, NEW done, NEW twice, NEW done2, NEW twice2,
           RegistryOK(c), RowsOK(c), ReceiptsOK(c, twice), RegistryGrows(c, d, tx, event),
           RowsChange(c, d, tx, gone, shut, new), EventsChange(c, d, tx, R, h, op),
           GoneRightly(c, gone, R), AuditChange(c, d, tx, gone, R, done, twice, done2, twice2),
           NEW t \in DOMAIN c.events
    PROVE  EventOK(d, t, twice2)
<1> DEFINE data == c.events[t].hash
<1>0. t # tx /\ t # 0 /\ t \in Ids(c) /\ d.registry[t] = c.registry[t]
  BY OldTx
<1>1. EventOK(c, t, twice)
  BY DEF ReceiptsOK
<1>2. /\ d.events[t] = [data |-> IF t \in R THEN <<>> ELSE c.events[t].data,
                        hash |-> c.events[t].hash, op |-> c.events[t].op]
      /\ d.events[t].hash = data
      /\ d.events[t].data = IF t \in R THEN <<>> ELSE c.events[t].data
      /\ d.events[t].op = c.events[t].op
  BY DEF EventsChange
<1>3. /\ c.events[t].data \in {<<>>, <<data>>} /\ data.event = c.registry[t].sel
      /\ data.redacted \in BOOLEAN
  BY <1>1 DEF EventOK
<1>4. ASSUME d.events[t].data # <<>>
      PROVE  /\ t \notin R /\ c.events[t].data # <<>>
             /\ \A f \in gone : f.a \in OwnAttr => f.tx # t
  BY <1>2, <1>4 DEF GoneRightly
<1>5. ASSUME NEW f \in d.facts
      PROVE  \/ f \in c.facts
             \/ \E g \in c.facts : /\ g.tx = f.tx /\ g.e = f.e /\ g.a = f.a /\ f.rx = tx
                                   /\ f.a \notin OwnAttr
             \/ f.tx = tx /\ f.rx = 0
  <2>1. ASSUME NEW g \in shut, Shutting(f, g, tx)
        PROVE  /\ g \in c.facts /\ g.tx = f.tx /\ g.e = f.e /\ g.a = f.a /\ f.rx = tx
               /\ f.a \notin OwnAttr
    <3>1. g \in c.facts /\ g.a \notin OwnAttr
      BY DEF RowsChange
    <3> QED  BY <2>1, <3>1 DEF Shutting
  <2>2. ASSUME f \in new PROVE f.tx = tx /\ f.rx = 0
    BY <2>2 DEF RowsChange
  <2> QED  BY <2>1, <2>2, RowFrom
<1>6. ASSUME data.redacted
      PROVE  /\ data.created = <<>> /\ data.asserted = {} /\ data.retracted = {}
             /\ \A f \in d.facts : f.rx # t /\ (f.tx = t => f.e = t)
             /\ d.events[t].data # <<>> => twice2 \/ Marked(d, t)
  <2>1. /\ data.created = <<>> /\ data.asserted = {} /\ data.retracted = {}
        /\ \A f \in c.facts : f.rx # t /\ (f.tx = t => f.e = t)
        /\ c.events[t].data # <<>> => twice \/ Marked(c, t)
    BY <1>1, <1>6 DEF EventOK
  <2>2. \A f \in d.facts : f.rx # t /\ (f.tx = t => f.e = t)
    BY <1>0, <1>5, <2>1
  <2>3. ASSUME d.events[t].data # <<>> PROVE twice2 \/ Marked(d, t)
    <3>1. c.events[t].data # <<>> /\ \A f \in gone : f.a \in OwnAttr => f.tx # t
      BY <1>4, <2>3
    <3>2. CASE Marked(c, t)
      <4>1. \A f \in gone : f.a = Excised => f.tx # t
        BY <3>1 DEF OwnAttr
      <4> QED  BY <3>2, <4>1, MarkKept
    <3>3. CASE twice
      BY <3>3 DEF AuditChange
    <3> QED  BY <2>1, <3>1, <3>2, <3>3
  <2> QED  BY <2>1, <2>2, <2>3
<1>7. ASSUME ~data.redacted
      PROVE  /\ data.redacts = {}
             /\ \A f \in d.facts : f.tx = t => f.a # Excised
             /\ d.events[t].data # <<>> => ExportTransaction(d, t) = data \/ MayLoseHistory(d, data)
  <2>1. /\ data.redacts = {}
        /\ \A f \in c.facts : f.tx = t => f.a # Excised
        /\ c.events[t].data # <<>> => ExportTransaction(c, t) = data \/ MayLoseHistory(c, data)
    BY <1>1, <1>7 DEF EventOK
  <2>2. \A f \in d.facts : f.tx = t => f.a # Excised
    BY <1>0, <1>5, <2>1 DEF OwnAttr
  <2>3. ASSUME d.events[t].data # <<>>
        PROVE  ExportTransaction(d, t) = data \/ MayLoseHistory(d, data)
    <3>1. t \notin R /\ c.events[t].data # <<>>
      BY <1>4, <2>3
    <3>2. CASE MayLoseHistory(c, data)
      BY <3>1, <3>2, MayLoseKept
    <3>3. CASE ExportTransaction(c, t) = data /\ \A f \in gone : f.tx # t /\ f.rx # t
      BY <3>3, ExportKept
    <3>4. ASSUME ExportTransaction(c, t) = data, NEW f \in gone, f.tx = t \/ f.rx = t
          PROVE  MayLoseHistory(c, data)
      <4>1. f.rx = 0 /\ f.a \notin OwnAttr /\ DeletesHistory(c, f.a)
        BY <1>0, <3>1, <3>4 DEF GoneRightly
      <4>2. f \in c.facts /\ f.tx = t
        BY <1>0, <3>4, <4>1 DEF RowsChange
      <4> QED  BY <3>4, <4>1, <4>2, GoneMayLose
    <3> QED  BY <2>1, <3>1, <3>2, <3>3, <3>4
  <2> QED  BY <2>1, <2>2, <2>3
<1>8. ASSUME d.events[t].data # <<>> PROVE data.at = OriginAt(d, t)
  <2>1. c.events[t].data # <<>> /\ OriginAt(d, t) = OriginAt(c, t)
    BY <1>4, <1>8, OriginKept
  <2> QED  BY <1>1, <2>1 DEF EventOK
<1>9. ASSUME Marked(d, t) PROVE d.events[t].data # <<>>
  <2>1. Marked(c, t) /\ t \notin R
    BY <1>9, MarkWas DEF AuditChange
  <2>2. c.events[t].data # <<>>
    BY <1>1, <2>1 DEF EventOK
  <2> QED  BY <1>2, <2>1, <2>2
<1>10. /\ d.events[t] = [data |-> d.events[t].data, hash |-> data, op |-> d.events[t].op]
       /\ d.events[t].data \in {<<>>, <<data>>}
  BY <1>2, <1>3
<1> HIDE DEF data
<1> QED  BY <1>0, <1>2, <1>3, <1>6, <1>7, <1>8, <1>9, <1>10 DEF EventOK

(* What excisions name and what is cleared keep agreeing. *)
LEMMA AuditKept ==
    ASSUME NEW c, NEW d, NEW tx, NEW event \in Event, NEW gone, NEW shut, NEW new, NEW R,
           NEW h, NEW op, NEW done, NEW twice, NEW done2, NEW twice2,
           RegistryOK(c), RowsOK(c), AuditOK(c, done, twice), RegistryGrows(c, d, tx, event),
           RowsChange(c, d, tx, gone, shut, new), EventsChange(c, d, tx, R, h, op),
           AuditChange(c, d, tx, gone, R, done, twice, done2, twice2)
    PROVE  AuditOK(d, done2, twice2)
<1>0. /\ DOMAIN d.events = DOMAIN c.events \cup {tx}
      /\ \A t \in DOMAIN c.events : t \in Nat /\ t < tx /\ d.registry[t] = c.registry[t] /\ t \in Ids(c)
  <2>1. DOMAIN d.events = DOMAIN c.events \cup {tx}
    BY DEF RegistryGrows
  <2>2. ASSUME NEW t \in DOMAIN c.events
        PROVE  t \in Nat /\ t < tx /\ d.registry[t] = c.registry[t] /\ t \in Ids(c)
    BY OldTx
  <2> QED  BY <2>1, <2>2
<1>1. ASSUME NEW t \in DOMAIN c.events
      PROVE  /\ d.events[t].hash = c.events[t].hash
             /\ d.events[t].data = IF t \in R THEN <<>> ELSE c.events[t].data
  <2>1. d.events[t] = [data |-> IF t \in R THEN <<>> ELSE c.events[t].data,
                       hash |-> c.events[t].hash, op |-> c.events[t].op]
    BY DEF EventsChange
  <2> QED  BY <2>1
<1>2. d.events[tx].hash.redacts = {c.registry[t].sel : t \in R} /\ R \subseteq DOMAIN c.events
      /\ d.events[tx].data # <<>>
  BY DEF EventsChange
<1>3. ASSUME NEW r \in DOMAIN d.events, Marked(d, r), NEW s \in d.events[r].hash.redacts
      PROVE  \E t \in DOMAIN d.events : d.registry[t].sel = s /\ t < r /\ d.events[t].data = <<>>
  <2>1. CASE r = tx
    <3>1. PICK t \in R : c.registry[t].sel = s
      BY <1>2, <1>3, <2>1
    <3> QED  BY <1>0, <1>1, <1>2, <2>1, <3>1
  <2>2. CASE r \in DOMAIN c.events
    <3>1. Marked(c, r)
      BY <1>3, <2>2, MarkWas
    <3>2. s \in c.events[r].hash.redacts
      BY <1>1, <1>3, <2>2
    <3>3. PICK t \in DOMAIN c.events : c.registry[t].sel = s /\ t < r /\ c.events[t].data = <<>>
      BY <2>2, <3>1, <3>2 DEF AuditOK
    <3> QED  BY <1>0, <1>1, <3>3
  <2> QED  BY <1>0, <2>1, <2>2
<1>4. ASSUME ~twice2, NEW t \in DOMAIN d.events, d.events[t].data = <<>>
      PROVE  \E r \in DOMAIN d.events : Marked(d, r) /\ Names(d, r, t)
  <2>0. t \in DOMAIN c.events
    BY <1>0, <1>2, <1>4
  <2>1. CASE t \in R
    <3>1. Marked(d, tx) /\ tx \in DOMAIN d.events
      BY <1>0, <2>1 DEF AuditChange
    <3>2. Names(d, tx, t)
      BY <1>0, <1>2, <2>0, <2>1 DEF Names
    <3> QED  BY <3>1, <3>2
  <2>2. CASE t \notin R
    <3>1. ~twice /\ \A f \in gone : f.a # Excised
      BY <1>4 DEF AuditChange
    <3>2. PICK r \in DOMAIN c.events : Marked(c, r) /\ Names(c, r, t)
      BY <1>1, <1>4, <2>0, <2>2, <3>1 DEF AuditOK
    <3>3. Marked(d, r)
      BY <3>1, <3>2, MarkKept
    <3>4. Names(d, r, t)
      BY <1>0, <1>1, <2>0, <3>2 DEF Names
    <3> QED  BY <1>0, <3>3, <3>4
  <2> QED  BY <2>1, <2>2
<1>5. ASSUME NEW f \in d.facts, f.a = Excised PROVE d.registry[f.v].sel \in done2
  <2>1. CASE f \in c.facts
    <3>1. RowOK(c, f) /\ f.tag = "ref"
      BY <1>5, <2>1, NumberFacts DEF RowsOK, RowOK, OwnAttr
    <3>2. f.v \in Ids(c)
      BY <3>1 DEF RowOK, OfThing, Timely
    <3>3. d.registry[f.v] = c.registry[f.v]
      BY <3>2 DEF RegistryGrows
    <3>4. c.registry[f.v].sel \in done
      BY <1>5, <2>1 DEF AuditOK
    <3> QED  BY <3>3, <3>4 DEF AuditChange
  <2>2. ASSUME NEW g \in shut, Shutting(f, g, tx) PROVE FALSE
    <3>1. g.a \notin OwnAttr
      BY DEF RowsChange
    <3> QED  BY <1>5, <2>2, <3>1 DEF Shutting, OwnAttr
  <2>3. CASE f \in new
    BY <1>5, <2>3 DEF RowsChange, AuditChange
  <2> QED  BY <2>1, <2>2, <2>3, RowFrom
<1> QED  BY <1>3, <1>4, <1>5 DEF AuditOK

(* A transaction that changes rows, index, blobs, events and audit like that
   leaves a good file good. *)
LEMMA ChangeKeepsGood ==
    ASSUME NEW c, NEW d, NEW tx, NEW event \in Event, NEW gone, NEW shut, NEW new, NEW R,
           NEW h, NEW op, NEW done, NEW twice, NEW done2, NEW twice2,
           Good(c, done, twice), IsContent(d), RegistryGrows(c, d, tx, event),
           RowsChange(c, d, tx, gone, shut, new), DerivedChange(c, d, gone, shut, new),
           EventsChange(c, d, tx, R, h, op), GoneRightly(c, gone, R),
           AuditChange(c, d, tx, gone, R, done, twice, done2, twice2),
           EventOK(d, tx, twice2)
    PROVE  Good(d, done2, twice2)
<1>0. /\ RegistryOK(c) /\ RowsOK(c) /\ SparseOK(c) /\ DerivedOK(c)
      /\ ReceiptsOK(c, twice) /\ AuditOK(c, done, twice)
  BY DEF Good
<1>1. RegistryOK(d)
  BY <1>0, RegistryKept
<1>2. RowsOK(d)
  BY <1>0, RowsKept
<1>3. DerivedOK(d)
  BY <1>0, DerivedKept
<1>4. ReceiptsOK(d, twice2)
  <2>1. \A t \in DOMAIN c.events : EventOK(d, t, twice2)
    BY <1>0, OldEventKept
  <2>2. DOMAIN d.events = DOMAIN c.events \cup {tx}
    BY DEF RegistryGrows
  <2> QED  BY <2>1, <2>2 DEF ReceiptsOK
<1>5. AuditOK(d, done2, twice2)
  BY <1>0, AuditKept
<1>6. SparseOK(d)
  BY <1>0, SparseKept
<1> QED  BY <1>1, <1>2, <1>3, <1>4, <1>5, <1>6 DEF Good

-----------------------------------------------------------------------------
(* What each step of a write does to each table. *)
LEMMA AllocateFields ==
    ASSUME NEW c, IsContent(c), NEW new, NEW event, NEW o, o = Allocate(c, new, event),
           NEW tx, tx = c.next + Len(new)
    PROVE  /\ IsContent(o)
           /\ o.registry = [i \in DOMAIN c.registry \cup c.next..tx |->
                               IF i \in DOMAIN c.registry THEN c.registry[i]
                               ELSE [sel |-> IF i = tx THEN event ELSE new[i - c.next + 1],
                                     created |-> tx]]
           /\ o.facts = c.facts /\ o.events = c.events /\ o.blobs = c.blobs /\ o.fts = c.fts
           /\ o.next = tx + 1 /\ o.row = c.row /\ o.born = c.born
BY DEF IsContent, Allocate

(* InsertFact adds one row, its index entry and its blob. *)
LEMMA InsertFields ==
    ASSUME NEW c, IsContent(c), NEW e, NEW a, NEW tag, NEW v, NEW tx,
           NEW o, o = InsertFact(c, e, a, tag, v, tx)
    PROVE  /\ IsContent(o)
           /\ o.registry = c.registry /\ o.events = c.events /\ o.next = c.next
           /\ o.born = c.born /\ o.row = c.row + 1
           /\ o.facts = c.facts \cup {[id |-> c.row, e |-> e, a |-> a, tag |-> tag, v |-> v,
                                       tx |-> tx, rx |-> 0]}
           /\ o.blobs = IF tag = "textref" THEN c.blobs \cup {v} ELSE c.blobs
           /\ o.fts = IF tag \in Texts THEN c.fts \cup {[id |-> c.row, text |-> v]} ELSE c.fts
BY DEF IsContent, InsertFact

(* A row without text adds nothing else. *)
LEMMA PlainInsert ==
    ASSUME NEW c, IsContent(c), NEW e, NEW a, NEW tag, NEW v, NEW tx,
           NEW o, o = InsertFact(c, e, a, tag, v, tx), tag \notin Texts
    PROVE  /\ IsContent(o)
           /\ o.registry = c.registry /\ o.events = c.events /\ o.next = c.next
           /\ o.row = c.row + 1 /\ o.blobs = c.blobs /\ o.fts = c.fts
           /\ o.facts = c.facts \cup {[id |-> c.row, e |-> e, a |-> a, tag |-> tag, v |-> v,
                                       tx |-> tx, rx |-> 0]}
<1>1. tag # "textref"
  BY DEF Texts
<1> QED  BY <1>1 DEF IsContent, InsertFact

(* Unindexed drops the index entries of the rows and nothing else. *)
LEMMA UnindexedFields ==
    ASSUME NEW c, IsContent(c), NEW rows, NEW o, o = Unindexed(c, rows)
    PROVE  /\ IsContent(o)
           /\ o.registry = c.registry /\ o.facts = c.facts /\ o.events = c.events
           /\ o.blobs = c.blobs /\ o.next = c.next /\ o.row = c.row /\ o.born = c.born
           /\ o.fts = {r \in c.fts : \A f \in rows : f.id # r.id}
BY DEF IsContent, Unindexed

(* Collected drops the blobs no row uses and nothing else. *)
LEMMA CollectedFields ==
    ASSUME NEW c, IsContent(c), NEW o, o = Collected(c)
    PROVE  /\ IsContent(o)
           /\ o.registry = c.registry /\ o.facts = c.facts /\ o.events = c.events
           /\ o.fts = c.fts /\ o.next = c.next /\ o.row = c.row /\ o.born = c.born
           /\ o.blobs = {b \in c.blobs : UsesBlob(c.facts, b)}
BY DEF IsContent, Collected

RecordTables(c, o, tx, data, op) ==
    /\ IsContent(o)
    /\ o.registry = c.registry /\ o.facts = c.facts /\ o.blobs = c.blobs
    /\ o.fts = c.fts /\ o.next = c.next /\ o.row = c.row /\ o.born = c.born
    /\ o.events = [t \in DOMAIN c.events \cup {tx} |->
          IF t = tx THEN [data |-> <<data>>, hash |-> data, op |-> op] ELSE c.events[t]]

(* Record adds the event and nothing else. *)
LEMMA RecordFields ==
    ASSUME NEW c, IsContent(c), NEW tx, NEW data, NEW op, NEW o, o = Record(c, tx, data, op)
    PROVE  RecordTables(c, o, tx, data, op)
BY DEF IsContent, Record, RecordTables

(* Replacing the rows leaves the other tables. *)
LEMMA FactsFields ==
    ASSUME NEW c, IsContent(c), NEW rows, NEW o, o = [c EXCEPT !.facts = rows]
    PROVE  /\ IsContent(o)
           /\ o.registry = c.registry /\ o.facts = rows /\ o.events = c.events /\ o.fts = c.fts
           /\ o.blobs = c.blobs /\ o.next = c.next /\ o.row = c.row /\ o.born = c.born
BY DEF IsContent

(* Replacing the events leaves the other tables. *)
LEMMA EventsFields ==
    ASSUME NEW c, IsContent(c), NEW events, NEW o, o = [c EXCEPT !.events = events]
    PROVE  /\ IsContent(o)
           /\ o.registry = c.registry /\ o.facts = c.facts /\ o.events = events /\ o.fts = c.fts
           /\ o.blobs = c.blobs /\ o.next = c.next /\ o.row = c.row /\ o.born = c.born
BY DEF IsContent

(* A selector that is known is that of one identity. *)
LEMMA IdOfKnown ==
    ASSUME NEW c, RegistryOK(c), NEW sel, Known(c, sel)
    PROVE  IdOf(c, sel) \in Ids(c) /\ c.registry[IdOf(c, sel)].sel = sel
BY DEF RegistryOK, Known, IdOf

-----------------------------------------------------------------------------
(* Excision. *)
MarkRow(c, i, tx) == [id |-> c.row + 1, e |-> tx, a |-> Excised, tag |-> "ref", v |-> i, tx |-> tx, rx |-> 0]
TimeRow(c, tx) == [id |-> c.row, e |-> tx, a |-> At, tag |-> "instant", v |-> tx, tx |-> tx, rx |-> 0]

RowsOn(c, i) == {f \in c.facts : Mentions(f, i)}
OwnRows(c, i, tx) == {TimeRow(c, tx), MarkRow(c, i, tx)}
Receipt(c, event, tx, R) ==
    [event |-> event, at |-> {tx}, created |-> <<>>, asserted |-> {}, retracted |-> {},
     redacted |-> TRUE, redacts |-> {Selector(c, t) : t \in R}]

ExciseTables(c, d, rows, R, i, tx, event, h, op) ==
    /\ d.registry = [j \in DOMAIN c.registry \cup {tx} |->
                        IF j \in DOMAIN c.registry THEN c.registry[j]
                        ELSE [sel |-> event, created |-> tx]]
    /\ d.facts = (c.facts \ rows) \cup OwnRows(c, i, tx)
    /\ d.blobs = {b \in c.blobs : UsesBlob(c.facts \ rows, b)}
    /\ d.fts = {r \in c.fts : \A f \in rows : f.id # r.id}
    /\ d.next = tx + 1 /\ d.row = c.row + 2
    /\ d.events = [t \in DOMAIN c.events \cup {tx} |->
          IF t = tx THEN [data |-> <<h>>, hash |-> h, op |-> op]
          ELSE [c.events[t] EXCEPT !.data = IF t \in R THEN <<>> ELSE @]]

(* An excision, table by table. *)
LEMMA ExciseFields ==
    ASSUME NEW c, IsContent(c), c.next \in Nat, c.row \in Nat, NEW sel, NEW event, NEW op,
           NEW i, i = IdOf(c, sel), NEW rows, rows = RowsOn(c, i),
           NEW R, R = Redact(c, i, sel), NEW tx, tx = c.next,
           NEW h, h = Receipt(c, event, tx, R),
           NEW d, d = Excise(c, sel, event, op)
    PROVE  IsContent(d) /\ ExciseTables(c, d, rows, R, i, tx, event, h, op)
<1> DEFINE o == Allocate(c, <<>>, event)
           ev == [t \in DOMAIN c.events |-> [c.events[t] EXCEPT !.data = IF t \in R THEN <<>> ELSE @]]
<1>1. /\ IsContent(o) /\ o.facts = c.facts /\ o.events = c.events /\ o.blobs = c.blobs
      /\ o.fts = c.fts /\ o.next = tx + 1 /\ o.row = c.row
      /\ o.registry = [j \in DOMAIN c.registry \cup {tx} |->
                         IF j \in DOMAIN c.registry THEN c.registry[j]
                         ELSE [sel |-> event, created |-> tx]]
  <2>1. tx = c.next + Len(<<>>)
    OBVIOUS
  <2>2. PICK oo : oo = o
    OBVIOUS
  <2>3. /\ IsContent(oo)
        /\ oo.registry = [j \in DOMAIN c.registry \cup c.next..tx |->
                               IF j \in DOMAIN c.registry THEN c.registry[j]
                               ELSE [sel |-> IF j = tx THEN event ELSE <<>>[j - c.next + 1],
                                     created |-> tx]]
        /\ oo.facts = c.facts /\ oo.events = c.events /\ oo.blobs = c.blobs /\ oo.fts = c.fts
        /\ oo.next = tx + 1 /\ oo.row = c.row /\ oo.born = c.born
    BY <2>1, <2>2 DEF IsContent, Allocate
  <2>4. c.next..tx = {tx}
    OBVIOUS
  <2>5. oo.registry = [j \in DOMAIN c.registry \cup {tx} |->
                         IF j \in DOMAIN c.registry THEN c.registry[j]
                         ELSE [sel |-> event, created |-> tx]]
    <3> DEFINE A(j) == IF j \in DOMAIN c.registry THEN c.registry[j]
                       ELSE [sel |-> IF j = tx THEN event ELSE <<>>[j - c.next + 1], created |-> tx]
               B(j) == IF j \in DOMAIN c.registry THEN c.registry[j]
                       ELSE [sel |-> event, created |-> tx]
    <3>1. \A j \in DOMAIN c.registry \cup {tx} : A(j) = B(j)
      OBVIOUS
    <3>2. oo.registry = [j \in DOMAIN c.registry \cup {tx} |-> A(j)]
      BY <2>3, <2>4
    <3> HIDE DEF A, B
    <3>3. oo.registry = [j \in DOMAIN c.registry \cup {tx} |-> B(j)]
      BY <3>1, <3>2
    <3> QED  BY <3>3 DEF B
  <2> QED  BY <2>2, <2>3, <2>5
<1> HIDE DEF ev, o
<1>2. PICK p : p = [o EXCEPT !.events = ev]
  OBVIOUS
<1>3. /\ IsContent(p) /\ p.registry = o.registry /\ p.facts = c.facts /\ p.events = ev
      /\ p.fts = c.fts /\ p.blobs = c.blobs /\ p.next = tx + 1 /\ p.row = c.row
  BY <1>1, <1>2, EventsFields
<1>4. PICK q : q = [p EXCEPT !.facts = @ \ rows]
  OBVIOUS
<1>5. /\ IsContent(q) /\ q.registry = o.registry /\ q.facts = c.facts \ rows /\ q.events = ev
      /\ q.fts = c.fts /\ q.blobs = c.blobs /\ q.next = tx + 1 /\ q.row = c.row
  <2>1. q = [p EXCEPT !.facts = c.facts \ rows]
    BY <1>3, <1>4
  <2>2. IsContent(p)
    BY <1>3
  <2>3. PICK rest : rest = c.facts \ rows
    OBVIOUS
  <2>4. /\ IsContent(q)
        /\ q.registry = p.registry /\ q.facts = rest /\ q.events = p.events /\ q.fts = p.fts
        /\ q.blobs = p.blobs /\ q.next = p.next /\ q.row = p.row
    BY <2>1, <2>2, <2>3, FactsFields
  <2> QED  BY <1>3, <2>3, <2>4
<1>6. PICK u : u = Unindexed(q, rows)
  OBVIOUS
<1>7. /\ IsContent(u) /\ u.registry = o.registry /\ u.facts = c.facts \ rows /\ u.events = ev
      /\ u.fts = {r \in c.fts : \A f \in rows : f.id # r.id}
      /\ u.blobs = c.blobs /\ u.next = tx + 1 /\ u.row = c.row
  <2>1. /\ IsContent(u)
        /\ u.registry = q.registry /\ u.facts = q.facts /\ u.events = q.events
        /\ u.blobs = q.blobs /\ u.next = q.next /\ u.row = q.row
        /\ u.fts = {r \in q.fts : \A f \in rows : f.id # r.id}
    <3>1. IsContent(q)
      BY <1>5
    <3> QED  BY <1>6, <3>1, UnindexedFields
  <2> QED  BY <1>5, <2>1
<1>8. PICK w : w = Collected(u)
  OBVIOUS
<1>9. /\ IsContent(w) /\ w.registry = o.registry /\ w.facts = c.facts \ rows /\ w.events = ev
      /\ w.fts = u.fts /\ w.blobs = {b \in c.blobs : UsesBlob(c.facts \ rows, b)}
      /\ w.next = tx + 1 /\ w.row = c.row
  <2>1. /\ IsContent(w)
        /\ w.registry = u.registry /\ w.facts = u.facts /\ w.events = u.events
        /\ w.fts = u.fts /\ w.next = u.next /\ w.row = u.row
        /\ w.blobs = {b \in u.blobs : UsesBlob(u.facts, b)}
    <3>1. IsContent(u)
      BY <1>7
    <3> QED  BY <1>8, <3>1, CollectedFields
  <2> QED  BY <1>7, <2>1
<1>10. PICK m : m = InsertFact(w, tx, At, "instant", tx, tx)
  OBVIOUS
<1>11. /\ IsContent(m) /\ m.registry = o.registry /\ m.events = ev /\ m.fts = u.fts
       /\ m.facts = (c.facts \ rows) \cup {TimeRow(c, tx)}
       /\ m.blobs = w.blobs /\ m.next = tx + 1 /\ m.row = c.row + 1
  <2>1. "instant" \notin Texts /\ "instant" # "textref"
    BY DEF Texts
  <2>2. /\ IsContent(m)
        /\ m.registry = w.registry /\ m.events = w.events /\ m.next = w.next
        /\ m.row = w.row + 1 /\ m.blobs = w.blobs /\ m.fts = w.fts
        /\ m.facts = w.facts \cup {[id |-> w.row, e |-> tx, a |-> At, tag |-> "instant", v |-> tx,
                                    tx |-> tx, rx |-> 0]}
    <3>1. IsContent(w)
      BY <1>9
    <3> QED  BY <1>10, <2>1, <3>1, PlainInsert
  <2> QED  BY <1>9, <2>2 DEF TimeRow
<1>12. PICK n : n = InsertFact(m, tx, Excised, "ref", i, tx)
  OBVIOUS
<1>13. /\ IsContent(n) /\ n.registry = o.registry /\ n.events = ev /\ n.fts = u.fts
       /\ n.facts = (c.facts \ rows) \cup OwnRows(c, i, tx)
       /\ n.blobs = w.blobs /\ n.next = tx + 1 /\ n.row = c.row + 2
  <2>1. "ref" \notin Texts /\ "ref" # "textref"
    BY DEF Texts
  <2>2. /\ IsContent(n)
        /\ n.registry = m.registry /\ n.events = m.events /\ n.next = m.next
        /\ n.row = m.row + 1 /\ n.blobs = m.blobs /\ n.fts = m.fts
        /\ n.facts = m.facts \cup {[id |-> m.row, e |-> tx, a |-> Excised, tag |-> "ref", v |-> i,
                                    tx |-> tx, rx |-> 0]}
    <3>1. IsContent(m)
      BY <1>11
    <3> QED  BY <1>12, <2>1, <3>1, PlainInsert
  <2>3. c.row + 1 + 1 = c.row + 2
    OBVIOUS
  <2>4. n.facts = m.facts \cup {MarkRow(c, i, tx)}
    BY <1>11, <2>2 DEF MarkRow
  <2> QED  BY <1>11, <2>2, <2>3, <2>4 DEF OwnRows
<1>14. d = Record(n, tx, h, op)
  <2>1. tx = o.next - 1
    BY <1>1
  <2>2. d = Record(InsertFact(InsertFact(Collected(Unindexed([[o EXCEPT !.events = ev]
                EXCEPT !.facts = @ \ rows], rows)), tx, At, "instant", tx, tx),
                tx, Excised, "ref", i, tx), tx, h, op)
    BY <2>1 DEF Excise, o, ev, Receipt, RowsOn
  <2> QED  BY <1>2, <1>4, <1>6, <1>8, <1>10, <1>12, <2>2
<1>15. /\ IsContent(d) /\ d.registry = n.registry /\ d.facts = n.facts /\ d.blobs = n.blobs
       /\ d.fts = n.fts /\ d.next = n.next /\ d.row = n.row
       /\ d.events = [t \in DOMAIN n.events \cup {tx} |->
            IF t = tx THEN [data |-> <<h>>, hash |-> h, op |-> op] ELSE n.events[t]]
  <2>1. IsContent(n)
    BY <1>13
  <2>2. RecordTables(n, d, tx, h, op)
    BY <1>14, <2>1, RecordFields
  <2> QED  BY <2>2 DEF RecordTables
<1>16. d.events = [t \in DOMAIN c.events \cup {tx} |->
                 IF t = tx THEN [data |-> <<h>>, hash |-> h, op |-> op]
                 ELSE [c.events[t] EXCEPT !.data = IF t \in R THEN <<>> ELSE @]]
  BY <1>13, <1>15 DEF ev
<1> QED  BY <1>1, <1>7, <1>9, <1>13, <1>15, <1>16 DEF ExciseTables

(* Of a transaction's own rows only the marker of an excision mentions an
   entity. *)
LEMMA OwnMentions ==
    ASSUME NEW c, RegistryOK(c), RowsOK(c), NEW i \in Ids(c), c.registry[i].sel \in Thing,
           NEW f \in c.facts, Mentions(f, i), f.a \in OwnAttr
    PROVE  f.a = Excised /\ f.v = i
<1>1. RowOK(c, f)
  BY DEF RowsOK
<1>2. f.e = f.tx /\ f.tx \in DOMAIN c.events
  BY <1>1 DEF RowOK
<1>3. f.e # i
  <2>1. f.e \in Ids(c) /\ IdentityOK(c, f.e)
    BY <1>2 DEF RegistryOK
  <2>2. c.registry[f.e].sel \in Event
    BY <1>2, <2>1 DEF IdentityOK
  <2> QED  BY <2>2, SelectorsAssumption
<1>4. f.a # i
  <2>1. f.a < 65 /\ i >= 65
    BY NumberFacts DEF OwnAttr, Ids, RegistryOK
  <2> QED  BY <2>1, NumberFacts DEF OwnAttr, Ids, RegistryOK
<1>5. f.tag = "ref" /\ f.v = i
  BY <1>3, <1>4 DEF Mentions
<1>6. f.a = Excised
  BY <1>1, <1>5 DEF RowOK
<1> QED  BY <1>5, <1>6

(* Excise gives its own event an identifier and takes none away. *)
LEMMA ExciseRegistry ==
    ASSUME NEW c, NEW d, NEW tx, NEW event \in Event, NEW rows, NEW R, NEW i, NEW h, NEW op,
           RegistryOK(c), ~Known(c, event), tx = c.next,
           ExciseTables(c, d, rows, R, i, tx, event, h, op)
    PROVE  RegistryGrows(c, d, tx, event)
<1>0. /\ d.next = tx + 1 /\ DOMAIN d.events = DOMAIN c.events \cup {tx}
      /\ d.registry = [j \in DOMAIN c.registry \cup {tx} |->
                          IF j \in DOMAIN c.registry THEN c.registry[j]
                          ELSE [sel |-> event, created |-> tx]]
  BY DEF ExciseTables
<1>1. tx \in Nat /\ tx >= 65 /\ DOMAIN c.registry = Ids(c)
  BY NumberFacts DEF RegistryOK
<1>2. Ids(d) = Ids(c) \cup {tx} /\ tx \notin Ids(c) /\ c.next..tx = {tx}
  BY <1>0, <1>1, NumberFacts DEF Ids
<1>3. \A j \in Ids(c) : d.registry[j] = c.registry[j]
  BY <1>0, <1>1
<1>4. d.registry[tx] = [sel |-> event, created |-> tx]
  BY <1>0, <1>1, <1>2
<1>5. d.registry[tx].sel = event /\ d.registry[tx].created = tx
  BY <1>4
<1>6. DOMAIN d.registry = Ids(d)
  BY <1>0, <1>1, <1>2
<1> QED  BY <1>0, <1>1, <1>2, <1>3, <1>5, <1>6 DEF RegistryGrows

(* Excise deletes the rows on the entity and adds its marker and its time. *)
LEMMA ExciseRows ==
    ASSUME NEW c, NEW d, NEW tx, NEW event \in Event, NEW i \in Ids(c), NEW rows,
           NEW R, NEW h, NEW op,
           RegistryOK(c), RowsOK(c), c.registry[i].sel \in Thing, tx = c.next,
           RegistryGrows(c, d, tx, event), rows = RowsOn(c, i),
           ExciseTables(c, d, rows, R, i, tx, event, h, op)
    PROVE  RowsChange(c, d, tx, rows, {}, OwnRows(c, i, tx))
<1>0. d.facts = (c.facts \ rows) \cup OwnRows(c, i, tx) /\ d.row = c.row + 2
  BY DEF ExciseTables
<1>1. c.row \in Nat /\ d.row \in Nat /\ tx \in Nat /\ tx >= c.next
  BY <1>0 DEF RowsOK, RegistryGrows
<1>2. tx \notin Ids(c) /\ \A f \in c.facts : f.e # tx
  BY <1>1, NewTx
<1>3. PICK T : T = TimeRow(c, tx)
  OBVIOUS
<1>4. PICK M : M = MarkRow(c, i, tx)
  OBVIOUS
<1>5. /\ T = [id |-> T.id, e |-> T.e, a |-> T.a, tag |-> T.tag, v |-> T.v, tx |-> T.tx, rx |-> T.rx]
      /\ T.id = c.row /\ T.e = tx /\ T.a = At /\ T.tag = "instant" /\ T.tx = tx /\ T.rx = 0
  BY <1>3 DEF TimeRow
<1>6. /\ M = [id |-> M.id, e |-> M.e, a |-> M.a, tag |-> M.tag, v |-> M.v, tx |-> M.tx, rx |-> M.rx]
      /\ M.id = c.row + 1 /\ M.e = tx /\ M.a = Excised /\ M.tag = "ref" /\ M.v = i
      /\ M.tx = tx /\ M.rx = 0
  BY <1>4 DEF MarkRow
<1>7. tx \in DOMAIN d.events
  BY DEF RegistryGrows
<1>8. RowOK(d, T)
  BY <1>0, <1>1, <1>5, <1>7, NumberFacts DEF RowOK, OwnAttr
<1>9. RowOK(d, M)
  <2>1. OfThing(d, i, tx)
    <3>1. IdentityOK(c, i)
      BY DEF RegistryOK
    <3>2. c.registry[i].created \in Ids(c) /\ i \in Ids(d)
      BY <3>1, IdsGrow DEF IdentityOK, RegistryOK
    <3>3. c.registry[i].created < tx /\ c.registry[i].created \in Nat
      BY <3>2, IdsGrow
    <3>4. d.registry[i] = c.registry[i]
      BY DEF RegistryGrows
    <3> QED  BY <1>1, <3>2, <3>3, <3>4 DEF OfThing, Timely
  <2> QED  BY <1>0, <1>1, <1>6, <1>7, <2>1, NumberFacts DEF RowOK, OwnAttr
<1>10. \A f \in rows : f.a # At
  <2> SUFFICES ASSUME NEW f \in rows, f.a = At PROVE FALSE
    OBVIOUS
  <2>1. f.a \in OwnAttr /\ Mentions(f, i) /\ f \in c.facts
    BY DEF OwnAttr, RowsOn
  <2>2. f.a = Excised
    BY <2>1, OwnMentions
  <2> QED  BY <2>2 DEF At, Excised
<1>11. \A f, g \in {T, M} : f.id = g.id \/ (f.e = g.e /\ f.a = g.a) => f = g
  <2>1. T.id # M.id /\ T.a # M.a
    BY <1>1, <1>5, <1>6, NumberFacts
  <2> QED  BY <2>1
<1>12. rows \subseteq c.facts
  BY DEF RowsOn
<1>13. \A f \in {T, M} : RowOK(d, f) /\ f.tx = tx /\ f.rx = 0 /\ f.id >= c.row /\ f.e = tx
  BY <1>1, <1>5, <1>6, <1>8, <1>9
<1>14. d.facts = (c.facts \ rows) \cup {T, M}
  BY <1>0, <1>3, <1>4 DEF OwnRows
<1>15. RowsChange(c, d, tx, rows, {}, {T, M})
  BY <1>0, <1>1, <1>2, <1>5, <1>10, <1>11, <1>12, <1>13, <1>14 DEF RowsChange
<1> QED  BY <1>3, <1>4, <1>15 DEF OwnRows

(* The index and the blobs of the deleted rows go with them. *)
LEMMA ExciseDerived ==
    ASSUME NEW c, NEW d, NEW tx, NEW event, NEW i, NEW rows, NEW R, NEW h, NEW op,
           RowsOK(c), DerivedOK(c), rows \subseteq c.facts,
           ExciseTables(c, d, rows, R, i, tx, event, h, op)
    PROVE  DerivedChange(c, d, rows, {}, OwnRows(c, i, tx))
<1>0. /\ d.facts = (c.facts \ rows) \cup OwnRows(c, i, tx)
      /\ d.blobs = {b \in c.blobs : UsesBlob(c.facts \ rows, b)}
      /\ d.fts = {r \in c.fts : \A f \in rows : f.id # r.id}
  BY DEF ExciseTables
<1>1. PICK T : T = TimeRow(c, tx)
  OBVIOUS
<1>2. PICK M : M = MarkRow(c, i, tx)
  OBVIOUS
<1>3. T.tag \notin Texts /\ T.tag # "textref" /\ M.tag \notin Texts /\ M.tag # "textref"
  BY <1>1, <1>2 DEF TimeRow, MarkRow, Texts
<1>4. d.facts = (c.facts \ rows) \cup {T, M}
  BY <1>0, <1>1, <1>2 DEF OwnRows
<1>5. \A b : b \in d.blobs <=> UsesBlob(d.facts, b)
  BY <1>0, <1>3, <1>4 DEF DerivedOK, UsesBlob
<1>6. DerivedChange(c, d, rows, {}, {T, M})
  BY <1>0, <1>3, <1>5 DEF DerivedChange
<1> QED  BY <1>1, <1>2, <1>6 DEF OwnRows

(* The events an excision clears. *)
LEMMA RedactIs ==
    ASSUME NEW c, NEW i, NEW sel, NEW t
    PROVE  t \in Redact(c, i, sel) <=>
              /\ t \in DOMAIN c.events
              /\ \/ \E f \in c.facts : Mentions(f, i) /\ (t = f.tx \/ t = f.rx)
                 \/ c.events[t].data # <<>> /\ PayloadMentions(c.events[t].data[1], sel)
BY DEF Redact

(* Every event one of whose rows is deleted is cleared. *)
LEMMA ExciseGone ==
    ASSUME NEW c, NEW twice, NEW i \in Ids(c), NEW sel \in Thing, NEW rows, NEW R,
           RegistryOK(c), RowsOK(c), ReceiptsOK(c, twice),
           c.registry[i].sel = sel, rows = RowsOn(c, i),
           R = Redact(c, i, sel)
    PROVE  GoneRightly(c, rows, R)
<1>1. ASSUME NEW f \in rows PROVE f.tx \in R /\ (f.rx # 0 => f.rx \in R)
  <2>1. f \in c.facts /\ Mentions(f, i) /\ RowOK(c, f)
    BY DEF RowsOK, RowsOn
  <2>2. f.tx \in DOMAIN c.events /\ (f.rx # 0 => f.rx \in DOMAIN c.events)
    BY <2>1 DEF RowOK
  <2> QED  BY <2>1, <2>2, RedactIs
<1>2. ASSUME NEW f \in rows, NEW t \in DOMAIN c.events,
             f.a = NoHistory, f.v = 1, c.events[t].data # <<>>,
             NEW x \in c.events[t].hash.asserted \cup c.events[t].hash.retracted,
             x.a = Selector(c, f.e)
      PROVE  t \in R
  <2>1. f \in c.facts /\ Mentions(f, i)
    BY DEF RowsOn
  <2>2. f.e \in Ids(c) /\ (f.tag = "ref" => f.v \in Ids(c))
    BY <2>1, RowIds
  <2>3. i \in Nat /\ i >= 65
    BY NumberFacts DEF Ids, RegistryOK
  <2>4. f.a # i /\ ~(f.tag = "ref" /\ f.v = i)
    BY <1>2, <2>3, NumberFacts
  <2>5. f.e = i
    BY <2>1, <2>4 DEF Mentions
  <2>6. x.a = sel
    BY <1>2, <2>2, <2>5, SelectorIs
  <2>7. EventOK(c, t, twice)
    BY DEF ReceiptsOK
  <2>8. c.events[t].data = <<c.events[t].hash>>
    BY <1>2, <2>7 DEF EventOK
  <2>9. c.events[t].data[1] = c.events[t].hash
    BY <2>8
  <2>10. PayloadMentions(c.events[t].data[1], sel)
    BY <1>2, <2>6, <2>9 DEF PayloadMentions
  <2> QED  BY <1>2, <2>10, RedactIs
<1> QED  BY <1>1, <1>2 DEF GoneRightly

(* Nothing but its marker makes an excision clear an earlier one. *)
LEMMA ExciseUnmarks ==
    ASSUME NEW c, NEW twice, NEW i \in Ids(c), NEW sel \in Thing, NEW R,
           RegistryOK(c), RowsOK(c), ReceiptsOK(c, twice),
           c.registry[i].sel = sel, R = Redact(c, i, sel), NEW t \in R,
           NEW m \in c.facts, m.e = t, m.a = Excised, m.tx = t, m.rx = 0
    PROVE  Mentions(m, i)
<1>1. t \in DOMAIN c.events /\ t \in Ids(c) /\ t # 0
  BY RedactIs, NumberFacts DEF RegistryOK, Ids
<1>2. EventOK(c, t, twice)
  BY <1>1 DEF ReceiptsOK
<1>3. c.events[t].hash.redacted
  BY <1>2 DEF EventOK
<1>4. ASSUME NEW f \in c.facts, Mentions(f, i), t = f.tx \/ t = f.rx PROVE Mentions(m, i)
  <2>1. f.tx = t /\ f.e = t
    BY <1>2, <1>3, <1>4 DEF EventOK
  <2>2. RowOK(c, f)
    BY DEF RowsOK
  <2>3. c.registry[t].sel \in Event
    BY <1>1 DEF RegistryOK, IdentityOK
  <2>4. f.a \in OwnAttr
    BY <2>1, <2>2, <2>3, SelectorsAssumption DEF RowOK, OfThing
  <2>5. f.a = Excised /\ f.v = i
    BY <1>4, <2>4, OwnMentions
  <2>6. f.rx = 0
    BY <2>2, <2>4 DEF RowOK
  <2>7. f = m
    BY <2>1, <2>5, <2>6 DEF RowsOK
  <2> QED  BY <1>4, <2>7
<1>5. ASSUME c.events[t].data # <<>>, PayloadMentions(c.events[t].data[1], sel) PROVE FALSE
  <2>1. c.events[t].data = <<c.events[t].hash>>
    BY <1>2, <1>5 DEF EventOK
  <2>2. c.events[t].data[1] = c.events[t].hash
    BY <2>1
  <2>3. c.events[t].hash.created = <<>> /\ c.events[t].hash.asserted = {} /\ c.events[t].hash.retracted = {}
    BY <1>2, <1>3 DEF EventOK
  <2>4. DOMAIN <<>> = {}
    OBVIOUS
  <2> QED  BY <1>5, <2>2, <2>3, <2>4 DEF PayloadMentions
<1> QED  BY <1>4, <1>5, RedactIs

(* The event of an excision: nothing retained, its marker and its time. *)
LEMMA ExciseEvent ==
    ASSUME NEW c, NEW d, NEW tx, NEW event, NEW i, NEW rows, NEW R, NEW h, NEW op, NEW twice,
           RegistryOK(c), RowsOK(c), tx = c.next, h = Receipt(c, event, tx, R),
           RegistryGrows(c, d, tx, event), ExciseTables(c, d, rows, R, i, tx, event, h, op)
    PROVE  EventOK(d, tx, twice) /\ Marked(d, tx)
<1>a. /\ d.facts = (c.facts \ rows) \cup OwnRows(c, i, tx)
      /\ d.events[tx] = [data |-> <<h>>, hash |-> h, op |-> op]
  BY DEF ExciseTables
<1>b. d.registry[tx].sel = event
  <2>1. tx \in c.next..tx
    BY DEF RegistryGrows
  <2>2. d.registry[tx].sel \in {event}
    BY <2>1 DEF RegistryGrows
  <2> QED  BY <2>2
<1>0. tx \in Nat /\ tx >= c.next
  BY DEF RegistryOK
<1>1. tx # 0 /\ \A f \in c.facts : f.e # tx /\ f.tx # tx /\ f.rx # tx
  BY <1>0, NewTx
<1>2. PICK T : T = TimeRow(c, tx)
  OBVIOUS
<1>3. PICK M : M = MarkRow(c, i, tx)
  OBVIOUS
<1>4. /\ T.e = tx /\ T.a = At /\ T.v = tx /\ T.tx = tx /\ T.rx = 0
      /\ M.e = tx /\ M.a = Excised /\ M.tx = tx /\ M.rx = 0
  BY <1>2, <1>3 DEF TimeRow, MarkRow
<1>5. d.facts = (c.facts \ rows) \cup {T, M}
  BY <1>2, <1>3, <1>a DEF OwnRows
<1>6. Marked(d, tx)
  BY <1>4, <1>5 DEF Marked
<1>7. \A f \in d.facts : f.rx # tx /\ (f.tx = tx => f.e = tx)
  BY <1>1, <1>4, <1>5
<1>8. OriginAt(d, tx) = {tx}
  <2>1. \A f \in d.facts : f.e = tx => f = T \/ f = M
    BY <1>1, <1>5
  <2>2. At # Excised /\ ImportedAt # Excised /\ ImportedAt # At
    BY DEF At, Excised, ImportedAt
  <2>3. TimeOf(d, tx, ImportedAt) = {}
    BY <1>4, <2>1, <2>2 DEF TimeOf
  <2>4. \A v : v \in TimeOf(d, tx, At) <=> v = tx
    <3>1. \A v : v \in TimeOf(d, tx, At) <=> \E f \in d.facts : f.e = tx /\ f.tx = tx /\ f.a = At /\ v = f.v
      BY DEF TimeOf
    <3> QED  BY <1>4, <1>5, <2>1, <2>2, <3>1
  <2>5. TimeOf(d, tx, At) = {tx}
    BY <2>4
  <2> QED  BY <2>3, <2>5 DEF OriginAt
<1>9. /\ h.event = event /\ h.at = {tx} /\ h.created = <<>> /\ h.asserted = {} /\ h.retracted = {}
      /\ h.redacted = TRUE
  BY DEF Receipt
<1>10. d.events[tx].data = <<h>> /\ d.events[tx].hash = h /\ d.events[tx].op = op /\ <<h>> # <<>>
  BY <1>a
<1>11. d.events[tx] = [data |-> d.events[tx].data, hash |-> h, op |-> d.events[tx].op]
  BY <1>10, <1>a
<1>12. EventOK(d, tx, twice)
  BY <1>6, <1>7, <1>8, <1>9, <1>10, <1>11, <1>b DEF EventOK
<1> QED  BY <1>6, <1>12

(* Excising a known entity, the first time or again, leaves a good file. *)
LEMMA ExciseKeepsGood ==
    ASSUME NEW c, NEW done, NEW twice \in BOOLEAN, Good(c, done, twice), NEW sel \in Thing,
           Known(c, sel), NEW event \in Event, ~Known(c, event), NEW op,
           NEW d, d = Excise(c, sel, event, op)
    PROVE  Good(d, done \cup {sel}, twice \/ sel \in done)
<1>0. /\ IsContent(c) /\ RegistryOK(c) /\ RowsOK(c) /\ DerivedOK(c)
      /\ ReceiptsOK(c, twice) /\ AuditOK(c, done, twice)
  BY DEF Good
<1>1. PICK i : i = IdOf(c, sel)
  OBVIOUS
<1>2. i \in Ids(c) /\ c.registry[i].sel = sel
  BY <1>0, <1>1, IdOfKnown
<1>3. PICK rows : rows = RowsOn(c, i)
  OBVIOUS
<1>4. PICK R : R = Redact(c, i, sel)
  OBVIOUS
<1>5. PICK tx : tx = c.next
  OBVIOUS
<1>6. PICK h : h = Receipt(c, event, tx, R)
  OBVIOUS
<1>7. c.next \in Nat /\ c.row \in Nat /\ tx \in Nat /\ tx >= c.next
  BY <1>0, <1>5 DEF RegistryOK, RowsOK
<1>8. IsContent(d) /\ ExciseTables(c, d, rows, R, i, tx, event, h, op)
  <2>1. IsContent(c) /\ c.next \in Nat /\ c.row \in Nat
    BY <1>0, <1>7
  <2> QED  BY <1>1, <1>3, <1>4, <1>5, <1>6, <2>1, ExciseFields
<1>9. /\ tx \notin Ids(c) /\ tx \notin DOMAIN c.events /\ tx # 0
      /\ \A f \in c.facts : f.e # tx /\ f.tx # tx /\ f.rx # tx
  BY <1>0, <1>7, NewTx
<1>11. RegistryGrows(c, d, tx, event)
  BY <1>0, <1>5, <1>8, ExciseRegistry
<1>12. PICK new : new = OwnRows(c, i, tx)
  OBVIOUS
<1>13. RowsChange(c, d, tx, rows, {}, new)
  BY <1>0, <1>2, <1>3, <1>5, <1>8, <1>11, <1>12, ExciseRows
<1>14. DerivedChange(c, d, rows, {}, new)
  <2>1. rows \subseteq c.facts
    BY <1>3 DEF RowsOn
  <2> QED  BY <1>0, <1>8, <1>12, <2>1, ExciseDerived
<1>15. R \subseteq DOMAIN c.events
  BY <1>4, RedactIs
<1>16. h.redacts = {c.registry[t].sel : t \in R}
  <2>1. \A t \in R : Selector(c, t) = c.registry[t].sel
    BY <1>0, <1>15, SelectorIs DEF RegistryOK
  <2>2. h.redacts = {Selector(c, u) : u \in R}
    BY <1>6 DEF Receipt
  <2> QED  BY <2>1, <2>2
<1>17. EventsChange(c, d, tx, R, h, op)
  <2>1. ASSUME NEW t \in DOMAIN c.events
        PROVE  d.events[t] = [data |-> IF t \in R THEN <<>> ELSE c.events[t].data,
                              hash |-> c.events[t].hash, op |-> c.events[t].op]
    <3>1. EventOK(c, t, twice)
      BY <1>0 DEF ReceiptsOK
    <3>2. c.events[t] = [data |-> c.events[t].data, hash |-> c.events[t].hash, op |-> c.events[t].op]
      BY <3>1 DEF EventOK
    <3>3. d.events[t] = [c.events[t] EXCEPT !.data = IF t \in R THEN <<>> ELSE @]
      BY <1>8, <1>9 DEF ExciseTables
    <3> QED  BY <3>2, <3>3
  <2>2. d.events[tx] = [data |-> <<h>>, hash |-> h, op |-> op]
    BY <1>8 DEF ExciseTables
  <2> QED  BY <1>15, <1>16, <2>1, <2>2 DEF EventsChange
<1>18. GoneRightly(c, rows, R)
  BY <1>0, <1>2, <1>3, <1>4, ExciseGone
<1>22. PICK done2, twice2 : done2 = done \cup {sel} /\ twice2 = (twice \/ sel \in done)
  OBVIOUS
<1>19. EventOK(d, tx, twice2) /\ Marked(d, tx)
  BY <1>0, <1>5, <1>6, <1>8, <1>11, ExciseEvent
<1>20. AuditChange(c, d, tx, rows, R, done, twice, done2, twice2)
  <2>1. ASSUME NEW t \in R, Marked(d, t) PROVE FALSE
    <3>1. t \in DOMAIN c.events
      BY <1>15
    <3>2. PICK m \in d.facts : m.e = t /\ m.a = Excised /\ m.tx = t /\ m.rx = 0
      BY <2>1 DEF Marked
    <3>3. m \in c.facts /\ m \notin rows
      <4>1. m \notin new
        BY <1>9, <1>13, <3>1, <3>2 DEF RowsChange
      <4> QED  BY <1>8, <1>12, <4>1 DEF ExciseTables
    <3>4. Mentions(m, i)
      BY <1>0, <1>2, <1>4, <3>2, <3>3, ExciseUnmarks
    <3> QED  BY <1>3, <3>3, <3>4 DEF RowsOn
  <2>2. ASSUME NEW f \in rows, f.a = Excised PROVE sel \in done
    <3>1. f \in c.facts /\ Mentions(f, i) /\ f.a \in OwnAttr
      BY <1>3, <2>2 DEF OwnAttr, RowsOn
    <3>2. f.v = i
      BY <1>0, <1>2, <3>1, OwnMentions
    <3> QED  BY <1>0, <1>2, <2>2, <3>1, <3>2 DEF AuditOK
  <2>3. ASSUME NEW f \in d.facts, f.tx = tx, f.a = Excised
        PROVE  d.registry[f.v].sel \in done \cup {sel}
    <3>1. f \in new
      BY <1>8, <1>9, <1>12, <2>3 DEF ExciseTables
    <3>2. f.v = i
      <4>1. PICK T : T = TimeRow(c, tx)
        OBVIOUS
      <4>2. PICK M : M = MarkRow(c, i, tx)
        OBVIOUS
      <4>3. T.a # Excised /\ M.v = i
        BY <4>1, <4>2 DEF TimeRow, MarkRow, At, Excised
      <4> QED  BY <1>12, <2>3, <3>1, <4>1, <4>2, <4>3 DEF OwnRows
    <3>3. d.registry[i] = c.registry[i]
      BY <1>2, <1>11 DEF RegistryGrows
    <3> QED  BY <1>2, <3>2, <3>3
  <2>4. Marked(d, tx)
    BY <1>19
  <2> QED  BY <1>22, <2>1, <2>2, <2>3, <2>4 DEF AuditChange
<1>24. Good(d, done2, twice2)
  BY <1>8, <1>11, <1>13, <1>14, <1>17, <1>18, <1>19, <1>20, ChangeKeepsGood
<1> QED  BY <1>22, <1>24

-----------------------------------------------------------------------------
(* Puts: the selectors that get an id. *)
Fresh(c, new) ==
    /\ new \in Seq(Thing)
    /\ \A k \in 1..Len(new) : ~Known(c, new[k])
    /\ \A j, k \in 1..Len(new) : new[j] = new[k] => j = k

Has(c, new, sel) == Known(c, sel) \/ \E k \in 1..Len(new) : new[k] = sel

(* Appending a selector that has no identifier yet keeps the list free of
   repetitions, and the selector has one from then on. *)
LEMMA CreatedFresh ==
    ASSUME NEW c, NEW new, NEW sel, Fresh(c, new), NEW more, more = Created(c, new, sel)
    PROVE  /\ Fresh(c, more)
           /\ sel \in Thing => Has(c, more, sel)
           /\ \A s : Has(c, new, s) => Has(c, more, s)
<1>1. new \in Seq(Thing) /\ DOMAIN new = 1..Len(new) /\ Len(new) \in Nat
  BY DEF Fresh
<1>2. CASE sel \notin Thing \/ Known(c, sel) \/ \E k \in DOMAIN new : new[k] = sel
  <2>1. more = new
    BY <1>2 DEF Created
  <2>2. sel \in Thing => Has(c, new, sel)
    BY <1>1, <1>2 DEF Has
  <2> QED  BY <2>1, <2>2
<1>3. CASE ~(sel \notin Thing \/ Known(c, sel) \/ \E k \in DOMAIN new : new[k] = sel)
  <2>1. /\ sel \in Thing /\ ~Known(c, sel) /\ \A k \in 1..Len(new) : new[k] # sel
        /\ more = Append(new, sel)
    BY <1>1, <1>3 DEF Created
  <2>2. /\ more \in Seq(Thing) /\ Len(more) = Len(new) + 1 /\ more[Len(new) + 1] = sel
        /\ \A k \in 1..Len(new) : more[k] = new[k]
    BY <1>1, <2>1
  <2>3. 1..Len(more) = 1..Len(new) \cup {Len(new) + 1} /\ Len(new) + 1 \notin 1..Len(new)
    BY <1>1, <2>2
  <2>4. \A k \in 1..Len(more) : ~Known(c, more[k])
    BY <2>1, <2>2, <2>3 DEF Fresh
  <2>5. \A j, k \in 1..Len(more) : more[j] = more[k] => j = k
    BY <2>1, <2>2, <2>3 DEF Fresh
  <2>6. Has(c, more, sel)
    BY <2>2, <2>3 DEF Has
  <2>7. \A s : Has(c, new, s) => Has(c, more, s)
    BY <2>2, <2>3 DEF Has
  <2> QED  BY <2>2, <2>4, <2>5, <2>6, <2>7 DEF Fresh
<1> QED  BY <1>2, <1>3

IsWrite(w) ==
    /\ w.e \in Thing /\ w.a \in Thing \cup {NoHistory}
    /\ w.tag = "ref" => w.v \in Thing

(* The selectors a put gives identifiers to, each once. *)
LEMMA NewSelectorsFresh ==
    ASSUME NEW c, NEW w, IsWrite(w), NEW new, new = NewSelectors(c, w)
    PROVE  /\ Fresh(c, new) /\ Has(c, new, w.e)
           /\ w.a \in Thing => Has(c, new, w.a)
           /\ w.tag = "ref" => Has(c, new, w.v)
<1>1. Fresh(c, <<>>)
  <2>1. <<>> \in Seq(Thing) /\ 1..Len(<<>>) = {}
    OBVIOUS
  <2> QED  BY <2>1 DEF Fresh
<1>2. PICK one : one = Created(c, <<>>, w.e)
  OBVIOUS
<1>3. Fresh(c, one) /\ Has(c, one, w.e)
  BY <1>1, <1>2, CreatedFresh DEF IsWrite
<1>4. PICK two : two = Created(c, one, w.a)
  OBVIOUS
<1>5. Fresh(c, two) /\ (w.a \in Thing => Has(c, two, w.a)) /\ \A s : Has(c, one, s) => Has(c, two, s)
  BY <1>3, <1>4, CreatedFresh
<1>6. PICK three : three = Created(c, two, w.v)
  OBVIOUS
<1>7. /\ Fresh(c, three) /\ (w.v \in Thing => Has(c, three, w.v))
      /\ \A s : Has(c, two, s) => Has(c, three, s)
  BY <1>5, <1>6, CreatedFresh
<1>8. new = IF w.tag = "ref" THEN three ELSE two
  BY <1>2, <1>4, <1>6 DEF NewSelectors
<1> QED  BY <1>3, <1>5, <1>7, <1>8 DEF IsWrite

PutRegistry(c, d, new, event, tx) ==
    /\ d.registry = [i \in DOMAIN c.registry \cup c.next..tx |->
                        IF i \in DOMAIN c.registry THEN c.registry[i]
                        ELSE [sel |-> IF i = tx THEN event ELSE new[i - c.next + 1], created |-> tx]]
    /\ d.next = tx + 1

(* A put gives its new selectors and its event the next identifiers. *)
LEMMA PutGrows ==
    ASSUME NEW c, NEW d, NEW new, NEW event \in Event, NEW tx, RegistryOK(c), Fresh(c, new),
           ~Known(c, event), tx = c.next + Len(new), PutRegistry(c, d, new, event, tx),
           DOMAIN d.events = DOMAIN c.events \cup {tx}
    PROVE  RegistryGrows(c, d, tx, event) /\ \A s : Has(c, new, s) => Known(d, s)
<1>1. c.next \in Nat /\ c.next >= 65 /\ DOMAIN c.registry = Ids(c)
  BY NumberFacts DEF RegistryOK
<1>2. Len(new) \in Nat /\ tx \in Nat /\ tx >= c.next /\ d.next = tx + 1
  BY <1>1 DEF Fresh, PutRegistry
<1>3. Ids(d) = Ids(c) \cup c.next..tx /\ \A i \in c.next..tx : i \notin Ids(c)
  BY <1>1, <1>2, NumberFacts DEF Ids
<1>4. DOMAIN d.registry = Ids(d)
  BY <1>1, <1>3 DEF PutRegistry
<1>5. \A i \in Ids(c) : d.registry[i] = c.registry[i]
  BY <1>1 DEF PutRegistry
<1>6. ASSUME NEW i \in c.next..tx
      PROVE  d.registry[i].created = tx
             /\ d.registry[i].sel = IF i = tx THEN event ELSE new[i - c.next + 1]
  <2>1. d.registry[i] = [sel |-> IF i = tx THEN event ELSE new[i - c.next + 1], created |-> tx]
    BY <1>1, <1>3 DEF PutRegistry
  <2> QED  BY <2>1
<1>7. ASSUME NEW i \in c.next..tx, i # tx
      PROVE  i - c.next + 1 \in 1..Len(new) /\ i \in Nat
  BY SMTT(30), <1>1, <1>2, <1>7
<1>8. \A k \in 1..Len(new) : new[k] \in Thing /\ ~Known(c, new[k])
  BY DEF Fresh
<1>9. ASSUME NEW i \in c.next..tx
      PROVE  ~Known(c, d.registry[i].sel) /\ d.registry[i].sel \in IF i = tx THEN {event} ELSE Thing
  BY <1>6, <1>7, <1>8
<1>10. ASSUME NEW i \in c.next..tx, NEW j \in c.next..tx, d.registry[i].sel = d.registry[j].sel
       PROVE  i = j
  <2>1. event \notin Thing
    BY SelectorsAssumption
  <2>2. CASE i = tx \/ j = tx
    BY <1>9, <1>10, <2>1, <2>2
  <2>3. CASE i # tx /\ j # tx
    <3>1. i - c.next + 1 \in 1..Len(new) /\ j - c.next + 1 \in 1..Len(new) /\ i \in Nat /\ j \in Nat
      BY <1>7, <2>3
    <3>2. new[i - c.next + 1] = new[j - c.next + 1]
      BY <1>6, <1>10, <2>3
    <3>3. i - c.next + 1 = j - c.next + 1
      BY <3>1, <3>2 DEF Fresh
    <3> QED  BY SMTT(30), <1>1, <3>1, <3>3
  <2> QED  BY <2>2, <2>3
<1>11. RegistryGrows(c, d, tx, event)
  BY <1>2, <1>4, <1>5, <1>6, <1>9, <1>10 DEF RegistryGrows
<1>12. ASSUME NEW s, Has(c, new, s) PROVE Known(d, s)
  <2>1. CASE Known(c, s)
    <3>1. PICK i \in Ids(c) : c.registry[i].sel = s
      BY <1>1, <2>1 DEF Known
    <3> QED  BY <1>3, <1>4, <1>5, <3>1 DEF Known
  <2>2. ASSUME NEW k \in 1..Len(new), new[k] = s PROVE Known(d, s)
    <3>1. c.next + k - 1 \in c.next..tx /\ c.next + k - 1 # tx /\ (c.next + k - 1) - c.next + 1 = k
      BY SMTT(30), <1>1, <1>2
    <3>2. PICK i : i = c.next + k - 1
      OBVIOUS
    <3>3. i \in c.next..tx /\ i # tx /\ i - c.next + 1 = k
      BY <3>1, <3>2
    <3>4. d.registry[i].sel = s /\ i \in DOMAIN d.registry
      BY <1>3, <1>4, <1>6, <2>2, <3>3
    <3> QED  BY <3>4 DEF Known
  <2> QED  BY <1>12, <2>1, <2>2 DEF Has
<1> QED  BY <1>11, <1>12

(* Puts: the rows that are added, with the index and the blobs. *)
NewRow(n, e, a, tag, v, tx) == [id |-> n, e |-> e, a |-> a, tag |-> tag, v |-> v, tx |-> tx, rx |-> 0]

Asserts(o, x, new) ==
    /\ IsContent(x) /\ x.registry = o.registry /\ x.events = o.events /\ x.next = o.next
    /\ x.row \in Nat /\ x.row >= o.row
    /\ x.facts = o.facts \cup new
    /\ \A f \in new : f.id \in Nat /\ f.id >= o.row /\ f.id < x.row
    /\ \A f, g \in new : f.id = g.id => f = g
    /\ \A b : b \in x.blobs <=> b \in o.blobs \/ \E f \in new : f.tag = "textref" /\ f.v = b
    /\ \A r : r \in x.fts <=> \/ r \in o.fts
                              \/ \E f \in new : f.tag \in Texts /\ r = [id |-> f.id, text |-> f.v]

(* Adding no row changes nothing. *)
LEMMA AssertsNone ==
    ASSUME NEW o, IsContent(o), o.row \in Nat
    PROVE  Asserts(o, o, {})
BY DEF Asserts

(* Rows are added one by one. *)
LEMMA AssertsMore ==
    ASSUME NEW o, NEW x, NEW new, o.row \in Nat, Asserts(o, x, new),
           NEW e, NEW a, NEW tag, NEW v, NEW tx, NEW y, y = InsertFact(x, e, a, tag, v, tx),
           NEW n, n = NewRow(x.row, e, a, tag, v, tx)
    PROVE  Asserts(o, y, new \cup {n})
<1>1. n.id = x.row /\ n.tag = tag /\ n.v = v
  BY DEF NewRow
<1>2. IsContent(x)
  BY DEF Asserts
<1>3. /\ IsContent(y)
      /\ y.registry = x.registry /\ y.events = x.events /\ y.next = x.next
      /\ y.born = x.born /\ y.row = x.row + 1
      /\ y.facts = x.facts \cup {n}
      /\ y.blobs = IF tag = "textref" THEN x.blobs \cup {v} ELSE x.blobs
      /\ y.fts = IF tag \in Texts THEN x.fts \cup {[id |-> x.row, text |-> v]} ELSE x.fts
  BY <1>2 DEF IsContent, InsertFact, NewRow
<1>4. x.row \in Nat /\ x.row >= o.row
  BY DEF Asserts
<1>5. PICK more : more = new \cup {n}
  OBVIOUS
<1>6. /\ y.registry = o.registry /\ y.events = o.events /\ y.next = o.next
      /\ y.row \in Nat /\ y.row >= o.row /\ y.facts = o.facts \cup more
  BY <1>3, <1>4, <1>5 DEF Asserts
<1>7. \A f \in more : f.id \in Nat /\ f.id >= o.row /\ f.id < y.row
  <2>1. \A f \in new : f.id \in Nat /\ f.id >= o.row /\ f.id < x.row
    BY DEF Asserts
  <2> QED  BY <1>1, <1>3, <1>4, <1>5, <2>1
<1>8. \A f, g \in more : f.id = g.id => f = g
  <2>1. \A f \in new : f.id # n.id
    BY <1>1, <1>4 DEF Asserts
  <2>2. \A f, g \in new : f.id = g.id => f = g
    BY DEF Asserts
  <2> QED  BY <1>5, <2>1, <2>2
<1>9. \A b : b \in y.blobs <=> b \in o.blobs \/ \E f \in more : f.tag = "textref" /\ f.v = b
  <2>1. \A b : b \in x.blobs <=> b \in o.blobs \/ \E f \in new : f.tag = "textref" /\ f.v = b
    BY DEF Asserts
  <2>2. \A b : b \in y.blobs <=> b \in x.blobs \/ (tag = "textref" /\ b = v)
    BY <1>3
  <2> QED  BY <1>1, <1>5, <2>1, <2>2
<1>10. \A r : r \in y.fts <=> \/ r \in o.fts
                              \/ \E f \in more : f.tag \in Texts /\ r = [id |-> f.id, text |-> f.v]
  <2>1. \A r : r \in x.fts <=> \/ r \in o.fts
                               \/ \E f \in new : f.tag \in Texts /\ r = [id |-> f.id, text |-> f.v]
    BY DEF Asserts
  <2>2. \A r : r \in y.fts <=> r \in x.fts \/ (tag \in Texts /\ r = [id |-> x.row, text |-> v])
    BY <1>3
  <2> QED  BY <1>1, <1>5, <2>1, <2>2
<1>11. Asserts(o, y, more)
  BY <1>3, <1>6, <1>7, <1>8, <1>9, <1>10 DEF Asserts
<1> QED  BY <1>5, <1>11

(* They are the transaction's times and the value put. *)
PutRow(f, tx, E, A, tag, V) ==
    /\ f = [id |-> f.id, e |-> f.e, a |-> f.a, tag |-> f.tag, v |-> f.v, tx |-> f.tx, rx |-> f.rx]
    /\ f.tx = tx /\ f.rx = 0
    /\ \/ f.e = tx /\ f.a \in {At, ImportedAt} /\ f.tag = "instant"
       \/ f.e = E /\ f.a = A /\ f.tag = tag /\ f.v = V

PutRows(new, tx, E, A, tag, V) ==
    /\ \A f \in new : PutRow(f, tx, E, A, tag, V)
    /\ \A f, g \in new : f.e = g.e /\ f.a = g.a => f = g
    /\ \E f \in new : f.e = tx /\ f.a = At

Dated(s, tx, ts) ==
    IF ts = 0 THEN s ELSE InsertFact(s, tx, ImportedAt, "instant", ts, tx)
Valued(t, tx, E, A, tag, V) ==
    IF tag = "none" THEN t ELSE InsertFact(t, E, A, tag, V, tx)

(* The rows of a put: the time, the origin's time and the value. *)
LEMMA PutAsserts ==
    ASSUME NEW o, IsContent(o), o.row \in Nat, NEW tx, NEW E, NEW A, NEW tag, NEW V, NEW ts, E # tx,
           NEW s, s = InsertFact(o, tx, At, "instant", tx, tx),
           NEW t, t = Dated(s, tx, ts), NEW x, x = Valued(t, tx, E, A, tag, V)
    PROVE  \E new : Asserts(o, x, new) /\ PutRows(new, tx, E, A, tag, V)
<1>1. Asserts(o, o, {})
  BY AssertsNone
<1>2. PICK T : T = NewRow(o.row, tx, At, "instant", tx, tx)
  OBVIOUS
<1>3. Asserts(o, s, {T})
  <2>1. Asserts(o, s, {} \cup {T})
    BY <1>1, <1>2, AssertsMore
  <2>2. {} \cup {T} = {T}
    OBVIOUS
  <2> QED  BY <2>1, <2>2
<1>4. PutRow(T, tx, E, A, tag, V) /\ T.e = tx /\ T.a = At
  BY <1>2 DEF NewRow, PutRow
<1>5. At # ImportedAt
  BY DEF At, ImportedAt
<1>6. \E new : Asserts(o, t, new) /\ PutRows(new, tx, E, A, tag, V) /\ \A f \in new : f.e = tx
  <2>1. CASE ts = 0
    <3>1. PutRows({T}, tx, E, A, tag, V)
      BY <1>4 DEF PutRows
    <3>2. \A f \in {T} : f.e = tx
      BY <1>4
    <3>3. Asserts(o, t, {T})
      BY <1>3, <2>1 DEF Dated
    <3> QED  BY <3>1, <3>2, <3>3
  <2>2. CASE ts # 0
    <3>1. PICK O : O = NewRow(s.row, tx, ImportedAt, "instant", ts, tx)
      OBVIOUS
    <3>2. Asserts(o, t, {T} \cup {O})
      BY <1>3, <2>2, <3>1, AssertsMore DEF Dated
    <3>3. PutRow(O, tx, E, A, tag, V) /\ O.e = tx /\ O.a = ImportedAt
      BY <3>1 DEF NewRow, PutRow
    <3>4. PutRows({T} \cup {O}, tx, E, A, tag, V)
      BY <1>4, <1>5, <3>3 DEF PutRows
    <3>5. \A f \in {T} \cup {O} : f.e = tx
      BY <1>4, <3>3
    <3> QED  BY <3>2, <3>4, <3>5
  <2> QED  BY <2>1, <2>2
<1>7. PICK new : Asserts(o, t, new) /\ PutRows(new, tx, E, A, tag, V) /\ \A f \in new : f.e = tx
  BY <1>6
<1>8. CASE tag = "none"
  BY <1>7, <1>8 DEF Valued
<1>9. CASE tag # "none"
  <2>1. PICK W : W = NewRow(t.row, E, A, tag, V, tx)
    OBVIOUS
  <2>2. Asserts(o, x, new \cup {W})
    BY <1>7, <1>9, <2>1, AssertsMore DEF Valued
  <2>3. PutRow(W, tx, E, A, tag, V) /\ W.e = E
    BY <2>1 DEF NewRow, PutRow
  <2>4. PutRows(new \cup {W}, tx, E, A, tag, V)
    BY <1>7, <2>3 DEF PutRows
  <2> QED  BY <2>2, <2>4
<1> QED  BY <1>8, <1>9

(* Puts: what is retracted. *)
RetractTables(x, y, old, gone, tx) ==
    /\ IsContent(y) /\ y.registry = x.registry /\ y.events = x.events /\ y.next = x.next /\ y.row = x.row
    /\ y.facts = (x.facts \ old) \cup {[f EXCEPT !.rx = tx] : f \in old \ gone}
    /\ y.fts = {r \in x.fts : \A f \in old : f.id # r.id}
    /\ y.blobs = {b \in x.blobs : UsesBlob(y.facts, b)}

(* Retraction closes rows, or deletes those whose attribute keeps no history,
   and collects index entries and blobs. *)
LEMMA RetractFields ==
    ASSUME NEW x, IsContent(x), NEW old, NEW tx, NEW gone, gone = {f \in old : DeletesHistory(x, f.a)},
           NEW y, y = RetractFacts(x, old, tx)
    PROVE  RetractTables(x, y, old, gone, tx)
<1>1. PICK rows : rows = (x.facts \ old) \cup {[f EXCEPT !.rx = tx] : f \in old \ gone}
  OBVIOUS
<1>2. PICK p : p = [x EXCEPT !.facts = rows]
  OBVIOUS
<1>3. /\ IsContent(p)
      /\ p.registry = x.registry /\ p.facts = rows /\ p.events = x.events /\ p.fts = x.fts
      /\ p.blobs = x.blobs /\ p.next = x.next /\ p.row = x.row
  BY <1>2, FactsFields
<1>4. PICK q : q = Unindexed(p, old)
  OBVIOUS
<1>5. /\ IsContent(q)
      /\ q.registry = p.registry /\ q.facts = p.facts /\ q.events = p.events
      /\ q.blobs = p.blobs /\ q.next = p.next /\ q.row = p.row
      /\ q.fts = {r \in p.fts : \A f \in old : f.id # r.id}
  <2>1. IsContent(p)
    BY <1>3
  <2> QED  BY <1>4, <2>1, UnindexedFields
<1>6. y = Collected(q)
  BY <1>1, <1>2, <1>4 DEF RetractFacts
<1>7. /\ IsContent(y)
      /\ y.registry = q.registry /\ y.facts = q.facts /\ y.events = q.events
      /\ y.fts = q.fts /\ y.next = q.next /\ y.row = q.row
      /\ y.blobs = {b \in q.blobs : UsesBlob(q.facts, b)}
  <2>1. IsContent(q)
    BY <1>5
  <2> QED  BY <1>6, <2>1, CollectedFields
<1>8. y.facts = rows /\ y.fts = {r \in x.fts : \A f \in old : f.id # r.id}
      /\ y.blobs = {b \in x.blobs : UsesBlob(y.facts, b)}
  BY <1>3, <1>5, <1>7
<1> QED  BY <1>1, <1>3, <1>5, <1>7, <1>8 DEF RetractTables

(* Everything a put does to the tables. *)
PutTables(c, d, new, event, tx, E, A, tag, V, h, op, old, gone, rows, x, y) ==
    /\ old = {f \in c.facts : f.rx = 0 /\ f.e = E /\ f.a = A}
    /\ gone = {f \in old : DeletesHistory(x, f.a)}
    /\ PutRegistry(c, d, new, event, tx)
    /\ x.facts = c.facts \cup rows
    /\ PutRows(rows, tx, E, A, tag, V)
    /\ \A f \in rows : f.id \in Nat /\ f.id >= c.row /\ f.id < d.row
    /\ \A f, g \in rows : f.id = g.id => f = g
    /\ d.row \in Nat /\ c.row <= d.row
    /\ \A b : b \in x.blobs <=> b \in c.blobs \/ \E f \in rows : f.tag = "textref" /\ f.v = b
    /\ \A r : r \in x.fts <=> \/ r \in c.fts
                              \/ \E f \in rows : f.tag \in Texts /\ r = [id |-> f.id, text |-> f.v]
    /\ d.facts = (x.facts \ old) \cup {[f EXCEPT !.rx = tx] : f \in old \ gone}
    /\ d.fts = {r \in x.fts : \A f \in old : f.id # r.id}
    /\ d.blobs = {b \in x.blobs : UsesBlob(d.facts, b)}
    /\ y.registry = d.registry /\ y.facts = d.facts
    /\ h = ExportTransaction(y, tx)
    /\ d.events = [t \in DOMAIN c.events \cup {tx} |->
          IF t = tx THEN [data |-> <<h>>, hash |-> h, op |-> op] ELSE c.events[t]]

(* What a put starts from: the identifiers are there and nothing else is. *)
LEMMA OpenedIs ==
    ASSUME NEW c, IsContent(c), c.next \in Nat, NEW w, NEW event, NEW new, new = NewSelectors(c, w),
           Len(new) \in Nat, NEW o, o = Allocate(c, new, event)
    PROVE  /\ IsContent(o) /\ PutRegistry(c, o, new, event, c.next + Len(new))
           /\ o.next - 1 = c.next + Len(new)
           /\ o.facts = c.facts /\ o.events = c.events /\ o.blobs = c.blobs /\ o.fts = c.fts
           /\ o.row = c.row
<1>1. PICK tx : tx = c.next + Len(new)
  OBVIOUS
<1>2. tx \in Nat
  BY <1>1
<1>3. /\ IsContent(o)
      /\ o.registry = [i \in DOMAIN c.registry \cup c.next..tx |->
                          IF i \in DOMAIN c.registry THEN c.registry[i]
                          ELSE [sel |-> IF i = tx THEN event ELSE new[i - c.next + 1],
                                created |-> tx]]
      /\ o.facts = c.facts /\ o.events = c.events /\ o.blobs = c.blobs /\ o.fts = c.fts
      /\ o.next = tx + 1 /\ o.row = c.row
  BY <1>1 DEF IsContent, Allocate
<1>4. PutRegistry(c, o, new, event, tx)
  BY <1>3 DEF PutRegistry
<1>5. o.next - 1 = tx
  BY <1>2, <1>3
<1> QED  BY <1>1, <1>3, <1>4, <1>5

(* A put that changes anything, table by table. *)
LEMMA WrittenFields ==
    ASSUME NEW c, IsContent(c), c.next \in Nat, c.row \in Nat, NEW w, NEW event, NEW op, NEW ts,
           NEW new, new = NewSelectors(c, w), Len(new) \in Nat, NEW tx, tx = c.next + Len(new),
           NEW o, o = Allocate(c, new, event), NEW E, E = IdOf(o, w.e), NEW A, A = AttrOf(o, w),
           NEW V, V = Target(o, w), E # tx,
           NEW d, d = Written(c, w, event, op, ts), d # c
    PROVE  /\ IsContent(d)
           /\ \E h, old, gone, rows, x, y :
                 PutTables(c, d, new, event, tx, E, A, w.tag, V, h, op, old, gone, rows, x, y)
<1>1. /\ IsContent(o) /\ PutRegistry(c, o, new, event, tx) /\ o.next - 1 = tx
      /\ o.facts = c.facts /\ o.events = c.events /\ o.blobs = c.blobs /\ o.fts = c.fts
      /\ o.row = c.row
  BY OpenedIs
<1>2. PICK old : old = CellOf(o, w)
  OBVIOUS
<1>3. PICK s : s = InsertFact(o, tx, At, "instant", tx, tx)
  OBVIOUS
<1>4. PICK t : t = Dated(s, tx, ts)
  OBVIOUS
<1>5. PICK x : x = Valued(t, tx, E, A, w.tag, V)
  OBVIOUS
<1>6. PICK y : y = RetractFacts(x, old, tx)
  OBVIOUS
<1>7. PICK h : h = ExportTransaction(y, tx)
  OBVIOUS
<1>8. d = Record(y, tx, h, op)
  BY <1>1, <1>2, <1>3, <1>4, <1>5, <1>6, <1>7 DEF Written, Dated, Valued
<1>9. PICK rows : Asserts(o, x, rows) /\ PutRows(rows, tx, E, A, w.tag, V)
  <2>1. o.row \in Nat /\ IsContent(o)
    BY <1>1
  <2> QED  BY <1>3, <1>4, <1>5, <2>1, PutAsserts
<1>10. PICK gone : gone = {f \in old : DeletesHistory(x, f.a)}
  OBVIOUS
<1>11. RetractTables(x, y, old, gone, tx)
  <2>1. IsContent(x)
    BY <1>9 DEF Asserts
  <2> QED  BY <1>6, <1>10, <2>1, RetractFields
<1>12. /\ IsContent(d)
       /\ d.registry = y.registry /\ d.facts = y.facts /\ d.blobs = y.blobs
       /\ d.fts = y.fts /\ d.next = y.next /\ d.row = y.row /\ d.born = y.born
       /\ d.events = [u \in DOMAIN y.events \cup {tx} |->
             IF u = tx THEN [data |-> <<h>>, hash |-> h, op |-> op] ELSE y.events[u]]
  <2>1. IsContent(y)
    BY <1>11 DEF RetractTables
  <2>2. RecordTables(y, d, tx, h, op)
    BY <1>8, <2>1, RecordFields
  <2> QED  BY <2>2 DEF RecordTables
<1>13. /\ y.registry = o.registry /\ y.events = c.events /\ y.next = o.next /\ y.row = x.row
       /\ x.facts = c.facts \cup rows
  BY <1>1, <1>9, <1>11 DEF Asserts, RetractTables
<1>14. old = {f \in c.facts : f.rx = 0 /\ f.e = E /\ f.a = A}
  BY <1>1, <1>2 DEF CellOf
<1>15. PutRegistry(c, d, new, event, tx)
  BY <1>1, <1>12, <1>13 DEF PutRegistry
<1>16. /\ \A f \in rows : f.id \in Nat /\ f.id >= c.row /\ f.id < d.row
       /\ \A f, g \in rows : f.id = g.id => f = g
       /\ d.row \in Nat /\ c.row <= d.row
       /\ \A b : b \in x.blobs <=> b \in c.blobs \/ \E f \in rows : f.tag = "textref" /\ f.v = b
       /\ \A r : r \in x.fts <=> \/ r \in c.fts
                                 \/ \E f \in rows : f.tag \in Texts /\ r = [id |-> f.id, text |-> f.v]
  BY <1>1, <1>9, <1>12, <1>13 DEF Asserts
<1>17. /\ d.facts = (x.facts \ old) \cup {[f EXCEPT !.rx = tx] : f \in old \ gone}
       /\ d.fts = {r \in x.fts : \A f \in old : f.id # r.id}
       /\ d.blobs = {b \in x.blobs : UsesBlob(d.facts, b)}
  BY <1>11, <1>12 DEF RetractTables
<1>18. d.events = [u \in DOMAIN c.events \cup {tx} |->
             IF u = tx THEN [data |-> <<h>>, hash |-> h, op |-> op] ELSE c.events[u]]
  BY <1>12, <1>13
<1>19. PutTables(c, d, new, event, tx, E, A, w.tag, V, h, op, old, gone, rows, x, y)
  BY <1>7, <1>9, <1>10, <1>12, <1>13, <1>14, <1>15, <1>16, <1>17, <1>18 DEF PutTables
<1> QED  BY <1>12, <1>19

(* The ids a put is about. *)
PutIds(d, tx, E, A, tag, V) ==
    /\ OfThing(d, E, tx) /\ (A = NoHistory \/ OfThing(d, A, tx))
    /\ tag = "ref" => OfThing(d, V, tx)

(* What a put is about is never a transaction nor one of its own attributes. *)
LEMMA PutAttr ==
    ASSUME NEW d, NEW tx, NEW E, NEW A, NEW tag, NEW V, RegistryOK(d), PutIds(d, tx, E, A, tag, V)
    PROVE  A \notin OwnAttr /\ E \in Nat /\ E >= 65 /\ E # NoHistory
<1>1. d.next \in Nat
  BY DEF RegistryOK
<1>2. \A i \in Ids(d) : i \in Nat /\ i >= 65
  BY <1>1, NumberFacts DEF Ids
<1>3. E \in Ids(d) /\ (A = NoHistory \/ A \in Ids(d))
  BY DEF PutIds, OfThing, Timely
<1> QED  BY <1>2, <1>3, NumberFacts DEF OwnAttr

(* A put closes or deletes the old row of its cell and adds its own rows. *)
LEMMA PutRowsChange ==
    ASSUME NEW c, NEW d, NEW new, NEW event \in Event, NEW tx, NEW E, NEW A, NEW tag, NEW V, NEW h, NEW op,
           NEW old, NEW gone, NEW rows, NEW x, NEW y,
           RegistryOK(c), RowsOK(c), RegistryGrows(c, d, tx, event), PutIds(d, tx, E, A, tag, V),
           PutTables(c, d, new, event, tx, E, A, tag, V, h, op, old, gone, rows, x, y)
    PROVE  RowsChange(c, d, tx, gone, old \ gone, rows)
<1>0. RegistryOK(d)
  BY RegistryKept
<1>1. A \notin OwnAttr /\ E \in Nat /\ E # NoHistory
  BY <1>0, PutAttr
<1>2. tx \in Nat /\ tx >= c.next /\ c.row \in Nat
  BY DEF RegistryGrows, RowsOK
<1>3. \A f \in c.facts : f.e # tx
  BY <1>2, NewTx
<1>4. /\ \A f : f \in old <=> f \in c.facts /\ f.rx = 0 /\ f.e = E /\ f.a = A
      /\ gone \subseteq old /\ old \subseteq c.facts
  BY DEF PutTables
<1>5. /\ \A f \in rows : PutRow(f, tx, E, A, tag, V)
      /\ \A f, g \in rows : f.e = g.e /\ f.a = g.a => f = g
      /\ \E f \in rows : f.e = tx /\ f.a = At
  BY DEF PutTables, PutRows
<1>6. /\ \A f \in rows : f.id \in Nat /\ f.id >= c.row /\ f.id < d.row
      /\ \A f, g \in rows : f.id = g.id => f = g
      /\ d.row \in Nat /\ c.row <= d.row
  BY DEF PutTables
<1>7. tx \in DOMAIN d.events
  BY DEF RegistryGrows
<1>8. ASSUME NEW f \in rows PROVE RowOK(d, f)
  <2>1. PutRow(f, tx, E, A, tag, V) /\ f.id \in Nat /\ f.id < d.row
    BY <1>5, <1>6
  <2>2. /\ f = [id |-> f.id, e |-> f.e, a |-> f.a, tag |-> f.tag, v |-> f.v, tx |-> f.tx, rx |-> f.rx]
        /\ f.tx = tx /\ f.rx = 0
    BY <2>1 DEF PutRow
  <2>3. CASE f.e = tx /\ f.a \in {At, ImportedAt} /\ f.tag = "instant"
    <3>1. f.a \in OwnAttr /\ f.a # Excised
      BY <2>3 DEF OwnAttr, At, ImportedAt, Excised
    <3> QED  BY <1>7, <2>1, <2>2, <2>3, <3>1 DEF RowOK
  <2>4. CASE f.e = E /\ f.a = A /\ f.tag = tag /\ f.v = V
    BY <1>1, <1>7, <2>1, <2>2, <2>4 DEF RowOK, PutIds
  <2> QED  BY <2>1, <2>3, <2>4 DEF PutRow
<1>9. \A f \in rows : f \notin c.facts
  <2>1. \A f \in c.facts : f.id \in Nat /\ f.id < c.row
    BY DEF RowsOK, RowOK
  <2> QED  BY <1>2, <1>6, <2>1
<1>10. \A f : f \in d.facts <=> \/ f \in c.facts /\ f \notin gone /\ f \notin old \ gone
                                \/ \E g \in old \ gone : f = [g EXCEPT !.rx = tx]
                                \/ f \in rows
  <2>1. /\ d.facts = (x.facts \ old) \cup {[f EXCEPT !.rx = tx] : f \in old \ gone}
        /\ x.facts = c.facts \cup rows
    BY DEF PutTables
  <2> QED  BY <1>4, <1>9, <2>1
<1>11. \A f \in rows, g \in c.facts :
          g \notin gone /\ g \notin old \ gone /\ g.rx = 0 /\ f.e = g.e => f.a # g.a
  BY <1>3, <1>4, <1>5 DEF PutRow
<1>12. \A f \in rows : RowOK(d, f) /\ f.tx = tx /\ f.rx = 0 /\ f.id >= c.row
  BY <1>5, <1>6, <1>8 DEF PutRow
<1>13. /\ \A f \in gone : f.a # At
       /\ \A f \in old \ gone : f \notin gone /\ f.rx = 0 /\ f.a \notin OwnAttr
  BY <1>1, <1>4 DEF OwnAttr
<1>14. gone \subseteq c.facts /\ old \ gone \subseteq c.facts
  BY <1>4
<1>15. \A f, g \in rows : f.id = g.id \/ (f.e = g.e /\ f.a = g.a) => f = g
  BY <1>5, <1>6
<1>16. \A f, g \in rows : f.e # tx /\ g.e # tx => f = g
  BY <1>5 DEF PutRow
<1>17. \A f, g \in old \ gone : f = g
  BY <1>4 DEF RowsOK
<1> QED  BY <1>5, <1>6, <1>10, <1>11, <1>12, <1>13, <1>14, <1>15, <1>16, <1>17 DEF RowsChange

(* The index and the blobs change with them. *)
LEMMA PutDerived ==
    ASSUME NEW c, NEW d, NEW new, NEW event \in Event, NEW tx, NEW E, NEW A, NEW tag, NEW V, NEW h, NEW op,
           NEW old, NEW gone, NEW rows, NEW x, NEW y,
           RegistryOK(c), RowsOK(c), DerivedOK(c), RegistryGrows(c, d, tx, event),
           PutTables(c, d, new, event, tx, E, A, tag, V, h, op, old, gone, rows, x, y),
           RowsChange(c, d, tx, gone, old \ gone, rows)
    PROVE  DerivedChange(c, d, gone, old \ gone, rows)
<1>1. gone \cup (old \ gone) = old /\ old \subseteq c.facts
  BY DEF PutTables
<1>2. \A f \in old, g \in rows : f.id # g.id
  <2>1. \A f \in c.facts : f.id \in Nat /\ f.id < c.row
    BY DEF RowsOK, RowOK
  <2>2. \A f \in rows : f.id \in Nat /\ f.id >= c.row
    BY DEF PutTables
  <2>3. c.row \in Nat
    BY DEF RowsOK
  <2> QED  BY <1>1, <2>1, <2>2, <2>3
<1>3. /\ \A r : r \in x.fts <=> \/ r \in c.fts
                                \/ \E f \in rows : f.tag \in Texts /\ r = [id |-> f.id, text |-> f.v]
      /\ d.fts = {r \in x.fts : \A f \in old : f.id # r.id}
  BY DEF PutTables
<1>4. \A r : r \in d.fts <=>
          \/ r \in c.fts /\ \A f \in old : f.id # r.id
          \/ \E f \in rows : f.tag \in Texts /\ r = [id |-> f.id, text |-> f.v]
  BY <1>2, <1>3
<1>5. ASSUME NEW b, UsesBlob(d.facts, b) PROVE b \in x.blobs
  <2>1. PICK f \in d.facts : f.tag = "textref" /\ f.v = b
    BY <1>5 DEF UsesBlob
  <2>2. /\ \A z : z \in x.blobs <=> z \in c.blobs \/ \E g \in rows : g.tag = "textref" /\ g.v = z
    BY DEF PutTables
  <2>3. \A g \in c.facts : g.tag = "textref" => g.v \in c.blobs
    BY DEF DerivedOK, UsesBlob
  <2>4. CASE f \in c.facts
    BY <2>1, <2>2, <2>3, <2>4
  <2>5. CASE f \in rows
    BY <2>1, <2>2, <2>5
  <2>6. ASSUME NEW g \in old \ gone, Shutting(f, g, tx) PROVE b \in x.blobs
    <3>1. g \in c.facts /\ g.tag = f.tag /\ g.v = f.v
      BY <1>1, <2>6 DEF Shutting
    <3> QED  BY <2>1, <2>2, <2>3, <3>1
  <2> QED  BY <2>4, <2>5, <2>6, RowFrom
<1>6. \A b : b \in d.blobs <=> UsesBlob(d.facts, b)
  <2>1. d.blobs = {b \in x.blobs : UsesBlob(d.facts, b)}
    BY DEF PutTables
  <2> QED  BY <1>5, <2>1
<1> QED  BY <1>1, <1>4, <1>6 DEF DerivedChange

(* What a put deletes is history given up, never an audit marker. *)
LEMMA PutGone ==
    ASSUME NEW c, NEW d, NEW new, NEW event \in Event, NEW tx, NEW E, NEW A, NEW tag, NEW V, NEW h, NEW op,
           NEW old, NEW gone, NEW rows, NEW x, NEW y,
           RegistryOK(c), RowsOK(c), RegistryGrows(c, d, tx, event), PutIds(d, tx, E, A, tag, V),
           PutTables(c, d, new, event, tx, E, A, tag, V, h, op, old, gone, rows, x, y)
    PROVE  GoneRightly(c, gone, {}) /\ \A f \in gone : f.a # Excised
<1>0. RegistryOK(d)
  BY RegistryKept
<1>1. A \notin OwnAttr /\ E \in Nat /\ E # NoHistory
  BY <1>0, PutAttr
<1>2. ASSUME NEW f \in gone
      PROVE  f.rx = 0 /\ f.a = A /\ f.a # NoHistory /\ DeletesHistory(c, f.a)
  <2>1. f \in c.facts /\ f.rx = 0 /\ f.a = A /\ DeletesHistory(x, f.a)
    BY DEF PutTables
  <2>2. PICK g \in x.facts : g.e = f.a /\ g.a = NoHistory /\ g.v = 1 /\ g.rx = 0
    BY <2>1 DEF DeletesHistory
  <2>3. g \in c.facts
    <3> SUFFICES ASSUME g \in rows PROVE FALSE
      BY DEF PutTables
    <3>1. PutRow(g, tx, E, A, tag, V)
      BY DEF PutTables, PutRows
    <3>2. NoHistory \notin {At, ImportedAt}
      BY DEF NoHistory, At, ImportedAt
    <3>3. g.e = E /\ g.a = A
      BY <2>2, <3>1, <3>2 DEF PutRow
    <3> QED  BY <1>1, <2>1, <2>2, <3>3
  <2>4. f.a # NoHistory
    <3>1. g.e \in Ids(c)
      BY <2>3, RowIds
    <3>2. NoHistory \notin Ids(c)
      BY NumberFacts DEF Ids, RegistryOK
    <3> QED  BY <2>2, <3>1, <3>2
  <2> QED  BY <2>1, <2>2, <2>3, <2>4 DEF DeletesHistory
<1>3. \A f \in gone : f.a \notin OwnAttr /\ f.a # Excised
  BY <1>1, <1>2 DEF OwnAttr
<1> QED  BY <1>2, <1>3 DEF GoneRightly

(* The event of a put: its export. *)
LEMMA PutEvent ==
    ASSUME NEW c, NEW d, NEW new, NEW event \in Event, NEW tx, NEW E, NEW A, NEW tag, NEW V, NEW h, NEW op,
           NEW old, NEW gone, NEW rows, NEW x, NEW y, NEW twice,
           RegistryOK(c), RowsOK(c), RegistryGrows(c, d, tx, event), PutIds(d, tx, E, A, tag, V),
           PutTables(c, d, new, event, tx, E, A, tag, V, h, op, old, gone, rows, x, y),
           RowsChange(c, d, tx, gone, old \ gone, rows)
    PROVE  /\ EventOK(d, tx, twice) /\ h.redacts = {}
           /\ \A f \in d.facts : f.tx = tx => f.a # Excised
<1>0. RegistryOK(d)
  BY RegistryKept
<1>1. A \notin OwnAttr
  BY <1>0, PutAttr
<1>2. tx \in Nat /\ tx >= c.next
  BY DEF RegistryGrows
<1>3. \A f \in c.facts : f.tx # tx
  BY <1>2, NewTx
<1>4. ASSUME NEW f \in d.facts, f.tx = tx PROVE f.a # Excised
  <2>1. f \notin c.facts
    BY <1>3, <1>4
  <2>2. ASSUME NEW g \in old \ gone, Shutting(f, g, tx) PROVE FALSE
    <3>1. g \in c.facts /\ g.tx = tx
      BY <1>4, <2>2 DEF Shutting, RowsChange
    <3> QED  BY <1>3, <3>1
  <2>3. f \in rows
    BY <2>1, <2>2, RowFrom
  <2>4. PutRow(f, tx, E, A, tag, V)
    BY <2>3 DEF PutTables, PutRows
  <2>5. At # Excised /\ ImportedAt # Excised
    BY DEF At, ImportedAt, Excised
  <2> QED  BY <1>1, <2>4, <2>5 DEF PutRow, OwnAttr
<1>5. h = ExportTransaction(y, tx) /\ y.registry = d.registry /\ y.facts = d.facts
  BY DEF PutTables
<1>6. h = ExportTransaction(d, tx)
  <2>1. Selector(y, tx) = Selector(d, tx) /\ OriginAt(y, tx) = OriginAt(d, tx)
        /\ CreatedBy(y, tx) = CreatedBy(d, tx)
    BY <1>5 DEF Selector, OriginAt, TimeOf, CreatedBy
  <2>2. \A f : Tuple(y, f) = Tuple(d, f)
    BY <1>5 DEF Tuple, Selector
  <2> QED  BY <1>5, <2>1, <2>2 DEF ExportTransaction
<1>7. /\ h.event = Selector(d, tx) /\ h.at = OriginAt(d, tx) /\ h.redacted = FALSE /\ h.redacts = {}
  BY <1>6 DEF ExportTransaction
<1>8. Selector(d, tx) = d.registry[tx].sel
  <2>1. tx \in Ids(d)
    BY IdsGrow
  <2> QED  BY <1>0, <2>1, SelectorIs
<1>9. d.events[tx] = [data |-> <<h>>, hash |-> h, op |-> op]
  BY DEF PutTables
<1>10. d.events[tx].data = <<h>> /\ d.events[tx].hash = h /\ d.events[tx].op = op /\ <<h>> # <<>>
  BY <1>9
<1>11. d.events[tx] = [data |-> d.events[tx].data, hash |-> h, op |-> d.events[tx].op]
  BY <1>9, <1>10
<1>12. EventOK(d, tx, twice)
  BY <1>4, <1>6, <1>7, <1>8, <1>10, <1>11 DEF EventOK
<1> QED  BY <1>4, <1>7, <1>12

(* A put keeps the file good, *)
LEMMA TablesKeepGood ==
    ASSUME NEW c, NEW d, NEW new, NEW event \in Event, NEW tx, NEW E, NEW A, NEW tag, NEW V, NEW h, NEW op,
           NEW old, NEW gone, NEW rows, NEW x, NEW y, NEW done, NEW twice, Good(c, done, twice),
           IsContent(d), RegistryGrows(c, d, tx, event), PutIds(d, tx, E, A, tag, V),
           PutTables(c, d, new, event, tx, E, A, tag, V, h, op, old, gone, rows, x, y)
    PROVE  Good(d, done, twice)
<1>0. /\ RegistryOK(c) /\ RowsOK(c) /\ DerivedOK(c) /\ ReceiptsOK(c, twice) /\ AuditOK(c, done, twice)
  BY DEF Good
<1>1. PICK shut : shut = old \ gone
  OBVIOUS
<1>2. RowsChange(c, d, tx, gone, shut, rows)
  BY <1>0, <1>1, PutRowsChange
<1>3. DerivedChange(c, d, gone, shut, rows)
  BY <1>0, <1>1, <1>2, PutDerived
<1>4. GoneRightly(c, gone, {}) /\ \A f \in gone : f.a # Excised
  BY <1>0, PutGone
<1>5. /\ EventOK(d, tx, twice) /\ h.redacts = {}
      /\ \A f \in d.facts : f.tx = tx => f.a # Excised
  BY <1>0, <1>1, <1>2, PutEvent
<1>6. EventsChange(c, d, tx, {}, h, op)
  <2>1. tx \in Nat /\ tx >= c.next
    BY DEF RegistryGrows
  <2>2. tx \notin DOMAIN c.events
    BY <1>0, <2>1, NewTx
  <2>3. ASSUME NEW t \in DOMAIN c.events
        PROVE  d.events[t] = [data |-> c.events[t].data, hash |-> c.events[t].hash,
                              op |-> c.events[t].op]
    <3>1. EventOK(c, t, twice)
      BY <1>0 DEF ReceiptsOK
    <3>2. c.events[t] = [data |-> c.events[t].data, hash |-> c.events[t].hash, op |-> c.events[t].op]
      BY <3>1 DEF EventOK
    <3>3. d.events[t] = c.events[t]
      BY <2>2 DEF PutTables
    <3> QED  BY <3>2, <3>3
  <2>4. d.events[tx] = [data |-> <<h>>, hash |-> h, op |-> op]
    BY DEF PutTables
  <2> QED  BY <1>5, <2>3, <2>4 DEF EventsChange
<1>7. AuditChange(c, d, tx, gone, {}, done, twice, done, twice)
  BY <1>4, <1>5 DEF AuditChange
<1>8. EventOK(d, tx, twice) /\ GoneRightly(c, gone, {})
  BY <1>4, <1>5
<1> QED  BY <1>2, <1>3, <1>6, <1>7, <1>8, ChangeKeepsGood

(* An entity or attribute that is known by its selector can be written about. *)
LEMMA KnownThing ==
    ASSUME NEW d, RegistryOK(d), NEW tx, \A t \in DOMAIN d.events : t <= tx,
           NEW s \in Thing, Known(d, s)
    PROVE  OfThing(d, IdOf(d, s), tx)
<1>1. IdOf(d, s) \in Ids(d) /\ d.registry[IdOf(d, s)].sel = s
  BY IdOfKnown
<1>2. d.registry[IdOf(d, s)].created \in DOMAIN d.events
  BY <1>1 DEF RegistryOK, IdentityOK
<1> QED  BY <1>1, <1>2 DEF OfThing, Timely

(* and its entity, attribute and target have identifiers when rows are added. *)
LEMMA PutIdsThere ==
    ASSUME NEW c, NEW d, NEW o, NEW w, IsWrite(w), NEW new, NEW event \in Event, NEW tx, NEW E, NEW A, NEW V,
           RegistryOK(c), ~Known(c, event), new = NewSelectors(c, w), tx = c.next + Len(new),
           PutRegistry(c, d, new, event, tx), DOMAIN d.events = DOMAIN c.events \cup {tx},
           o.registry = d.registry,
           E = IdOf(o, w.e), A = AttrOf(o, w), V = Target(o, w)
    PROVE  RegistryGrows(c, d, tx, event) /\ PutIds(d, tx, E, A, w.tag, V) /\ E # tx
<1>1. /\ Fresh(c, new) /\ Has(c, new, w.e)
      /\ w.a \in Thing => Has(c, new, w.a)
      /\ w.tag = "ref" => Has(c, new, w.v)
  BY NewSelectorsFresh
<1>2. RegistryGrows(c, d, tx, event) /\ \A s : Has(c, new, s) => Known(d, s)
  BY <1>1, PutGrows
<1>3. RegistryOK(d)
  BY <1>2, RegistryKept
<1>4. \A t \in DOMAIN d.events : t <= tx
  <2>1. tx \in Nat /\ DOMAIN c.events \subseteq Ids(c) /\ \A i \in Ids(c) : i < tx /\ i \in Nat
    <3>1. tx \in Nat
      BY <1>2 DEF RegistryGrows
    <3>2. DOMAIN c.events \subseteq Ids(c) /\ Ids(c) \subseteq Nat /\ \A i \in Ids(c) : i < tx
      BY <1>2, IdsGrow
    <3> QED  BY <3>1, <3>2
  <2> QED  BY <2>1
<1>5. \A s \in Thing : Has(c, new, s) => OfThing(d, IdOf(d, s), tx)
  BY <1>2, <1>3, <1>4, KnownThing
<1>6. \A s : IdOf(o, s) = IdOf(d, s)
  BY DEF IdOf
<1>7. OfThing(d, E, tx)
  BY <1>1, <1>5, <1>6 DEF IsWrite
<1>8. A = NoHistory \/ OfThing(d, A, tx)
  BY <1>1, <1>5, <1>6 DEF IsWrite, AttrOf
<1>9. w.tag = "ref" => OfThing(d, V, tx)
  BY <1>1, <1>5, <1>6 DEF IsWrite, Target
<1>10. E # tx
  <2>1. d.registry[E].sel \in Thing
    BY <1>7 DEF OfThing
  <2>2. d.registry[tx].sel \in Event
    <3>1. tx \in c.next..tx
      BY <1>2, IdsGrow
    <3>2. d.registry[tx].sel \in {event}
      BY <1>2, <3>1 DEF RegistryGrows
    <3> QED  BY <3>2
  <2> QED  BY <2>1, <2>2, SelectorsAssumption
<1> QED  BY <1>2, <1>7, <1>8, <1>9, <1>10 DEF PutIds

(* A put leaves a good file. *)
LEMMA PutKeepsGood ==
    ASSUME NEW c, NEW done, NEW twice, Good(c, done, twice), NEW w, IsWrite(w),
           NEW event \in Event, ~Known(c, event), NEW op, NEW origin_,
           NEW d, d = Written(c, w, event, op, origin_), d # c
    PROVE  Good(d, done, twice)
<1>0. IsContent(c) /\ RegistryOK(c) /\ RowsOK(c) /\ c.next \in Nat /\ c.row \in Nat
  BY DEF Good, RegistryOK, RowsOK
<1>1. PICK new : new = NewSelectors(c, w)
  OBVIOUS
<1>2. Len(new) \in Nat
  <2>1. Fresh(c, new)
    BY <1>1, NewSelectorsFresh
  <2> QED  BY <2>1 DEF Fresh
<1>3. PICK tx : tx = c.next + Len(new)
  OBVIOUS
<1>4. PICK o : o = Allocate(c, new, event)
  OBVIOUS
<1>5. PICK E, A, V : E = IdOf(o, w.e) /\ A = AttrOf(o, w) /\ V = Target(o, w)
  OBVIOUS
<1>6. PutRegistry(c, o, new, event, tx)
  BY <1>0, <1>1, <1>2, <1>3, <1>4, OpenedIs
<1>7. E # tx
  <2>1. PICK p : p = [registry |-> o.registry, next |-> o.next,
                      events |-> [t \in DOMAIN c.events \cup {tx} |-> Null]]
    OBVIOUS
  <2>2. p.registry = o.registry /\ p.next = o.next /\ DOMAIN p.events = DOMAIN c.events \cup {tx}
    BY <2>1
  <2>3. PutRegistry(c, p, new, event, tx)
    BY <1>6, <2>2 DEF PutRegistry
  <2> QED  BY <1>0, <1>1, <1>3, <1>5, <2>2, <2>3, PutIdsThere
<1>8. IsContent(d) /\ \E h, old, gone, rows, x, y :
          PutTables(c, d, new, event, tx, E, A, w.tag, V, h, op, old, gone, rows, x, y)
  BY <1>0, <1>1, <1>2, <1>3, <1>4, <1>5, <1>7, WrittenFields
<1>9. PICK h, old, gone, rows, x, y :
          PutTables(c, d, new, event, tx, E, A, w.tag, V, h, op, old, gone, rows, x, y)
  BY <1>8
<1>10. RegistryGrows(c, d, tx, event) /\ PutIds(d, tx, E, A, w.tag, V)
  <2>1. PutRegistry(c, d, new, event, tx) /\ DOMAIN d.events = DOMAIN c.events \cup {tx}
    BY <1>9 DEF PutTables
  <2>2. o.registry = d.registry
    BY <1>6, <2>1 DEF PutRegistry
  <2> QED  BY <1>0, <1>1, <1>3, <1>5, <2>1, <2>2, PutIdsThere
<1> QED  BY <1>8, <1>9, <1>10, TablesKeepGood

-----------------------------------------------------------------------------
(* The content is good, damaged or not, and damage to derived rows is that. *)
ContentInv ==
    /\ activity \in Activities
    /\ excised \subseteq Thing /\ again \in BOOLEAN
    /\ Good(IF Damaged THEN sound ELSE db, excised, again)
    /\ damage.kind = "derived" => OnlyDerived(db, sound)

(* Where Backup is, how many pages it has copied and what a restore returned. *)
ProtocolInv ==
    /\ outcome \in {"none", "ok", "refused"}
    /\ step \in {"none", "copy", "verify", "sync", "publish", "remove", "syncdir"}
    /\ pages \in 0..activity.pages
    /\ step = "copy" => pages < activity.pages

(* A file that has just been initialized is good. *)
LEMMA EmptyIsGood ==
    ASSUME NEW n
    PROVE  Good(Empty(n), {}, FALSE)
<1>1. PICK c : c = Empty(n)
  OBVIOUS
<1>2. /\ c = [registry |-> c.registry, facts |-> c.facts, events |-> c.events, blobs |-> c.blobs,
              fts |-> c.fts, next |-> c.next, row |-> c.row, born |-> c.born]
      /\ c.registry = <<>> /\ c.facts = {} /\ c.events = <<>> /\ c.blobs = {} /\ c.fts = {}
      /\ c.next = FirstUserID /\ c.row = 1
  BY <1>1 DEF Empty
<1>3. IsContent(c)
  BY <1>2 DEF IsContent
<1>4. DOMAIN c.events = {} /\ DOMAIN c.registry = {}
  BY <1>2
<1>5. c.next = 65 /\ Ids(c) = {}
  BY <1>2, NumberFacts DEF Ids
<1>6. RegistryOK(c)
  BY <1>4, <1>5, NumberFacts DEF RegistryOK
<1>7. RowsOK(c) /\ SparseOK(c)
  BY <1>2, <1>4 DEF RowsOK, SparseOK
<1>8. DerivedOK(c)
  BY <1>2 DEF DerivedOK, ExpectedFTS, UsesBlob
<1>9. ReceiptsOK(c, FALSE) /\ AuditOK(c, {}, FALSE)
  BY <1>2, <1>4 DEF ReceiptsOK, AuditOK
<1> QED  BY <1>1, <1>3, <1>6, <1>7, <1>8, <1>9 DEF Good

(* The invariant holds at first. *)
LEMMA InitContent == Init => ContentInv
<1> SUFFICES ASSUME Init PROVE ContentInv
  OBVIOUS
<1>1. /\ activity \in Activities /\ db = Empty(1) /\ excised = {} /\ again = FALSE
      /\ damage.kind = "none"
  BY DEF Init, NoDamage
<1>2. ~Damaged
  BY <1>1 DEF Damaged
<1>3. Good(db, excised, again)
  BY <1>1, EmptyIsGood
<1> QED  BY <1>1, <1>2, <1>3 DEF ContentInv

(* Repair rebuilds what the rows determine. *)
LEMMA RepairRestores ==
    ASSUME NEW c, NEW d, NEW done, NEW twice, Good(d, done, twice), OnlyDerived(c, d)
    PROVE  Repaired(c) = d
<1>1. IsContent(c) /\ IsContent(d) /\ DerivedOK(d)
  BY DEF Good, OnlyDerived
<1>2. ExpectedFTS(c) = d.fts
  BY <1>1 DEF OnlyDerived, ExpectedFTS, DerivedOK
<1>3. PICK p : p = [c EXCEPT !.fts = ExpectedFTS(c)]
  OBVIOUS
<1>4. /\ IsContent(p) /\ p.registry = d.registry /\ p.facts = d.facts /\ p.events = d.events
      /\ p.next = d.next /\ p.row = d.row /\ p.born = d.born /\ p.fts = d.fts /\ p.blobs = c.blobs
  BY <1>1, <1>2, <1>3 DEF IsContent, OnlyDerived
<1>5. PICK q : q = Collected(p)
  OBVIOUS
<1>6. /\ IsContent(q)
      /\ q.registry = p.registry /\ q.facts = p.facts /\ q.events = p.events
      /\ q.fts = p.fts /\ q.next = p.next /\ q.row = p.row /\ q.born = p.born
      /\ q.blobs = {b \in p.blobs : UsesBlob(p.facts, b)}
  <2>1. IsContent(p)
    BY <1>4
  <2> QED  BY <1>5, <2>1, CollectedFields
<1>7. q.blobs = d.blobs
  BY <1>1, <1>4, <1>6 DEF DerivedOK, OnlyDerived
<1>8. q = d
  BY <1>1, <1>4, <1>6, <1>7 DEF IsContent
<1> QED  BY <1>3, <1>5, <1>8 DEF Repaired

(* The event of a write is one the file does not have. *)
LEMMA NextEventNew ==
    ASSUME \E u \in Event : ~Known(db, u)
    PROVE  NextEvent \in Event /\ ~Known(db, NextEvent)
BY DEF NextEvent

(* What is written is a write. *)
LEMMA WriteIs ==
    ASSUME NEW act \in Activities, NEW w \in act.writes
    PROVE  IsWrite(w)
<1>1. w \in Write
  BY ActivitiesAssumption DEF Activity
<1> QED  BY <1>1 DEF Write, IsWrite, Texts

(* What kind of damage each is. *)
LEMMA DamageKinds ==
    /\ \A x \in IdentityLost : x.kind = "identity"
    /\ \A x \in EventLost : x.kind = "event"
    /\ \A x \in PayloadLost : x.kind = "payload"
    /\ \A x \in FactLost \cup FactReopened \cup FactClosed \cup FactChanged : x.kind = "fact"
    /\ \A x \in AllocatorOff : x.kind = "next_id"
    /\ \A x \in BlobLost : x.kind = "blob"
    /\ \A x \in BlobStray \cup IndexLost \cup IndexStray : x.kind = "derived"
<1>1. \A k, r, b : Damage(k, r, b).kind = k
  BY DEF Damage
<1>2. ASSUME NEW x \in IdentityLost PROVE x.kind = "identity"
  <2>1. \E r, b : x = Damage("identity", r, b)
    BY Zenon DEF IdentityLost
  <2> QED  BY <1>1, <2>1
<1>3. ASSUME NEW x \in EventLost PROVE x.kind = "event"
  <2>1. \E r, b : x = Damage("event", r, b)
    BY Zenon DEF EventLost
  <2> QED  BY <1>1, <2>1
<1>4. ASSUME NEW x \in PayloadLost PROVE x.kind = "payload"
  <2>1. \E r, b : x = Damage("payload", r, b)
    BY Zenon DEF PayloadLost
  <2> QED  BY <1>1, <2>1
<1>5. ASSUME NEW x \in FactLost PROVE x.kind = "fact"
  <2>1. \E r, b : x = Damage("fact", r, b)
    BY Zenon DEF FactLost
  <2> QED  BY <1>1, <2>1
<1>6. ASSUME NEW x \in FactReopened PROVE x.kind = "fact"
  <2>1. \E r, b : x = Damage("fact", r, b)
    BY Zenon DEF FactReopened
  <2> QED  BY <1>1, <2>1
<1>7. ASSUME NEW x \in FactClosed PROVE x.kind = "fact"
  <2>1. \E r, b : x = Damage("fact", r, b)
    BY Zenon DEF FactClosed
  <2> QED  BY <1>1, <2>1
<1>8. ASSUME NEW x \in FactChanged PROVE x.kind = "fact"
  <2>1. \E r, b : x = Damage("fact", r, b)
    BY Zenon DEF FactChanged
  <2> QED  BY <1>1, <2>1
<1>9. ASSUME NEW x \in AllocatorOff PROVE x.kind = "next_id"
  <2>1. \E r, b : x = Damage("next_id", r, b)
    BY Zenon DEF AllocatorOff
  <2> QED  BY <1>1, <2>1
<1>10. ASSUME NEW x \in BlobLost PROVE x.kind = "blob"
  <2>1. \E r, b : x = Damage("blob", r, b)
    BY Zenon DEF BlobLost
  <2> QED  BY <1>1, <2>1
<1>11. ASSUME NEW x \in BlobStray PROVE x.kind = "derived"
  <2>1. \E r, b : x = Damage("derived", r, b)
    BY Zenon DEF BlobStray
  <2> QED  BY <1>1, <2>1
<1>12. ASSUME NEW x \in IndexLost PROVE x.kind = "derived"
  <2>1. \E r, b : x = Damage("derived", r, b)
    BY Zenon DEF IndexLost
  <2> QED  BY <1>1, <2>1
<1>13. ASSUME NEW x \in IndexStray PROVE x.kind = "derived"
  <2>1. \E r, b : x = Damage("derived", r, b)
    BY Zenon DEF IndexStray
  <2> QED  BY <1>1, <2>1
<1> QED  BY <1>2, <1>3, <1>4, <1>5, <1>6, <1>7, <1>8, <1>9, <1>10, <1>11, <1>12, <1>13

(* Only a stray or lost index entry and a stray blob are damage to derived rows, *)
LEMMA DamageIs ==
    ASSUME NEW x \in Damages
    PROVE  /\ x.kind \in {"identity", "event", "payload", "fact", "next_id", "blob", "derived"}
           /\ x.kind = "derived" => x \in BlobStray \cup IndexLost \cup IndexStray
BY DamageKinds DEF Damages

(* which leaves everything else as it was. *)
LEMMA DamageDerived ==
    ASSUME IsContent(db), NEW x \in Damages, x.kind = "derived"
    PROVE  OnlyDerived(x.db, db)
<1>1. \A k, r, b : Damage(k, r, b).db = b
  BY DEF Damage
<1>2. CASE x \in BlobStray
  <2>1. x.db = [db EXCEPT !.blobs = @ \cup {9}]
    BY <1>1, <1>2 DEF BlobStray
  <2> QED  BY <2>1 DEF OnlyDerived, IsContent
<1>3. CASE x \in IndexLost
  <2>1. PICK r \in db.fts : x.db = [db EXCEPT !.fts = @ \ {r}]
    BY <1>1, <1>3 DEF IndexLost
  <2> QED  BY <2>1 DEF OnlyDerived, IsContent
<1>4. CASE x \in IndexStray
  <2>1. x.db = [db EXCEPT !.fts = @ \cup {[id |-> db.row, text |-> 9]}]
    BY <1>1, <1>4 DEF IndexStray
  <2> QED  BY <2>1 DEF OnlyDerived, IsContent
<1> QED  BY <1>2, <1>3, <1>4, DamageIs

(* Every step keeps the content good: one case per action. *)
LEMMA NextContent == ContentInv /\ [Next]_vars => ContentInv'
<1> SUFFICES ASSUME ContentInv, [Next]_vars PROVE ContentInv'
  OBVIOUS
<1>1. ASSUME NEW w \in activity.writes, Put(w) PROVE ContentInv'
  <2>1. ~Damaged /\ ~Damaged' /\ damage' = damage /\ damage.kind # "derived"
    BY <1>1 DEF Put, Commit, Damaged
  <2>2. Good(db, excised, again)
    BY <2>1 DEF ContentInv
  <2>3. NextEvent \in Event /\ ~Known(db, NextEvent)
    BY <1>1, NextEventNew DEF Put, Room
  <2>4. db' = Written(db, w, NextEvent, NextEvent, w.origin) /\ db' # db
        /\ excised' = excised /\ again' = again /\ activity' = activity
    BY <1>1 DEF Put, Commit
  <2>5. IsWrite(w)
    BY WriteIs DEF ContentInv
  <2>6. Good(db', excised, again)
    BY <2>2, <2>3, <2>4, <2>5, PutKeepsGood
  <2> QED  BY <2>1, <2>4, <2>6 DEF ContentInv
<1>2. ASSUME NEW sel \in activity.excise, ExciseThing(sel) PROVE ContentInv'
  <2>1. ~Damaged /\ ~Damaged' /\ damage' = damage /\ damage.kind # "derived"
    BY <1>2 DEF ExciseThing, Commit, Damaged
  <2>2. Good(db, excised, again) /\ again \in BOOLEAN
    BY <2>1 DEF ContentInv
  <2>3. NextEvent \in Event /\ ~Known(db, NextEvent)
    BY <1>2, NextEventNew DEF ExciseThing, Room
  <2>4. db' = Excise(db, sel, NextEvent, Null) /\ Known(db, sel)
        /\ excised' = excised \cup {sel} /\ again' = (again \/ sel \in excised)
        /\ activity' = activity
    BY <1>2 DEF ExciseThing, Commit
  <2>5. sel \in Thing
    BY ActivitiesAssumption DEF ContentInv, Activity
  <2>6. Good(db', excised \cup {sel}, again \/ sel \in excised)
    BY <2>2, <2>3, <2>4, <2>5, ExciseKeepsGood
  <2>7. Good(db', excised', again')
    BY <2>4, <2>6
  <2> QED  BY <2>1, <2>4, <2>5, <2>7 DEF ContentInv
<1>3. CASE GoesBad
  <2>1. PICK x \in Damages : /\ damage' = [kind |-> x.kind, row |-> x.row]
                             /\ sound' = db /\ db' = x.db
    BY <1>3 DEF GoesBad
  <2>2. ~Damaged /\ UNCHANGED <<activity, excised, again>>
    BY <1>3 DEF GoesBad
  <2>3. Good(db, excised, again)
    BY <2>2 DEF ContentInv
  <2>4. x.kind # "none" /\ damage'.kind = x.kind
    BY <2>1, DamageIs
  <2>5. Damaged'
    BY <2>4 DEF Damaged
  <2>6. damage'.kind = "derived" => OnlyDerived(db', sound')
    BY <2>1, <2>3, <2>4, DamageDerived DEF Good
  <2> QED  BY <2>1, <2>2, <2>3, <2>5, <2>6 DEF ContentInv
<1>4. CASE Repair
  <2>1. Damaged /\ db' = Repaired(db) /\ UNCHANGED <<activity, excised, again>>
    BY <1>4 DEF Repair
  <2>2. Good(sound, excised, again)
    BY <2>1 DEF ContentInv
  <2>3. CASE damage.kind = "derived"
    <3>1. damage'.kind = "none" /\ ~Damaged'
      BY <1>4, <2>3 DEF Repair, NoDamage, Damaged
    <3>2. db' = sound
      BY <2>1, <2>2, <2>3, RepairRestores DEF ContentInv
    <3> QED  BY <2>1, <2>2, <3>1, <3>2 DEF ContentInv
  <2>4. CASE damage.kind # "derived"
    <3>1. damage' = damage /\ sound' = sound /\ Damaged'
      BY <1>4, <2>1, <2>4 DEF Repair, Damaged
    <3> QED  BY <2>1, <2>2, <2>4, <3>1 DEF ContentInv
  <2> QED  BY <2>3, <2>4
<1>5. ASSUME UNCHANGED <<activity, content>> PROVE ContentInv'
  BY <1>5 DEF ContentInv, content, Damaged
<1> QED
  BY <1>1, <1>2, <1>3, <1>4, <1>5
  DEF Next, vars, content, untouched, TakeSnapshot, StreamGoesBad, Restore, BeginBackup, CopyPages,
      Verify, SyncFile, Publish, RemoveTemp, SyncDirectory, BackupFails, OtherCreates, MachineCrash

(* Every step keeps the state of the backup protocol and its page counter in range. *)
LEMMA NextProtocol ==
    ContentInv /\ ProtocolInv /\ [Next]_vars => ProtocolInv'
<1> SUFFICES ASSUME ContentInv, ProtocolInv, [Next]_vars PROVE ProtocolInv'
  OBVIOUS
<1>0. activity.pages \in Nat /\ activity.pages > 0
  BY ActivitiesAssumption DEF ContentInv, Activity
<1>1. ASSUME pages' = 0, activity' = activity, outcome' = outcome, step' \in {step, "copy"}
      PROVE  ProtocolInv'
  BY <1>0, <1>1 DEF ProtocolInv
<1>2. ASSUME UNCHANGED <<activity, pages, step>>,
             outcome' \in {outcome, "ok", "refused"}
      PROVE  ProtocolInv'
  BY <1>2 DEF ProtocolInv
<1>3. ASSUME UNCHANGED <<activity, pages, outcome>>,
             step' \in {"none", "sync", "publish", "remove", "syncdir"}
      PROVE  ProtocolInv'
  BY <1>3 DEF ProtocolInv
<1>4. CASE CopyPages
  <2>1. /\ step = "copy" /\ pages' = pages + 1 /\ UNCHANGED <<activity, outcome>>
        /\ step' = IF pages' = activity.pages THEN "verify" ELSE "copy"
    BY <1>4 DEF CopyPages, Goto, untouched, portable
  <2>2. pages \in Nat /\ pages < activity.pages
    BY <1>0, <2>1 DEF ProtocolInv
  <2>3. pages' \in 0..activity.pages
    BY <1>0, <2>1, <2>2
  <2>4. step' = "copy" => pages' < activity.pages
    BY <1>0, <2>1, <2>2
  <2> QED  BY <2>1, <2>3, <2>4 DEF ProtocolInv
<1>5. ASSUME NEW w \in activity.writes, Put(w) PROVE ProtocolInv'
  BY <1>1, <1>5 DEF Put, Commit, portable
<1>6. ASSUME NEW sel \in activity.excise, ExciseThing(sel) PROVE ProtocolInv'
  BY <1>1, <1>6 DEF ExciseThing, Commit, portable
<1>7. CASE GoesBad \/ BeginBackup
  BY <1>1, <1>7 DEF GoesBad, BeginBackup, Goto, untouched, portable
<1>8. ASSUME NEW basis \in DOMAIN db.events, TakeSnapshot(basis) PROVE ProtocolInv'
  BY <1>2, <1>8 DEF TakeSnapshot, files
<1>9. CASE Repair \/ StreamGoesBad \/ Restore \/ OtherCreates \/ UNCHANGED vars
  BY <1>2, <1>9 DEF Repair, StreamGoesBad, Restore, OtherCreates, vars, files, untouched, portable
<1>10. CASE Verify \/ SyncFile \/ Publish \/ RemoveTemp \/ SyncDirectory \/ BackupFails \/ MachineCrash
  BY <1>3, <1>10 DEF Verify, SyncFile, Publish, RemoveTemp, SyncDirectory, BackupFails, MachineCrash,
                     Goto, untouched, portable
<1> QED  BY <1>4, <1>5, <1>6, <1>7, <1>8, <1>9, <1>10 DEF Next

(* They are in range at first. *)
LEMMA InitProtocol == Init => ProtocolInv
<1> SUFFICES ASSUME Init PROVE ProtocolInv
  OBVIOUS
<1>1. activity.pages \in Nat
  BY ActivitiesAssumption DEF Init, Activity
<1> QED  BY <1>1 DEF Init, ProtocolInv

(* The content of the database file, and the content it had before damage, is
   good at every moment: whatever is put, retracted, imported or excised, and
   whatever doctor repairs. *)
THEOREM ContentInvariance == Spec => []ContentInv
BY InitContent, NextContent, PTL DEF Spec

(* FileSound for every set of writes and excisions: files are well formed and
   doctor reports no problem on a file that nothing has damaged (as long as no
   entity is excised twice). *)
THEOREM FilesAreSound == Spec => []FileSound
<1>1. ContentInv /\ ProtocolInv => FileSound
  <2> SUFFICES ASSUME ContentInv, ProtocolInv PROVE FileSound
    OBVIOUS
  <2>1. PICK c : c = IF Damaged THEN sound ELSE db
    OBVIOUS
  <2>2. Good(c, excised, again)
    BY <2>1 DEF ContentInv
  <2>3. Sane(c)
    BY <2>2, GoodIsSane
  <2>4. TypeOK
    BY <2>1, <2>3 DEF TypeOK, ContentInv, ProtocolInv
  <2>5. ASSUME ~Damaged, ~again PROVE DoctorOK(db)
    <3>1. Good(db, excised, FALSE)
      BY <2>5 DEF ContentInv
    <3> QED  BY <3>1, GoodIsQuiet
  <2> QED  BY <2>4, <2>5 DEF FileSound, DoctorQuiet
<1>2. Spec => []ProtocolInv
  BY InitProtocol, NextProtocol, ContentInvariance, PTL DEF Spec
<1> QED  BY <1>1, <1>2, ContentInvariance, PTL

-----------------------------------------------------------------------------
(* Doctor's fatal problems, each with its check. *)
Problems == {"next_id", "registry", "asserting", "retracting", "identities", "events",
             "blobs", "intervals", "payloads", "redactions", "schema"}

LEMMA FatalIs ==
    ASSUME NEW c
    PROVE  /\ Fatal(c) \subseteq Problems
           /\ "next_id" \in Fatal(c) <=> AllocatorBehind(c)
           /\ "registry" \in Fatal(c) <=> RegistryGaps(c) # {}
           /\ "asserting" \in Fatal(c) <=> (\E f \in c.facts : f.tx \notin DOMAIN c.events)
           /\ "retracting" \in Fatal(c) <=> ~(Ends(c.facts) \subseteq DOMAIN c.events)
           /\ "identities" \in Fatal(c) <=> UntimelyIdentities(c) # {}
           /\ "events" \in Fatal(c) <=> BadEvents(c) # {}
           /\ "blobs" \in Fatal(c) <=> (\E f \in c.facts : f.tag = "textref" /\ f.v \notin c.blobs)
           /\ "intervals" \in Fatal(c) <=> (\E f \in c.facts : f.rx # 0 /\ f.rx <= f.tx)
           /\ "payloads" \in Fatal(c) <=> (\E t \in DOMAIN c.events \cap DOMAIN c.registry :
                                       c.events[t].data # <<>> /\ ~PayloadOK(c, t))
           /\ "redactions" \in Fatal(c) <=> ~RedactionsOK(c)
           /\ "schema" \in Fatal(c) <=> CrowdedCells(c) # {}
<1>1. "next_id" \in Fatal(c) <=> AllocatorBehind(c)
  BY DEF Fatal
<1>2. "registry" \in Fatal(c) <=> RegistryGaps(c) # {}
  BY DEF Fatal
<1>3. "asserting" \in Fatal(c) <=> (\E f \in c.facts : f.tx \notin DOMAIN c.events)
  BY DEF Fatal
<1>4. "retracting" \in Fatal(c) <=> ~(Ends(c.facts) \subseteq DOMAIN c.events)
  BY DEF Fatal
<1>5. "identities" \in Fatal(c) <=> UntimelyIdentities(c) # {}
  BY DEF Fatal
<1>6. "events" \in Fatal(c) <=> BadEvents(c) # {}
  BY DEF Fatal
<1>7. "blobs" \in Fatal(c) <=> (\E f \in c.facts : f.tag = "textref" /\ f.v \notin c.blobs)
  BY DEF Fatal
<1>8. "intervals" \in Fatal(c) <=> (\E f \in c.facts : f.rx # 0 /\ f.rx <= f.tx)
  BY DEF Fatal
<1>9. "payloads" \in Fatal(c) <=> (\E t \in DOMAIN c.events \cap DOMAIN c.registry :
              c.events[t].data # <<>> /\ ~PayloadOK(c, t))
  BY DEF Fatal
<1>10. "redactions" \in Fatal(c) <=> ~RedactionsOK(c)
  BY DEF Fatal
<1>11. "schema" \in Fatal(c) <=> CrowdedCells(c) # {}
  BY DEF Fatal
<1>12. Fatal(c) \subseteq Problems
  BY DEF Fatal, Problems
<1> QED  BY <1>1, <1>2, <1>3, <1>4, <1>5, <1>6, <1>7, <1>8, <1>9, <1>10, <1>11, <1>12

(* Of what doctor cannot mend, it reports the same on a file whose derived rows
   are damaged: it looks at them only for the blobs in use. *)
LEMMA FatalSame ==
    ASSUME NEW c, NEW d, DerivedOK(d), OnlyDerived(c, d)
    PROVE  Fatal(c) = Fatal(d)
<1>1. c.registry = d.registry /\ c.facts = d.facts /\ c.events = d.events /\ c.next = d.next
  BY DEF OnlyDerived
<1>2. \A i : Selector(c, i) = Selector(d, i)
  BY <1>1 DEF Selector
<1>3. \A t, a : TimeOf(c, t, a) = TimeOf(d, t, a)
  BY <1>1, Zenon DEF TimeOf
<1>4. \A t : OriginAt(c, t) = OriginAt(d, t)
  BY <1>3, Zenon DEF OriginAt
<1>5. \A f : Tuple(c, f) = Tuple(d, f)
  BY <1>2, Zenon DEF Tuple
<1>6. \A t : CreatedBy(c, t) = CreatedBy(d, t)
  BY <1>1, Zenon DEF CreatedBy
<1>7. \A t : ExportTransaction(c, t) = ExportTransaction(d, t)
  BY <1>1, <1>2, <1>4, <1>5, <1>6, Zenon DEF ExportTransaction
<1>8. \A data : MayLoseHistory(c, data) <=> MayLoseHistory(d, data)
  BY <1>1, <1>2, Zenon DEF MayLoseHistory
<1>9. \A t : Marked(c, t) <=> Marked(d, t)
  BY <1>1, Zenon DEF Marked
<1>10. \A t : PayloadOK(c, t) <=> PayloadOK(d, t)
  BY <1>1, <1>2, <1>3, <1>4, <1>7, <1>8, <1>9, Zenon DEF PayloadOK
<1>11. RedactionsOK(c) <=> RedactionsOK(d)
  <2> DEFINE cleared(b) == {t \in DOMAIN b.events : b.events[t].data = <<>>}
             redactors(b) == {t \in DOMAIN b.events \ cleared(b) : Marked(b, t)}
             targets(b, r) == {t \in DOMAIN b.events : Selector(b, t) \in b.events[r].data[1].redacts}
  <2>1. cleared(c) = cleared(d)
    BY <1>1
  <2>2. redactors(c) = redactors(d)
    BY <1>1, <1>9, <2>1
  <2>3. \A r : targets(c, r) = targets(d, r)
    BY <1>1, <1>2
  <2>4. \A r : c.events[r].data[1].redacts = d.events[r].data[1].redacts
    BY <1>1
  <2> HIDE DEF cleared, redactors, targets
  <2>5. \A b : RedactionsOK(b) <=>
          /\ \A r \in redactors(b) : \A t \in targets(b, r) : t \in cleared(b) /\ t < r
          /\ \A r \in redactors(b) :
                Cardinality(targets(b, r)) = Cardinality(b.events[r].data[1].redacts)
          /\ \A t \in cleared(b) : \E r \in redactors(b) : t \in targets(b, r)
    BY Zenon DEF RedactionsOK, cleared, redactors, targets
  <2> QED  BY <2>1, <2>2, <2>3, <2>4, <2>5
<1>12. /\ AllocatorBehind(c) <=> AllocatorBehind(d)
       /\ RegistryGaps(c) = RegistryGaps(d)
       /\ UntimelyIdentities(c) = UntimelyIdentities(d)
       /\ BadEvents(c) = BadEvents(d)
       /\ CrowdedCells(c) = CrowdedCells(d)
  BY <1>1, Zenon DEF AllocatorBehind, RegistryGaps, UntimelyIdentities, BadEvents, CrowdedCells
<1>13. /\ ~\E f \in c.facts : f.tag = "textref" /\ f.v \notin c.blobs
       /\ ~\E f \in d.facts : f.tag = "textref" /\ f.v \notin d.blobs
  BY <1>1 DEF DerivedOK, UsesBlob, OnlyDerived
<1>14. (\E t \in DOMAIN c.events \cap DOMAIN c.registry : c.events[t].data # <<>> /\ ~PayloadOK(c, t))
       <=> (\E t \in DOMAIN d.events \cap DOMAIN d.registry : d.events[t].data # <<>> /\ ~PayloadOK(d, t))
  BY <1>1, <1>10
<1>15. \A p \in Problems : p \in Fatal(c) <=> p \in Fatal(d)
  BY <1>1, <1>11, <1>12, <1>13, <1>14, FatalIs DEF Problems
<1>16. Fatal(c) \subseteq Problems /\ Fatal(d) \subseteq Problems
  BY FatalIs
<1> QED  BY <1>15, <1>16

(* RepairHeals for every set of activities: whatever is lost from or added to
   the index and the blobs, doctor's repair brings back the file as it was. *)
THEOREM DerivedRowsHeal == Spec => []RepairHeals
<1>1. ContentInv => RepairHeals
  <2> SUFFICES ASSUME ContentInv, damage.kind = "derived"
               PROVE  Fatal(db) = Fatal(sound) /\ Repaired(db) = sound
    BY DEF RepairHeals
  <2>1. Good(sound, excised, again) /\ OnlyDerived(db, sound)
    BY DEF ContentInv, Damaged
  <2>2. DerivedOK(sound)
    BY <2>1 DEF Good
  <2> QED  BY <2>1, <2>2, FatalSame, RepairRestores
<1> QED  BY <1>1, ContentInvariance, PTL

(* What damage to a row makes doctor report.  Any one of these is a problem. *)
LEMMA FatalSome ==
    ASSUME NEW c,
           \/ AllocatorBehind(c) \/ RegistryGaps(c) # {} \/ BadEvents(c) # {}
           \/ \E f \in c.facts : f.tx \notin DOMAIN c.events
           \/ \E f \in c.facts : f.tag = "textref" /\ f.v \notin c.blobs
           \/ \E f \in c.facts : f.rx # 0 /\ f.rx <= f.tx
           \/ \E t \in DOMAIN c.events \cap DOMAIN c.registry :
                 c.events[t].data # <<>> /\ ~PayloadOK(c, t)
           \/ ~RedactionsOK(c)
    PROVE  Fatal(c) # {}
BY DEF Fatal

(* The events whose payload the rows must reproduce: their export is what was
   hashed. *)
Protected(c, t) ==
    /\ t \in DOMAIN c.events
    /\ c.events[t].data = <<c.events[t].hash>>
    /\ c.events[t].hash.redacted = FALSE
    /\ ~MayLoseHistory(c, c.events[t].hash)

(* A good file reproduces every payload doctor holds it to. *)
LEMMA ProtectedIs ==
    ASSUME NEW c, NEW done, NEW twice, Good(c, done, twice),
           NEW t \in DOMAIN c.events, ~Unprotected(c, t)
    PROVE  /\ Protected(c, t)
           /\ ExportTransaction(c, t) = c.events[t].hash
           /\ \A f \in c.facts : f.tx = t => f.a # Excised
<1>1. EventOK(c, t, twice)
  BY DEF Good, ReceiptsOK
<1>2. PICK h : h = c.events[t].hash
  OBVIOUS
<1>3. c.events[t].data \in {<<>>, <<h>>} /\ c.events[t].data # <<>> /\ h.redacted \in BOOLEAN
  BY <1>1, <1>2 DEF EventOK, Unprotected
<1>4. c.events[t].data = <<h>> /\ c.events[t].data[1] = h
  BY <1>3
<1>5. ~h.redacted /\ ~MayLoseHistory(c, h)
  BY <1>4 DEF Unprotected
<1>6. Protected(c, t)
  BY <1>2, <1>3, <1>4, <1>5 DEF Protected
<1>7. ExportTransaction(c, t) = h \/ MayLoseHistory(c, h)
  BY <1>1, <1>2, <1>3, <1>5 DEF EventOK
<1>8. \A f \in c.facts : f.tx = t => f.a # Excised
  BY <1>1, <1>2, <1>5 DEF EventOK
<1> QED  BY <1>2, <1>5, <1>6, <1>7, <1>8

(* Rows that are lost or changed without a new declaration of nohistory leave
   the events whose payload must be reproduced what they are. *)
LEMMA LoseLess ==
    ASSUME NEW c, NEW x, NEW data,
           \A f \in x.facts : f.a = NoHistory /\ f.v = 1 =>
              \E g \in c.facts : /\ g.a = NoHistory /\ g.v = 1
                                 /\ Selector(c, g.e) = Selector(x, f.e),
           ~MayLoseHistory(c, data)
    PROVE  ~MayLoseHistory(x, data)
BY DEF MayLoseHistory

(* A payload that the rows no longer reproduce is reported. *)
LEMMA ExportTells ==
    ASSUME NEW c, NEW x, NEW t, Protected(c, t), t \in DOMAIN x.registry,
           t \in DOMAIN x.events, x.events[t] = c.events[t],
           ~MayLoseHistory(x, c.events[t].hash),
           \/ ExportTransaction(x, t) # c.events[t].hash
           \/ TimeOf(x, t, At) = {}
           \/ OriginAt(x, t) # c.events[t].hash.at
    PROVE  Fatal(x) # {}
<1>1. PICK h : h = c.events[t].hash
  OBVIOUS
<1>2. /\ x.events[t].data = <<h>> /\ h.redacted = FALSE
      /\ ~MayLoseHistory(x, h)
  BY <1>1 DEF Protected
<1>3. x.events[t].data # <<>> /\ x.events[t].data[1] = h
  BY <1>2
<1>4. ~PayloadOK(x, t)
  BY <1>1, <1>2, <1>3 DEF PayloadOK
<1> QED  BY <1>3, <1>4, FatalSome

(* What an export says, part by part. *)
LEMMA ExportParts ==
    ASSUME NEW c, NEW t
    PROVE  /\ ExportTransaction(c, t).at = OriginAt(c, t)
           /\ ExportTransaction(c, t).created = CreatedBy(c, t)
           /\ \A u : u \in ExportTransaction(c, t).asserted <=>
                 \E f \in c.facts : f.tx = t /\ f.e # t /\ u = Tuple(c, f)
           /\ \A u : u \in ExportTransaction(c, t).retracted <=>
                 \E f \in c.facts : f.rx = t /\ u = Tuple(c, f)
BY DEF ExportTransaction

(* The rows that are a transaction's own, and where the others are. *)
LEMMA OwnRowsAre ==
    ASSUME NEW c, RegistryOK(c), RowsOK(c), NEW f \in c.facts
    PROVE  /\ f.tx \in DOMAIN c.events /\ f.tx \in Ids(c) /\ f.tx # 0
           /\ f.a \in OwnAttr <=> f.e = f.tx
           /\ f.a \in OwnAttr => f.rx = 0 /\ f.tag \in {"instant", "ref"}
           /\ f.a \notin OwnAttr => OfThing(c, f.e, f.tx) /\ (f.a = NoHistory \/ OfThing(c, f.a, f.tx))
<1>1. RowOK(c, f)
  BY DEF RowsOK
<1>2. f.tx \in DOMAIN c.events /\ DOMAIN c.events \subseteq Ids(c)
  BY <1>1 DEF RowOK, RegistryOK
<1>3. f.tx \in Nat /\ f.tx # 0
  BY <1>2, NumberFacts DEF Ids, RegistryOK
<1>4. CASE f.a \in OwnAttr
  BY <1>1, <1>2, <1>3, <1>4 DEF RowOK
<1>5. CASE f.a \notin OwnAttr
  <2>1. OfThing(c, f.e, f.tx) /\ (f.a = NoHistory \/ OfThing(c, f.a, f.tx))
    BY <1>1, <1>5 DEF RowOK
  <2>2. f.e \in Ids(c) /\ c.registry[f.e].sel \in Thing
    BY <2>1 DEF OfThing, Timely
  <2>3. c.registry[f.tx].sel \in Event
    BY <1>2 DEF RegistryOK, IdentityOK
  <2>4. f.e # f.tx
    BY <2>2, <2>3, SelectorsAssumption
  <2> QED  BY <1>2, <1>3, <1>5, <2>1, <2>4
<1> QED  BY <1>4, <1>5

(* Selectors are read from the registry alone. *)
LEMMA SameSelectors ==
    ASSUME NEW c, NEW x, x.registry = c.registry
    PROVE  /\ \A i : Selector(x, i) = Selector(c, i)
           /\ \A f : Tuple(x, f) = Tuple(c, f)
<1>1. \A i : Selector(x, i) = Selector(c, i)
  BY DEF Selector
<1>2. \A f : Tuple(x, f) = Tuple(c, f)
  BY <1>1, Zenon DEF Tuple
<1> QED  BY <1>1, <1>2

(* A lost row is missed by its transaction: the value it asserted, or the
   time it was written. *)
LEMMA LossTells ==
    ASSUME NEW c, NEW done, NEW twice, Good(c, done, twice), NEW f \in c.facts,
           NEW x, x.registry = c.registry, x.events = c.events, x.facts = c.facts \ {f},
           ~Unprotected(c, f.tx), ~(f.a = ImportedAt /\ f.v \in TimeOf(c, f.tx, At))
    PROVE  Fatal(x) # {}
<1>0. PICK t : t = f.tx
  OBVIOUS
<1>1. RegistryOK(c) /\ RowsOK(c) /\ SparseOK(c)
  BY DEF Good
<1>2. /\ t \in DOMAIN c.events /\ t \in Ids(c) /\ (f.a \in OwnAttr <=> f.e = t)
      /\ t \in DOMAIN c.registry
  BY <1>0, <1>1, OwnRowsAre DEF RegistryOK
<1>3. /\ Protected(c, t) /\ ExportTransaction(c, t) = c.events[t].hash
      /\ \A g \in c.facts : g.tx = t => g.a # Excised
  BY <1>0, <1>2, ProtectedIs
<1>4. \A i : Selector(x, i) = Selector(c, i)
  BY SameSelectors
<1>5. ~MayLoseHistory(x, c.events[t].hash)
  <2>1. ~MayLoseHistory(c, c.events[t].hash)
    BY <1>3 DEF Protected
  <2> QED  BY <1>4, <2>1, LoseLess
<1>6. SUFFICES \/ ExportTransaction(x, t) # c.events[t].hash
               \/ TimeOf(x, t, At) = {}
               \/ OriginAt(x, t) # c.events[t].hash.at
  BY <1>2, <1>3, <1>5, ExportTells
<1>7. ASSUME NEW g \in c.facts, g.tx = t, g.e = t, f.e = t, g.a = f.a PROVE g = f
  <2>1. g.rx = 0 /\ f.rx = 0
    BY <1>0, <1>1, <1>7, OwnRowsAre
  <2> QED  BY <1>1, <1>7, <2>1 DEF RowsOK
<1>8. CASE f.e # t
  <2>1. Tuple(c, f) \in ExportTransaction(c, t).asserted
    BY <1>0, <1>8, ExportParts
  <2>2. Tuple(c, f) \notin ExportTransaction(x, t).asserted
    <3>1. \A g \in x.facts : ~(g.tx = t /\ g.e # t)
      BY <1>0, <1>1, <1>8 DEF SparseOK
    <3> QED  BY <3>1, ExportParts
  <2> QED  BY <1>3, <2>1, <2>2
<1>9. CASE f.e = t /\ f.a = At
  BY <1>7, <1>9 DEF TimeOf
<1>10. CASE f.e = t /\ f.a = ImportedAt
  <2>1. TimeOf(x, t, ImportedAt) = {}
    BY <1>7, <1>10 DEF TimeOf
  <2>2. f.v \in TimeOf(c, t, ImportedAt)
    BY <1>0, <1>10 DEF TimeOf
  <2>3. f.v \in OriginAt(c, t)
    BY <2>2 DEF OriginAt
  <2>4. OriginAt(x, t) = TimeOf(x, t, At)
    BY <2>1 DEF OriginAt
  <2>5. f.v \notin TimeOf(x, t, At)
    <3>1. f.v \notin TimeOf(c, t, At)
      BY <1>0, <1>10
    <3> QED  BY <3>1 DEF TimeOf
  <2>6. c.events[t].hash.at = OriginAt(c, t)
    BY <1>3, ExportParts
  <2> QED  BY <2>3, <2>4, <2>5, <2>6
<1> QED  BY <1>0, <1>2, <1>3, <1>8, <1>9, <1>10 DEF OwnAttr

(* A row with one of its columns changed. *)
Altered(f, g) ==
    g = [id |-> f.id, e |-> f.e, a |-> f.a, tag |-> f.tag, v |-> g.v, tx |-> f.tx, rx |-> g.rx]

(* A row that was changed but declares no nohistory it did not declare leaves
   every payload that must be reproduced one. *)
LEMMA AlteredLosesLess ==
    ASSUME NEW c, NEW f \in c.facts, NEW g, Altered(f, g), g.v = f.v \/ g.v # 1,
           NEW x, x.registry = c.registry, x.facts = (c.facts \ {f}) \cup {g},
           NEW data, ~MayLoseHistory(c, data)
    PROVE  ~MayLoseHistory(x, data)
<1>1. \A i : Selector(x, i) = Selector(c, i)
  BY SameSelectors
<1>2. g.a = f.a /\ g.e = f.e
  BY DEF Altered
<1>3. \A r \in x.facts : r.a = NoHistory /\ r.v = 1 =>
          \E q \in c.facts : q.a = NoHistory /\ q.v = 1 /\ Selector(c, q.e) = Selector(x, r.e)
  BY <1>1, <1>2
<1> QED  BY <1>3, LoseLess

(* A row open again is missed by the transaction that retracted it. *)
LEMMA ReopenTells ==
    ASSUME NEW c, NEW done, NEW twice, Good(c, done, twice), NEW f \in c.facts, f.rx # 0,
           NEW g, Altered(f, g), g.v = f.v, g.rx = 0,
           NEW x, x.registry = c.registry, x.events = c.events, x.facts = (c.facts \ {f}) \cup {g},
           ~Unprotected(c, f.rx)
    PROVE  Fatal(x) # {}
<1>0. PICK t : t = f.rx
  OBVIOUS
<1>1. RegistryOK(c) /\ RowsOK(c) /\ SparseOK(c)
  BY DEF Good
<1>2. t \in DOMAIN c.events /\ t \in DOMAIN c.registry
  BY <1>0, <1>1 DEF RowsOK, RowOK, RegistryOK
<1>3. Protected(c, t) /\ ExportTransaction(c, t) = c.events[t].hash
  BY <1>0, <1>2, ProtectedIs
<1>4. ~MayLoseHistory(x, c.events[t].hash)
  <2>1. ~MayLoseHistory(c, c.events[t].hash)
    BY <1>3 DEF Protected
  <2> QED  BY <2>1, AlteredLosesLess
<1>5. Tuple(c, f) \in ExportTransaction(c, t).retracted
  BY <1>0, ExportParts
<1>6. Tuple(c, f) \notin ExportTransaction(x, t).retracted
  <2>1. \A r \in x.facts : r.rx # t
    BY <1>0, <1>1 DEF SparseOK
  <2> QED  BY <2>1, ExportParts
<1> QED  BY <1>2, <1>3, <1>4, <1>5, <1>6, ExportTells

(* Rows that an export describes alike are in the same cell. *)
LEMMA TupleCell ==
    ASSUME NEW c, RegistryOK(c), RowsOK(c), NEW f \in c.facts, NEW g \in c.facts,
           g.rx # 0, Tuple(c, f) = Tuple(c, g)
    PROVE  f.e = g.e /\ f.a = g.a
<1>1. Selector(c, f.e) = Selector(c, g.e) /\ Selector(c, f.a) = Selector(c, g.a)
  BY DEF Tuple
<1>2. g.a \notin OwnAttr
  BY OwnRowsAre
<1>3. OfThing(c, g.e, g.tx) /\ (g.a = NoHistory \/ OfThing(c, g.a, g.tx))
  BY <1>2, OwnRowsAre
<1>4. \A i \in Ids(c) : Selector(c, i) = c.registry[i].sel
  BY SelectorIs
<1>5. f.e \in Ids(c) /\ g.e \in Ids(c)
  <2>1. f.e = f.tx \/ OfThing(c, f.e, f.tx)
    BY OwnRowsAre
  <2> QED  BY <1>3, <2>1, OwnRowsAre DEF OfThing, Timely
<1>6. f.e = g.e
  BY <1>1, <1>4, <1>5 DEF RegistryOK
<1>7. c.registry[f.e].sel \in Thing
  BY <1>3, <1>6 DEF OfThing
<1>8. f.a \notin OwnAttr
  <2> SUFFICES ASSUME f.a \in OwnAttr PROVE FALSE
    OBVIOUS
  <2>1. f.e \in DOMAIN c.events
    BY OwnRowsAre
  <2>2. c.registry[f.e].sel \in Event
    BY <1>5, <2>1 DEF RegistryOK, IdentityOK
  <2> QED  BY <1>7, <2>2, SelectorsAssumption
<1>9. f.a = NoHistory \/ OfThing(c, f.a, f.tx)
  BY <1>8, OwnRowsAre
<1>10. Selector(c, NoHistory) = NoHistory
  BY NumberFacts DEF Selector
<1>11. \A r \in {f, g} : \/ r.a = NoHistory
                         \/ r.a \in Ids(c) /\ Selector(c, r.a) = c.registry[r.a].sel
                            /\ c.registry[r.a].sel \in Thing
  BY <1>3, <1>4, <1>9 DEF OfThing, Timely
<1>12. f.a = g.a
  BY <1>1, <1>10, <1>11, SelectorsAssumption DEF RegistryOK
<1> QED  BY <1>6, <1>12

(* A row closed at the last transaction b is one more that b retracted. *)
LEMMA CloseTells ==
    ASSUME NEW c, NEW done, NEW twice, Good(c, done, twice), NEW f \in c.facts, f.rx = 0,
           NEW b \in DOMAIN c.events, f.tx <= b,
           NEW g, Altered(f, g), g.v = f.v, g.rx = b,
           NEW x, x.registry = c.registry, x.events = c.events, x.facts = (c.facts \ {f}) \cup {g},
           ~Unprotected(c, b)
    PROVE  Fatal(x) # {}
<1>1. RegistryOK(c) /\ RowsOK(c) /\ SparseOK(c)
  BY DEF Good
<1>2. b \in DOMAIN c.registry /\ b \in Nat /\ b # 0 /\ f.tx \in Nat
  BY <1>1, OwnRowsAre, NumberFacts DEF RegistryOK, Ids
<1>3. g.e = f.e /\ g.a = f.a /\ g.tx = f.tx /\ g.tag = f.tag
  BY DEF Altered
<1>4. CASE f.tx = b
  <2>1. g \in x.facts /\ g.rx # 0 /\ g.rx <= g.tx
    BY <1>2, <1>3, <1>4
  <2> QED  BY <2>1, FatalSome
<1>5. CASE f.tx < b
  <2>1. Protected(c, b) /\ ExportTransaction(c, b) = c.events[b].hash
    BY ProtectedIs
  <2>2. ~MayLoseHistory(x, c.events[b].hash)
    <3>1. ~MayLoseHistory(c, c.events[b].hash)
      BY <2>1 DEF Protected
    <3> QED  BY <3>1, AlteredLosesLess
  <2>3. Tuple(c, f) \in ExportTransaction(x, b).retracted
    <3>1. Tuple(x, g) = Tuple(c, f)
      BY <1>3, SameSelectors DEF Tuple
    <3> QED  BY <3>1, ExportParts
  <2>4. Tuple(c, f) \notin ExportTransaction(c, b).retracted
    <3> SUFFICES ASSUME NEW r \in c.facts, r.rx = b, Tuple(c, f) = Tuple(c, r) PROVE FALSE
      BY ExportParts
    <3>1. f.e = r.e /\ f.a = r.a
      BY <1>1, <1>2, TupleCell
    <3>2. r.rx <= f.tx
      BY <1>1, <1>2, <3>1 DEF SparseOK
    <3> QED  BY <1>2, <1>5, <3>2
  <2> QED  BY <1>2, <2>1, <2>2, <2>3, <2>4, ExportTells
<1> QED  BY <1>2, <1>4, <1>5

(* A text changed is not the one its transaction asserted. *)
LEMMA ChangeTells ==
    ASSUME NEW c, NEW done, NEW twice, Good(c, done, twice), NEW f \in c.facts, f.tag = "text",
           NEW g, Altered(f, g), g.v # f.v, g.v # 1, g.rx = f.rx,
           NEW x, x.registry = c.registry, x.events = c.events, x.facts = (c.facts \ {f}) \cup {g},
           ~Unprotected(c, f.tx)
    PROVE  Fatal(x) # {}
<1>0. PICK t : t = f.tx
  OBVIOUS
<1>1. RegistryOK(c) /\ RowsOK(c) /\ SparseOK(c)
  BY DEF Good
<1>2. t \in DOMAIN c.events /\ t \in DOMAIN c.registry /\ f.e # t
  BY <1>0, <1>1, OwnRowsAre DEF RegistryOK
<1>3. Protected(c, t) /\ ExportTransaction(c, t) = c.events[t].hash
  BY <1>0, <1>2, ProtectedIs
<1>4. ~MayLoseHistory(x, c.events[t].hash)
  <2>1. ~MayLoseHistory(c, c.events[t].hash)
    BY <1>3 DEF Protected
  <2> QED  BY <2>1, AlteredLosesLess
<1>5. Tuple(c, f) \in ExportTransaction(c, t).asserted
  BY <1>0, <1>2, ExportParts
<1>6. Tuple(c, f) \notin ExportTransaction(x, t).asserted
  <2>1. \A r \in x.facts : r.tx = t /\ r.e # t => r = g
    BY <1>0, <1>1, <1>2 DEF SparseOK
  <2>2. Tuple(x, g) # Tuple(c, f)
    <3>1. Tuple(x, g).v = g.v /\ Tuple(c, f).v = f.v
      BY DEF Tuple, Altered
    <3> QED  BY <3>1
  <2> QED  BY <2>1, <2>2, ExportParts
<1> QED  BY <1>2, <1>3, <1>4, <1>5, <1>6, ExportTells

(* The last transaction is the last identity given out. *)
LEMMA BasisIs ==
    ASSUME NEW c, RegistryOK(c), NEW t \in DOMAIN c.events
    PROVE  Basis(c) = c.next - 1 /\ Basis(c) \in DOMAIN c.events /\ t <= Basis(c)
<1>1. c.next \in Nat /\ \A u \in DOMAIN c.events : u \in Nat /\ u >= 65 /\ u <= c.next - 1
  BY NumberFacts DEF RegistryOK, Ids
<1>2. c.next - 1 \in DOMAIN c.events
  BY <1>1, NumberFacts DEF RegistryOK
<1>3. PICK S : S = {GenesisTx} \cup DOMAIN c.events
  OBVIOUS
<1>4. S \in SUBSET Nat /\ c.next - 1 \in S /\ \A u \in S : u <= c.next - 1
  BY <1>1, <1>2, <1>3, NumberFacts
<1>5. Basis(c) = c.next - 1
  BY <1>3, <1>4, LargestIs DEF Basis
<1> QED  BY <1>1, <1>2, <1>5

(* An identity that a row mentions leaves a gap; one that a reproducible event
   created is missing from its export. *)
LEMMA IdentityTells ==
    ASSUME NEW c, NEW done, NEW twice, Good(c, done, twice), NEW i \in DOMAIN c.registry,
           NEW x, x.facts = c.facts, x.events = c.events,
           DOMAIN x.registry = DOMAIN c.registry \ {i},
           \A j \in DOMAIN x.registry : x.registry[j] = c.registry[j],
           i \in Identifiers(c.facts) \/ ~Unprotected(c, c.registry[i].created)
    PROVE  Fatal(x) # {}
<1>1. RegistryOK(c) /\ RowsOK(c)
  BY DEF Good
<1>2. i \in Ids(c) /\ i \in Nat /\ i > GenesisTx
  BY <1>1, NumberFacts DEF RegistryOK, Ids
<1>3. CASE i \in Identifiers(c.facts)
  <2>1. RegistryGaps(x) # {}
    BY <1>2, <1>3 DEF RegistryGaps
  <2> QED  BY <2>1, FatalSome
<1>4. CASE i \notin Identifiers(c.facts)
  <2>0. PICK t : t = c.registry[i].created
    OBVIOUS
  <2>1. t \in DOMAIN c.events
    BY <1>1, <1>2, <2>0 DEF RegistryOK, IdentityOK
  <2>2. Protected(c, t) /\ ExportTransaction(c, t) = c.events[t].hash
    BY <1>4, <2>0, <2>1, ProtectedIs
  <2>3. i # t
    <3>1. \E f \in c.facts : f.tx = t
      BY <1>1, <2>1 DEF RowsOK
    <3> QED  BY <1>4, <3>1 DEF Identifiers
  <2>4. t \in DOMAIN x.registry
    BY <1>1, <2>1, <2>3 DEF RegistryOK
  <2>5. \A f \in c.facts : Selector(x, f.e) = Selector(c, f.e)
    <3>1. \A f \in c.facts : f.e # i
      BY <1>4 DEF Identifiers
    <3> QED  BY <3>1 DEF Selector
  <2>6. ~MayLoseHistory(x, c.events[t].hash)
    <3>1. ~MayLoseHistory(c, c.events[t].hash)
      BY <2>2 DEF Protected
    <3> QED  BY <2>5, <3>1, LoseLess
  <2>7. CreatedBy(x, t) # CreatedBy(c, t)
    <3>1. PICK K : K = {j \in DOMAIN c.registry : c.registry[j].created = t /\ j # t}
      OBVIOUS
    <3>2. PICK L : L = {j \in DOMAIN x.registry : x.registry[j].created = t /\ j # t}
      OBVIOUS
    <3>3. i \in K /\ L = K \ {i}
      BY <2>0, <2>3, <3>1, <3>2
    <3>4. K \in SUBSET Nat /\ IsFiniteSet(K)
      <4>1. K \subseteq Ids(c) /\ Ids(c) \subseteq Nat /\ IsFiniteSet(Ids(c))
        <5>1. FirstUserID \in Int /\ c.next - 1 \in Int /\ Ids(c) \subseteq Nat
          BY <1>1, NumberFacts DEF RegistryOK, Ids
        <5>2. IsFiniteSet(Ids(c))
          BY <5>1, FS_Interval DEF Ids
        <5> QED  BY <1>1, <3>1, <5>1, <5>2 DEF RegistryOK
      <4> QED  BY <4>1, FS_Subset
    <3>5. /\ IsFiniteSet(L) /\ L \in SUBSET Nat /\ Cardinality(L) = Cardinality(K) - 1
          /\ Cardinality(K) \in Nat /\ Cardinality(L) \in Nat
      BY <3>3, <3>4, FS_RemoveElement, FS_CardinalityType
    <3>6. DOMAIN CreatedBy(c, t) = 1..Cardinality(K)
      BY <3>1, <3>4, AscendingIn DEF CreatedBy
    <3>7. DOMAIN CreatedBy(x, t) = 1..Cardinality(L)
      BY <3>2, <3>5, AscendingIn DEF CreatedBy
    <3>8. 1..Cardinality(L) # 1..Cardinality(K)
      BY <3>5
    <3> QED  BY <3>6, <3>7, <3>8
  <2>8. ExportTransaction(x, t) # c.events[t].hash
    BY <2>2, <2>7, ExportParts
  <2> QED  BY <2>1, <2>2, <2>4, <2>6, <2>8, ExportTells
<1> QED  BY <1>3, <1>4

(* An event that is lost leaves the row of its time behind. *)
LEMMA EventTells ==
    ASSUME NEW c, RowsOK(c), NEW t \in DOMAIN c.events,
           NEW x, x.facts = c.facts, DOMAIN x.events = DOMAIN c.events \ {t}
    PROVE  Fatal(x) # {}
<1>1. PICK f \in c.facts : f.tx = t
  BY DEF RowsOK
<1>2. f \in x.facts /\ f.tx \notin DOMAIN x.events
  BY <1>1
<1> QED  BY <1>2, FatalSome

(* A payload that is lost is not one that an excision cleared. *)
LEMMA PayloadTells ==
    ASSUME NEW c, NEW done, NEW twice, Good(c, done, twice),
           NEW t \in DOMAIN c.events, c.events[t].data # <<>>,
           NEW x, x.facts = c.facts, x.registry = c.registry,
           DOMAIN x.events = DOMAIN c.events, x.events[t].data = <<>>,
           \A r \in DOMAIN c.events \ {t} : x.events[r] = c.events[r]
    PROVE  Fatal(x) # {}
<1>1. RegistryOK(c) /\ ReceiptsOK(c, twice) /\ AuditOK(c, done, twice)
  BY DEF Good
<1> SUFFICES ASSUME RedactionsOK(x) PROVE FALSE
  BY FatalSome
<1>2. PICK r \in DOMAIN x.events : /\ x.events[r].data # <<>> /\ Marked(x, r)
                                  /\ Selector(x, t) \in x.events[r].data[1].redacts
  BY DEF RedactionsOK
<1>3. r # t /\ x.events[r] = c.events[r] /\ r \in DOMAIN c.events /\ Marked(c, r)
  BY <1>2 DEF Marked
<1>4. c.events[r].data[1] = c.events[r].hash
  <2>1. c.events[r].data \in {<<>>, <<c.events[r].hash>>}
    BY <1>1, <1>3 DEF ReceiptsOK, EventOK
  <2> QED  BY <1>2, <1>3, <2>1
<1>5. Selector(x, t) = c.registry[t].sel /\ t \in Ids(c)
  <2>1. t \in Ids(c)
    BY <1>1 DEF RegistryOK
  <2>2. Selector(x, t) = Selector(c, t)
    BY SameSelectors
  <2> QED  BY <1>1, <2>1, <2>2, SelectorIs
<1>6. PICK u \in DOMAIN c.events : c.registry[u].sel = c.registry[t].sel /\ c.events[u].data = <<>>
  BY <1>1, <1>2, <1>3, <1>4, <1>5 DEF AuditOK
<1>7. u = t
  BY <1>1, <1>5, <1>6 DEF RegistryOK
<1> QED  BY <1>6, <1>7

(* An allocator that is off does not follow the largest identifier. *)
LEMMA AllocatorTells ==
    ASSUME NEW c, RegistryOK(c), RowsOK(c),
           NEW x, x.facts = c.facts, x.registry = c.registry, x.next # c.next
    PROVE  Fatal(x) # {}
<1>1. ~AllocatorBehind(c)
  BY NoRegistryProblem
<1>2. AllocatorBehind(x)
  BY <1>1 DEF AllocatorBehind
<1> QED  BY <1>2, FatalSome

(* Every blob is one that some row uses. *)
LEMMA BlobTells ==
    ASSUME NEW c, DerivedOK(c), NEW b \in c.blobs,
           NEW x, x.facts = c.facts, x.blobs = c.blobs \ {b}
    PROVE  Fatal(x) # {}
<1>1. PICK f \in x.facts : f.tag = "textref" /\ f.v \notin x.blobs
  BY DEF DerivedOK, UsesBlob
<1> QED  BY <1>1, FatalSome

(* What a damage is, what row it hit and what it left. *)
LEMMA DamageFields ==
    ASSUME NEW kind, NEW row, NEW bad, NEW x, x = Damage(kind, row, bad)
    PROVE  x.kind = kind /\ x.row = row /\ x.db = bad
BY DEF Damage

(* Rows replaced in the file, and nothing else. *)
LEMMA ReplaceFields ==
    ASSUME IsContent(db), NEW f, NEW g, NEW bad, bad = Replace(f, g)
    PROVE  /\ bad.registry = db.registry /\ bad.events = db.events
           /\ bad.facts = (db.facts \ {f}) \cup {g}
BY DEF IsContent, Replace

(* What doctor can see of a damaged fact row. *)
LEMMA SeenRow ==
    ASSUME NEW c, NEW f, NEW kind, NEW row, kind = "fact", row = f,
           ~Unseen(c, [kind |-> kind, row |-> row])
    PROVE  /\ \A t \in {f.tx, f.rx, Basis(c)} \ {0} : ~Unprotected(c, t)
           /\ ~(f.a = ImportedAt /\ f.v \in TimeOf(c, f.tx, At))
BY DEF Unseen

(* A fact row lost, reopened, closed or changed is reported. *)
LEMMA FactTells ==
    ASSUME Good(db, excised, again),
           NEW x \in FactLost \cup FactReopened \cup FactClosed \cup FactChanged,
           x.db # db, ~Unseen(db, [kind |-> x.kind, row |-> x.row])
    PROVE  Fatal(x.db) # {}
<1>1. IsContent(db) /\ RegistryOK(db) /\ RowsOK(db)
  BY DEF Good
<1>2. \A f \in db.facts : /\ f.tx \in DOMAIN db.events /\ f.tx # 0
                          /\ f = [id |-> f.id, e |-> f.e, a |-> f.a, tag |-> f.tag, v |-> f.v,
                                  tx |-> f.tx, rx |-> f.rx]
  BY <1>1, OwnRowsAre DEF RowsOK, RowOK
<1>3. CASE x \in FactLost
  <2>1. PICK f \in db.facts : x = Damage("fact", f, [db EXCEPT !.facts = @ \ {f}])
    BY <1>3 DEF FactLost
  <2>2. x.kind = "fact" /\ x.row = f /\ x.db = [db EXCEPT !.facts = @ \ {f}]
    BY <2>1, DamageFields
  <2>3. /\ x.db.registry = db.registry /\ x.db.events = db.events /\ x.db.facts = db.facts \ {f}
    BY <1>1, <2>2 DEF IsContent
  <2>4. ~Unprotected(db, f.tx) /\ ~(f.a = ImportedAt /\ f.v \in TimeOf(db, f.tx, At))
    BY <1>2, <2>2, SeenRow
  <2> QED  BY <2>3, <2>4, LossTells
<1>4. CASE x \in FactReopened
  <2>1. PICK f \in db.facts : f.rx # 0 /\ x = Damage("fact", f, Replace(f, [f EXCEPT !.rx = 0]))
    BY <1>4 DEF FactReopened
  <2>2. PICK g : g = [f EXCEPT !.rx = 0]
    OBVIOUS
  <2>3. x.kind = "fact" /\ x.row = f /\ x.db = Replace(f, g)
    BY <2>1, <2>2, DamageFields
  <2>4. Altered(f, g) /\ g.v = f.v /\ g.rx = 0
    BY <1>2, <2>2 DEF Altered
  <2>5. ~Unprotected(db, f.rx)
    BY <2>1, <2>3, SeenRow
  <2>6. /\ x.db.registry = db.registry /\ x.db.events = db.events
        /\ x.db.facts = (db.facts \ {f}) \cup {g}
    BY <1>1, <2>3, ReplaceFields
  <2> QED  BY <2>1, <2>4, <2>5, <2>6, ReopenTells
<1>5. CASE x \in FactClosed
  <2>1. PICK f \in db.facts : f.rx = 0 /\ x = Damage("fact", f, Replace(f, [f EXCEPT !.rx = Basis(db)]))
    BY <1>5 DEF FactClosed
  <2>2. PICK g : g = [f EXCEPT !.rx = Basis(db)]
    OBVIOUS
  <2>3. x.kind = "fact" /\ x.row = f /\ x.db = Replace(f, g)
    BY <2>1, <2>2, DamageFields
  <2>4. Altered(f, g) /\ g.v = f.v /\ g.rx = Basis(db)
    BY <1>2, <2>2 DEF Altered
  <2>5. Basis(db) \in DOMAIN db.events /\ f.tx <= Basis(db)
    BY <1>1, <1>2, BasisIs
  <2>6. ~Unprotected(db, Basis(db))
    <3>1. Basis(db) # 0
      BY <1>1, <2>5, NumberFacts DEF RegistryOK, Ids
    <3> QED  BY <2>3, <3>1, SeenRow
  <2>7. /\ x.db.registry = db.registry /\ x.db.events = db.events
        /\ x.db.facts = (db.facts \ {f}) \cup {g}
    BY <1>1, <2>3, ReplaceFields
  <2> QED  BY <2>1, <2>4, <2>5, <2>6, <2>7, CloseTells
<1>6. CASE x \in FactChanged
  <2>1. PICK f \in db.facts : f.tag = "text" /\ x = Damage("fact", f, Replace(f, [f EXCEPT !.v = 9]))
    BY <1>6 DEF FactChanged
  <2>2. PICK g : g = [f EXCEPT !.v = 9]
    OBVIOUS
  <2>3. x.kind = "fact" /\ x.row = f /\ x.db = Replace(f, g)
    BY <2>1, <2>2, DamageFields
  <2>4. Altered(f, g) /\ g.v = 9 /\ g.rx = f.rx
    BY <1>2, <2>2 DEF Altered
  <2>5. f.v # 9
    <3> SUFFICES ASSUME f.v = 9 PROVE FALSE
      OBVIOUS
    <3>1. g = f
      BY <1>2, <2>2
    <3>2. (db.facts \ {f}) \cup {g} = db.facts
      BY <3>1
    <3>3. x.db = [db EXCEPT !.facts = (@ \ {f}) \cup {g}]
      BY <2>3 DEF Replace
    <3>4. x.db = db
      BY <1>1, <3>2, <3>3 DEF IsContent
    <3> QED  BY <3>4
  <2>6. ~Unprotected(db, f.tx)
    BY <1>2, <2>3, SeenRow
  <2>7. /\ x.db.registry = db.registry /\ x.db.events = db.events
        /\ x.db.facts = (db.facts \ {f}) \cup {g}
    BY <1>1, <2>3, ReplaceFields
  <2> QED  BY <2>1, <2>4, <2>5, <2>6, <2>7, ChangeTells
<1> QED  BY <1>3, <1>4, <1>5, <1>6

(* Damage that doctor can see, to anything but derived rows, is fatal. *)
LEMMA DamageTells ==
    ASSUME Good(db, excised, again), NEW x \in Damages, x.kind # "derived",
           x.db # db, ~Unseen(db, [kind |-> x.kind, row |-> x.row])
    PROVE  Fatal(x.db) # {}
<1>1. IsContent(db) /\ RegistryOK(db) /\ RowsOK(db) /\ DerivedOK(db)
  BY DEF Good
<1>2. CASE x \in IdentityLost
  <2>1. PICK i \in DOMAIN db.registry : x = Damage("identity", i, [db EXCEPT !.registry = Without(@, i)])
    BY <1>2 DEF IdentityLost
  <2>2. x.kind = "identity" /\ x.row = i /\ x.db = [db EXCEPT !.registry = Without(@, i)]
    BY <2>1, DamageFields
  <2>3. x.db.facts = db.facts /\ x.db.events = db.events /\ x.db.registry = Without(db.registry, i)
    BY <1>1, <2>2 DEF IsContent
  <2>4. /\ DOMAIN x.db.registry = DOMAIN db.registry \ {i}
        /\ \A j \in DOMAIN x.db.registry : x.db.registry[j] = db.registry[j]
    BY <2>3 DEF Without
  <2>5. i \in Identifiers(db.facts) \/ ~Unprotected(db, db.registry[i].created)
    BY <2>2 DEF Unseen
  <2> QED  BY <2>3, <2>4, <2>5, IdentityTells
<1>3. CASE x \in EventLost
  <2>1. PICK t \in DOMAIN db.events : x = Damage("event", t, [db EXCEPT !.events = Without(@, t)])
    BY <1>3 DEF EventLost
  <2>2. x.db = [db EXCEPT !.events = Without(@, t)]
    BY <2>1, DamageFields
  <2>3. x.db.facts = db.facts /\ x.db.events = Without(db.events, t)
    BY <1>1, <2>2 DEF IsContent
  <2>4. DOMAIN x.db.events = DOMAIN db.events \ {t}
    BY <2>3 DEF Without
  <2> QED  BY <1>1, <2>3, <2>4, EventTells
<1>4. CASE x \in PayloadLost
  <2>1. PICK t \in DOMAIN db.events : /\ db.events[t].data # <<>>
                                     /\ x = Damage("payload", t, [db EXCEPT !.events[t].data = <<>>])
    BY <1>4 DEF PayloadLost
  <2>2. x.db = [db EXCEPT !.events[t].data = <<>>]
    BY <2>1, DamageFields
  <2>3. PICK events : events = [db.events EXCEPT ![t].data = <<>>]
    OBVIOUS
  <2>4. /\ x.db.facts = db.facts /\ x.db.registry = db.registry
        /\ x.db.events = events
    BY <1>1, <2>2, <2>3 DEF IsContent
  <2>5. /\ DOMAIN events = DOMAIN db.events
        /\ \A r \in DOMAIN db.events \ {t} : events[r] = db.events[r]
        /\ events[t] = [db.events[t] EXCEPT !.data = <<>>]
    BY <2>3
  <2>6. events[t].data = <<>>
    <3>1. db.events[t] = [data |-> db.events[t].data, hash |-> db.events[t].hash, op |-> db.events[t].op]
      BY DEF Good, ReceiptsOK, EventOK
    <3> QED  BY <2>5, <3>1
  <2>7. /\ DOMAIN x.db.events = DOMAIN db.events /\ x.db.events[t].data = <<>>
        /\ \A r \in DOMAIN db.events \ {t} : x.db.events[r] = db.events[r]
    BY <2>4, <2>5, <2>6
  <2>8. x.db.facts = db.facts /\ x.db.registry = db.registry /\ db.events[t].data # <<>>
    BY <2>1, <2>4
  <2> QED  BY <2>7, <2>8, PayloadTells, Zenon
<1>5. CASE x \in FactLost \cup FactReopened \cup FactClosed \cup FactChanged
  BY <1>5, FactTells
<1>6. CASE x \in AllocatorOff
  <2>1. PICK n \in {db.next - 1, db.next + 1} : x = Damage("next_id", n, [db EXCEPT !.next = n])
    BY <1>6 DEF AllocatorOff
  <2>2. x.db = [db EXCEPT !.next = n]
    BY <2>1, DamageFields
  <2>3. x.db.facts = db.facts /\ x.db.registry = db.registry /\ x.db.next = n
    BY <1>1, <2>2 DEF IsContent
  <2>4. n # db.next
    BY <1>1, <2>1 DEF RegistryOK
  <2> QED  BY <1>1, <2>3, <2>4, AllocatorTells
<1>7. CASE x \in BlobLost
  <2>1. PICK b \in db.blobs : x = Damage("blob", b, [db EXCEPT !.blobs = @ \ {b}])
    BY <1>7 DEF BlobLost
  <2>2. x.db = [db EXCEPT !.blobs = @ \ {b}]
    BY <2>1, DamageFields
  <2>3. x.db.facts = db.facts /\ x.db.blobs = db.blobs \ {b}
    BY <1>1, <2>2 DEF IsContent
  <2> QED  BY <1>1, <2>3, BlobTells
<1> QED  BY <1>2, <1>3, <1>4, <1>5, <1>6, <1>7, DamageKinds DEF Damages

(* Damage to derived rows is something to repair. *)
LEMMA DerivedTells ==
    ASSUME Good(db, excised, again), NEW x \in Damages, x.kind = "derived", x.db # db
    PROVE  RepairNeeded(x.db)
<1>1. IsContent(db) /\ DerivedOK(db) /\ RowsOK(db)
  BY DEF Good
<1>2. CASE x \in BlobStray
  <2>1. x.db = [db EXCEPT !.blobs = @ \cup {9}]
    BY <1>2, DamageFields DEF BlobStray
  <2>2. 9 \notin db.blobs
    <3> SUFFICES ASSUME 9 \in db.blobs PROVE FALSE
      OBVIOUS
    <3>1. db.blobs \cup {9} = db.blobs
      OBVIOUS
    <3>2. x.db = db
      BY <1>1, <2>1, <3>1 DEF IsContent
    <3> QED  BY <3>2
  <2>3. x.db.facts = db.facts /\ x.db.blobs = db.blobs \cup {9}
    BY <1>1, <2>1 DEF IsContent
  <2> QED  BY <1>1, <2>2, <2>3 DEF RepairNeeded, DerivedOK
<1>3. CASE x \in IndexLost
  <2>1. PICK r \in db.fts : x.db = [db EXCEPT !.fts = @ \ {r}]
    BY <1>3, DamageFields DEF IndexLost
  <2>2. x.db.facts = db.facts /\ x.db.fts = db.fts \ {r}
    BY <1>1, <2>1 DEF IsContent
  <2>3. ExpectedFTS(x.db) = db.fts
    BY <1>1, <2>2 DEF ExpectedFTS, DerivedOK
  <2> QED  BY <2>1, <2>2, <2>3 DEF RepairNeeded
<1>4. CASE x \in IndexStray
  <2>1. PICK r : r = [id |-> db.row, text |-> 9]
    OBVIOUS
  <2>2. x.db = [db EXCEPT !.fts = @ \cup {r}]
    BY <1>4, <2>1, DamageFields DEF IndexStray
  <2>3. x.db.facts = db.facts /\ x.db.fts = db.fts \cup {r}
    BY <1>1, <2>2 DEF IsContent
  <2>4. ExpectedFTS(x.db) = db.fts
    BY <1>1, <2>3 DEF ExpectedFTS, DerivedOK
  <2>5. r \notin db.fts
    <3>1. \A q \in db.fts : q.id # db.row
      <4>1. \A f \in db.facts : f.id \in Nat /\ f.id < db.row
        BY <1>1 DEF RowsOK, RowOK
      <4>2. \A q \in db.fts : \E f \in db.facts : q.id = f.id
        BY <1>1 DEF DerivedOK, ExpectedFTS
      <4> QED  BY <1>1, <4>1, <4>2 DEF RowsOK
    <3> QED  BY <2>1, <3>1
  <2> QED  BY <2>3, <2>4, <2>5 DEF RepairNeeded
<1> QED  BY <1>2, <1>3, <1>4, DamageIs

(* What Repair finds: damage doctor can see is fatal, or derived and asks for
   repair. *)
CaughtInv ==
    /\ Damaged /\ damage.kind # "derived" /\ ~Unseen(sound, damage) => Fatal(db) # {}
    /\ damage.kind = "derived" => RepairNeeded(db)

(* Every step keeps it: repair commits only where nothing fatal is left. *)
LEMMA NextCaught == ContentInv /\ CaughtInv /\ [Next]_vars => CaughtInv'
<1> SUFFICES ASSUME ContentInv, CaughtInv, [Next]_vars PROVE CaughtInv'
  OBVIOUS
<1>1. ASSUME damage' = damage, ~Damaged PROVE CaughtInv'
  <2>1. damage.kind = "none"
    BY <1>1 DEF Damaged
  <2>2. damage'.kind = "none"
    BY <1>1, <2>1
  <2> QED  BY <2>2 DEF CaughtInv, Damaged
<1>2. ASSUME UNCHANGED <<db, damage, sound>> PROVE CaughtInv'
  BY <1>2 DEF CaughtInv, Damaged
<1>3. ASSUME NEW w \in activity.writes, Put(w) PROVE CaughtInv'
  BY <1>1, <1>3 DEF Put, Commit
<1>4. ASSUME NEW sel \in activity.excise, ExciseThing(sel) PROVE CaughtInv'
  BY <1>1, <1>4 DEF ExciseThing, Commit
<1>5. CASE GoesBad
  <2>1. PICK x \in Damages : /\ ~Damaged /\ x.db # db /\ damage' = [kind |-> x.kind, row |-> x.row]
                             /\ sound' = db /\ db' = x.db
    BY <1>5 DEF GoesBad
  <2>2. Good(db, excised, again)
    BY <2>1 DEF ContentInv
  <2>3. x.kind = "derived" => RepairNeeded(x.db)
    BY <2>1, <2>2, DerivedTells
  <2>4. x.kind # "derived" /\ ~Unseen(db, [kind |-> x.kind, row |-> x.row]) => Fatal(x.db) # {}
    BY <2>1, <2>2, DamageTells
  <2>5. damage'.kind = x.kind
    BY <2>1
  <2> QED  BY <2>1, <2>3, <2>4, <2>5 DEF CaughtInv
<1>6. CASE Repair
  <2>1. CASE damage.kind = "derived"
    <3>1. damage'.kind = "none"
      BY <1>6, <2>1 DEF Repair, NoDamage
    <3> QED  BY <3>1 DEF CaughtInv, Damaged
  <2>2. CASE damage.kind # "derived"
    <3>1. Fatal(db) = {} /\ damage' = damage /\ sound' = sound /\ Damaged
      BY <1>6, <2>2 DEF Repair
    <3>2. Unseen(sound, damage)
      BY <2>2, <3>1 DEF CaughtInv
    <3>3. Unseen(sound, damage)' /\ damage'.kind # "derived"
      BY <2>2, <3>1, <3>2
    <3> QED  BY <3>3 DEF CaughtInv
  <2> QED  BY <2>1, <2>2
<1>7. ASSUME NEW basis \in DOMAIN db.events, TakeSnapshot(basis) PROVE CaughtInv'
  BY <1>2, <1>7 DEF TakeSnapshot, content
<1>8. CASE StreamGoesBad \/ Restore \/ OtherCreates \/ BeginBackup \/ CopyPages \/ UNCHANGED vars
  BY <1>2, <1>8 DEF StreamGoesBad, Restore, OtherCreates, BeginBackup, CopyPages, Goto, vars, content, untouched
<1>9. CASE Verify \/ SyncFile \/ Publish \/ RemoveTemp \/ SyncDirectory \/ BackupFails \/ MachineCrash
  BY <1>2, <1>9 DEF Verify, SyncFile, Publish, RemoveTemp, SyncDirectory, BackupFails, MachineCrash,
                    Goto, content, untouched
<1> QED  BY <1>3, <1>4, <1>5, <1>6, <1>7, <1>8, <1>9 DEF Next

(* DamageHandled for every set of activities: any one row lost or changed is
   reported by doctor, but for the ones it has no means to see (Unseen); and
   after damage to derived rows its repair brings the file back exactly. *)
THEOREM DamageIsHandled == Spec => []DamageHandled
<1>1. Init => CaughtInv
  BY DEF Init, NoDamage, CaughtInv, Damaged
<1>2. Spec => []CaughtInv
  BY <1>1, NextCaught, ContentInvariance, PTL DEF Spec
<1>3. CaughtInv => DoctorCatches
  BY DEF CaughtInv, DoctorCatches, DoctorOK
<1> QED  BY <1>2, <1>3, DerivedRowsHeal, PTL DEF DamageHandled
=============================================================================
