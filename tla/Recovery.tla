------------------------------ MODULE Recovery ------------------------------
(***************************************************************************)
(* A database file in use, and what is done to get it back after a loss:   *)
(* portable snapshots and their restore into another file, doctor's repair *)
(* after rows have gone bad, and the backup protocol, with the directory   *)
(* it writes in, beside other writers and crashes.                         *)
(*                                                                         *)
(* A behaviour has one activity, so that the runs stay small; the writes   *)
(* and the maintenance of the activity interleave freely.  The other       *)
(* process that writes, the disk and the file system are external: what is *)
(* not synced may be torn or lost by a crash.                              *)
(***************************************************************************)
EXTENDS Snapshots

CONSTANTS Activities  \* sets of writes, bounds and kinds of maintenance

(* Puts of a value in a cell; origin is 0 for a local write. *)
Write ==
    [e : Thing, a : Thing \cup {NoHistory}, tag : {"ref"}, v : Thing, origin : Nat]
    \cup [e : Thing, a : Thing \cup {NoHistory}, tag : Texts \cup {"bool", "none"},
          v : Nat, origin : Nat]
Activity == [kind : {"snapshot", "damage", "backup"}, writes : SUBSET Write,
             excise : SUBSET Thing, maxTx : Nat, pages : Nat]

ASSUME ActivitiesAssumption == \A act \in Activities : act \in Activity /\ act.pages > 0

VARIABLES
    activity,
    db,        \* the committed content of the file
    excised,   \* the entities excised so far
    again,     \* some entity was excised a second time
    damage,    \* what happened to the file, of kind "none" while it is sound
    sound,     \* the content before the damage, Null before
    stream,    \* the snapshot taken, <<>> before
    origin,    \* the content and basis it was taken of, and the last transaction
    altered,   \* the stream is not what was written
    target,    \* the file restored into, Null while pristine
    outcome,   \* of the restore: "none", "ok" or "refused"
    step,      \* where Backup is, "none" outside
    pages,     \* pages copied so far
    temp,      \* the temporary sibling and the destination: the set of the
    dest,      \*     file there, empty where there is none
    durable,   \* the destination's directory entry is on disk
    acked,     \* a Backup has returned without error
    crashed

content == <<db, excised, again, damage, sound>>
portable == <<stream, origin, altered, target, outcome>>
files == <<step, pages, temp, dest, durable, acked, crashed>>
vars == <<activity, db, excised, again, damage, sound, stream, origin, altered, target,
          outcome, step, pages, temp, dest, durable, acked, crashed>>

NoDamage == [kind |-> "none", row |-> 0]
Damaged == damage.kind # "none"

Init ==
    /\ activity \in Activities
    /\ db = Empty(1) /\ excised = {} /\ again = FALSE
    /\ damage = NoDamage /\ sound = Null
    /\ stream = <<>> /\ origin = Null /\ altered = FALSE
    /\ target = Null /\ outcome = "none"
    /\ step = "none" /\ pages = 0
    /\ temp = {} /\ dest = {}
    /\ durable = FALSE /\ acked = FALSE /\ crashed = FALSE

-----------------------------------------------------------------------------
(* The file in use. *)

(* Bounds: transactions and their UUIDs, and nothing is written once the
   snapshot has been taken, which it would not show. *)
Room ==
    /\ Cardinality(DOMAIN db.events) < activity.maxTx /\ origin = Null
    /\ \E u \in Event : ~Known(db, u)
NextEvent == CHOOSE u \in Event : ~Known(db, u)

(* SQLite's online backup starts over when another process has written. *)
Commit(content_) ==
    /\ ~Damaged
    /\ db' = content_
    /\ db' # db
    /\ pages' = 0
    /\ UNCHANGED <<activity, damage, sound, portable, step, temp, dest, durable, acked, crashed>>

(* Every write carries its event's UUID as operation id. *)
Put(w) ==
    /\ Room
    /\ Commit(Written(db, w, NextEvent, NextEvent, w.origin))
    /\ UNCHANGED <<excised, again>>

ExciseThing(sel) ==
    /\ Room /\ Known(db, sel)
    /\ Commit(Excise(db, sel, NextEvent, Null))
    /\ excised' = excised \cup {sel}
    /\ again' = (again \/ sel \in excised)

-----------------------------------------------------------------------------
(* Damage from outside the program: one row lost or changed. *)

Replace(row, new) == [db EXCEPT !.facts = (@ \ {row}) \cup {new}]
Without(f, x) == [y \in DOMAIN f \ {x} |-> f[y]]

Damage(kind, row, bad) == [kind |-> kind, row |-> row, db |-> bad]

IdentityLost ==
    {Damage("identity", i, [db EXCEPT !.registry = Without(@, i)]) : i \in DOMAIN db.registry}
EventLost == {Damage("event", t, [db EXCEPT !.events = Without(@, t)]) : t \in DOMAIN db.events}
PayloadLost ==
    {Damage("payload", t, [db EXCEPT !.events[t].data = <<>>]) :
        t \in {u \in DOMAIN db.events : db.events[u].data # <<>>}}
FactLost == {Damage("fact", f, [db EXCEPT !.facts = @ \ {f}]) : f \in db.facts}
FactReopened ==
    {Damage("fact", f, Replace(f, [f EXCEPT !.rx = 0])) : f \in {g \in db.facts : g.rx # 0}}
FactClosed ==
    {Damage("fact", f, Replace(f, [f EXCEPT !.rx = Basis(db)])) : f \in {g \in db.facts : g.rx = 0}}
FactChanged ==
    {Damage("fact", f, Replace(f, [f EXCEPT !.v = 9])) : f \in {g \in db.facts : g.tag = "text"}}
AllocatorOff ==
    {Damage("next_id", n, [db EXCEPT !.next = n]) : n \in {db.next - 1, db.next + 1}}
BlobLost == {Damage("blob", b, [db EXCEPT !.blobs = @ \ {b}]) : b \in db.blobs}
BlobStray == {Damage("derived", 9, [db EXCEPT !.blobs = @ \cup {9}])}
IndexLost == {Damage("derived", r, [db EXCEPT !.fts = @ \ {r}]) : r \in db.fts}
IndexStray == {Damage("derived", db.row, [db EXCEPT !.fts = @ \cup {[id |-> db.row, text |-> 9]}])}

Damages ==
    IdentityLost \cup EventLost \cup PayloadLost
        \cup FactLost \cup FactReopened \cup FactClosed \cup FactChanged
        \cup AllocatorOff \cup BlobLost \cup BlobStray \cup IndexLost \cup IndexStray

GoesBad ==
    \E d \in Damages :
        /\ activity.kind # "snapshot"
        /\ ~Damaged /\ DOMAIN db.events # {} /\ d.db # db
        /\ damage' = [kind |-> d.kind, row |-> d.row]
        /\ sound' = db
        /\ db' = d.db
        /\ pages' = 0
        /\ UNCHANGED <<activity, excised, again, portable, step, temp, dest, durable, acked, crashed>>

(* Doctor with --repair, one writer transaction: refused over anything that
   is not derived, and committed only if nothing is left to report. *)
Repair ==
    /\ activity.kind = "damage" /\ Damaged
    /\ Fatal(db) = {}
    /\ db' = Repaired(db)
    /\ Fatal(db') = {} /\ ~RepairNeeded(db')
    /\ IF damage.kind = "derived" THEN damage' = NoDamage /\ sound' = Null
       ELSE UNCHANGED <<damage, sound>>
    /\ UNCHANGED <<activity, excised, again, portable, files>>

-----------------------------------------------------------------------------
(* Snapshot and restore. *)

(* Snapshot gives up where an identity, a receipt or a blob it has to render
   is missing. *)
Readable ==
    /\ RegistryGaps(db) = {}
    /\ DOMAIN db.events \subseteq DOMAIN db.registry
    /\ \A t \in DOMAIN db.events :
          /\ TimeOf(db, t, At) # {}
          /\ db.events[t].data # <<>> => db.events[t].data[1] = db.events[t].hash
    /\ \A f \in db.facts : f.tag = "textref" => f.v \in db.blobs

(* Of the store, or of a view of it as of an earlier transaction. *)
TakeSnapshot(basis) ==
    /\ activity.kind # "backup" /\ origin = Null
    /\ Readable
    /\ stream' = Snapshot(db, basis)
    /\ origin' = [db |-> db, basis |-> basis, sound |-> ~Damaged,
                   head |-> Basis(IF Damaged THEN sound ELSE db)]
    /\ UNCHANGED <<activity, content, altered, target, outcome, files>>

(* One record of the stream is lost, doubled or out of order, or the stream
   is cut short. *)
Alterations ==
    {RemoveAt(stream, i) : i \in DOMAIN stream}
    \cup {SubSeq(stream, 1, i) : i \in 0..(Len(stream) - 1)}
    \cup {InsertAt(stream, i, stream[i]) : i \in DOMAIN stream}
    \cup {[stream EXCEPT ![i] = stream[i + 1], ![i + 1] = stream[i]] : i \in 1..(Len(stream) - 1)}

StreamGoesBad ==
    /\ origin # Null /\ ~altered /\ outcome = "none"
    /\ activity.kind = "snapshot"
    /\ stream' \in Alterations /\ stream' # stream
    /\ altered' = TRUE
    /\ UNCHANGED <<activity, content, origin, target, outcome, files>>

(* Restore, one writer transaction on a pristine file. *)
Restore ==
    /\ origin # Null /\ target = Null /\ outcome = "none"
    /\ target' = Restored(stream)
    /\ outcome' = IF target' = Null THEN "refused" ELSE "ok"
    /\ UNCHANGED <<activity, content, stream, origin, altered, files>>

-----------------------------------------------------------------------------
(* Backup, one step per call that reaches the disk. *)

untouched == <<activity, content, portable>>

(* A file: whose it is, a complete copy or not, and whether fsync has
   returned. *)
Copy(of, whole) == [backup |-> TRUE, of |-> of, whole |-> whole, synced |-> FALSE]
Foreign == [backup |-> FALSE, of |-> Null, whole |-> TRUE, synced |-> TRUE]

Goto(label) == step' = label

(* Lstat finds nothing at the destination, CreateTemp, the mutex. *)
BeginBackup ==
    /\ activity.kind = "backup" /\ step = "none" /\ ~acked
    /\ dest = {}
    /\ temp = {}
    /\ temp' = {Copy(Null, FALSE)}
    /\ pages' = 0
    /\ Goto("copy")
    /\ UNCHANGED <<untouched, dest, durable, acked, crashed>>

(* One sqlite3_backup_step; the last one finds every page of one version. *)
CopyPages ==
    /\ step = "copy"
    /\ pages' = pages + 1
    /\ temp' = {Copy(db, pages' = activity.pages)}
    /\ Goto(IF pages' = activity.pages THEN "verify" ELSE "copy")
    /\ UNCHANGED <<untouched, dest, durable, acked, crashed>>

(* verifyBackup: doctor on the copy. *)
Verify ==
    /\ step = "verify"
    /\ \A f \in temp : DoctorOK(f.of)
    /\ Goto("sync")
    /\ UNCHANGED <<untouched, pages, temp, dest, durable, acked, crashed>>

SyncFile_Skipped ==
    /\ step = "sync"
    /\ Goto("publish")
    /\ UNCHANGED <<untouched, pages, temp, dest, durable, acked, crashed>>

SyncFile ==
    /\ step = "sync"
    /\ temp' = {[f EXCEPT !.synced = TRUE] : f \in temp}
    /\ Goto("publish")
    /\ UNCHANGED <<untouched, pages, dest, durable, acked, crashed>>

Publish_Rename ==
    /\ step = "publish"
    /\ dest' = temp
    /\ Goto("remove")
    /\ UNCHANGED <<untouched, pages, temp, durable, acked, crashed>>

(* publishBackup: a hard link, which fails where a file already is. *)
Publish ==
    /\ step = "publish" /\ dest = {}
    /\ dest' = temp
    /\ Goto("remove")
    /\ UNCHANGED <<untouched, pages, temp, durable, acked, crashed>>

RemoveTemp ==
    /\ step = "remove"
    /\ temp' = {}
    /\ Goto("syncdir")
    /\ UNCHANGED <<untouched, pages, dest, durable, acked, crashed>>

SyncDirectory ==
    /\ step = "syncdir"
    /\ durable' = TRUE
    /\ acked' = TRUE
    /\ Goto("none")
    /\ UNCHANGED <<untouched, pages, temp, dest, crashed>>

(* Any step can fail, the context can be cancelled; the deferred call removes
   the temporary file, and a destination that was published stays. *)
BackupFails ==
    /\ step # "none"
    /\ temp' = {}
    /\ Goto("none")
    /\ UNCHANGED <<untouched, pages, dest, durable, acked, crashed>>

(* Somebody else makes a file of that name. *)
OtherCreates ==
    /\ activity.kind = "backup" /\ dest = {} /\ step # "none"
    /\ dest' = {Foreign}
    /\ durable' = TRUE
    /\ UNCHANGED <<untouched, step, pages, temp, acked, crashed>>

(* The machine stops: an entry that was not synced may be gone, contents that
   were not synced may be torn. *)
Torn(there) == {IF f.synced THEN f ELSE [f EXCEPT !.whole = FALSE] : f \in there}
MachineCrash ==
    /\ activity.kind = "backup" /\ ~crashed
    /\ crashed' = TRUE
    /\ \E gone \in BOOLEAN : dest' = IF gone /\ ~durable THEN {} ELSE Torn(dest)
    /\ temp' = Torn(temp)
    /\ Goto("none")
    /\ UNCHANGED <<untouched, pages, durable, acked>>

Next ==
    \/ \E w \in activity.writes : Put(w)
    \/ \E sel \in activity.excise : ExciseThing(sel)
    \/ \E basis \in DOMAIN db.events : TakeSnapshot(basis)
    \/ GoesBad \/ Repair \/ StreamGoesBad \/ Restore
    \/ BeginBackup \/ CopyPages \/ Verify \/ SyncFile \/ Publish \/ RemoveTemp
    \/ SyncDirectory \/ BackupFails \/ OtherCreates \/ MachineCrash

Spec == Init /\ [][Next]_vars

-----------------------------------------------------------------------------
(* Properties. *)

(* A database the program can have written. *)
Sane(c) ==
    /\ DOMAIN c.registry = FirstUserID..(c.next - 1)
    /\ DOMAIN c.events \subseteq DOMAIN c.registry
    /\ \A f \in c.facts : f.id < c.row /\ f.tx \in DOMAIN c.events /\ f.rx < c.next
    /\ \A f, g \in c.facts : f.id = g.id => f = g

TypeOK ==
    /\ Sane(IF Damaged THEN sound ELSE db)
    /\ excised \subseteq Thing
    /\ outcome \in {"none", "ok", "refused"}
    /\ step \in {"none", "copy", "verify", "sync", "publish", "remove", "syncdir"}
    /\ pages \in 0..activity.pages

(* No sequence of writes, imports and excisions makes doctor report a
   problem: not history given up, not values shared by several rows, not
   payloads that were redacted (as long as no entity is excised twice). *)
DoctorQuiet == ~Damaged /\ ~again => DoctorOK(db)

(* The same whatever is excised how often (spec.md:402: doctor reports redacted
   payloads "as intentionally unverifiable, not corrupt").  This is false. *)
DoctorNeverAlarms == ~Damaged => DoctorOK(db)

(* Files are well formed, and doctor agrees. *)
FileSound == TypeOK /\ DoctorQuiet

(* What doctor cannot see: a changed row of an event whose payload is gone or
   may have lost history, the source's time of an event imported at that very
   time, and the identity of one that no row mentions. *)
Unprotected(c, t) ==
    \/ c.events[t].data = <<>> \/ c.events[t].data[1].redacted
    \/ MayLoseHistory(c, c.events[t].data[1])
Unseen(c, d) ==
    CASE d.kind = "fact" -> \/ \E t \in {d.row.tx, d.row.rx, Basis(c)} \ {0} : Unprotected(c, t)
                            \/ d.row.a = ImportedAt /\ d.row.v \in TimeOf(c, d.row.tx, At)
      [] d.kind = "identity" -> /\ d.row \notin Identifiers(c.facts)
                                /\ Unprotected(c, c.registry[d.row].created)
      [] OTHER -> FALSE

(* Any other loss or change of a single row is reported. *)
DoctorCatches == Damaged /\ ~Unseen(sound, damage) => ~DoctorOK(db)

(* The content as of a basis: what a snapshot at that basis stands for. *)
Retained(c, basis) ==
    LET rows == {[f EXCEPT !.rx = IF @ > basis THEN 0 ELSE @] :
                    f \in {g \in c.facts : g.tx <= basis}}
    IN  [facts |-> rows,
         registry |-> [i \in {j \in DOMAIN c.registry : c.registry[j].created <= basis} |-> c.registry[i]],
         events |-> [t \in {u \in DOMAIN c.events : u <= basis} |-> c.events[t]],
         born |-> c.born]

(* Rows up to their row ids, whose order is kept. *)
Numbered(rows) ==
    {[f EXCEPT !.id = Cardinality({g \in rows : g.id <= f.id})] : f \in rows}

(* A restored file is well formed and, id for id and row for row, the content
   the snapshot was taken of, as of its basis, and it goes on like it: the
   allocator gives out the same ids, and the index and the blobs are complete. *)
RestoreExact ==
    target # Null =>
        LET want == Retained(origin.db, origin.basis)
        IN  /\ Sane(target)
            /\ origin.sound =>
                  /\ Numbered(target.facts) = Numbered(want.facts)
                  /\ target.registry = want.registry
                  /\ target.events = want.events
                  /\ target.born = want.born
                  /\ target.next = origin.basis + 1
                  /\ ~RepairNeeded(target)

(* A stream that lost, repeated or swapped a record, or was cut, is refused,
   and so is the snapshot at the head of a file with a problem doctor cannot
   mend, but for the allocator, which a restore computes afresh. *)
BadStreamRefused ==
    outcome = "ok" => /\ ~altered
                      /\ origin.basis = origin.head
                             => Fatal(origin.db) \subseteq {"next_id"}

(* What the rows of an earlier basis no longer show. *)
LostSince(c, basis) == \E f \in c.facts : f.a \in {Excised, NoHistory} /\ f.tx > basis

(* The complete stream of a sound file is accepted, as of any transaction
   after which nothing was excised and no history given up. *)
GoodStreamAccepted ==
    outcome = "refused" /\ ~altered /\ origin.sound
        => Fatal(origin.db) # {} \/ LostSince(origin.db, origin.basis)

(* Whatever happens to the derived rows, the index and the blobs, doctor
   finds no more fault with the file than before, and its repair would bring
   it back exactly as it was. *)
RepairHeals ==
    damage.kind = "derived" =>
        Fatal(db) = Fatal(sound) /\ Repaired(db) = sound

(* Restore takes exactly the streams it should. *)
StreamsJudged == BadStreamRefused /\ GoodStreamAccepted

(* Damage to a row is reported or, if the row is derived, repaired. *)
DamageHandled == DoctorCatches /\ RepairHeals

(* Whatever fails or crashes when, a backup that can be seen under its name
   is a complete copy that doctor has nothing to say about. *)
BackupWhole == \A f \in dest : f.backup => f.whole /\ DoctorOK(f.of)

(* A file that has the destination's name is never replaced or changed. *)
NeverOverwritten == [][dest # {} /\ dest' # {} => dest' = dest]_vars

(* Once Backup has returned without error the file survives any crash. *)
AckedSurvives == acked => \E f \in dest : f.backup /\ f.whole

(* Without a crash no temporary file outlives the call. *)
NoTempLeft == step = "none" /\ ~crashed => temp = {}

(* A backup is whole when it is visible, durable when it is acknowledged, and
   leaves nothing else behind. *)
BackupSafe == BackupWhole /\ AckedSurvives /\ NoTempLeft
=============================================================================
