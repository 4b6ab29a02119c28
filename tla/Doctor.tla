------------------------------- MODULE Doctor -------------------------------
(***************************************************************************)
(* Doctor: the checks of doctorReport on a database, the problems only     *)
(* a backup can mend, the ones --repair rebuilds, and the repair.          *)
(* SQLite's own integrity_check, the genesis rows, value domains and the   *)
(* declarations and shapes Shapes and Transactor have are outside the      *)
(* model: every attribute has cardinality one and any type.                *)
(***************************************************************************)
EXTENDS Database

RefsOf(rows) == {f.v : f \in {g \in rows : g.tag = "ref"}}
Ends(rows) == {f.rx : f \in rows} \ {0}

(* Every identifier a row mentions. *)
Identifiers(rows) ==
    {f.e : f \in rows} \cup {f.a : f \in rows} \cup {f.tx : f \in rows}
        \cup Ends(rows) \cup RefsOf(rows)

AllocatorBehind(db) ==
    db.next # Max({GenesisTx} \cup DOMAIN db.registry \cup Identifiers(db.facts)) + 1

RegistryGaps(db) ==
    {i \in Identifiers(db.facts) : i > GenesisTx /\ i \notin DOMAIN db.registry}

(* An identity whose creating event is missing, or used before it. *)
UntimelyIdentities(db) ==
    {i \in DOMAIN db.registry :
        \/ db.registry[i].created \notin DOMAIN db.events
        \/ \E f \in db.facts : /\ i \in {f.e, f.a} \/ (f.tag = "ref" /\ f.v = i)
                               /\ f.tx < db.registry[i].created}

BadEvents(db) ==
    {t \in DOMAIN db.events :
        \/ t \notin DOMAIN db.registry
        \/ db.registry[t].sel \notin Event
        \/ db.registry[t].created # t}

(* eventMayLoseHistory: some attribute of the payload was ever nohistory. *)
MayLoseHistory(db, data) ==
    \E t \in data.asserted \cup data.retracted :
        \E f \in db.facts : /\ f.a = NoHistory /\ f.v = 1
                            /\ Selector(db, f.e) = t.a

(* The live audit marker of an excision. *)
Marked(db, t) == \E f \in db.facts : f.e = t /\ f.a = Excised /\ f.tx = t /\ f.rx = 0

PayloadOK_NotReconstructed(db, t) ==
    LET data == db.events[t].data[1]
    IN  /\ data = db.events[t].hash
        /\ data.event = Selector(db, t)
        /\ TimeOf(db, t, At) # {} /\ data.at = OriginAt(db, t)
        /\ data.redacted => Marked(db, t)

(* inspectEventHashes, one retained payload: it has the hash, the identity
   and the time of its receipt, and the retained rows reproduce it unless
   history was given up; an excision still has its marker. *)
PayloadOK(db, t) ==
    LET data == db.events[t].data[1]
    IN  /\ data = db.events[t].hash
        /\ data.event = Selector(db, t)
        /\ TimeOf(db, t, At) # {} /\ data.at = OriginAt(db, t)
        /\ IF data.redacted
           THEN Marked(db, t)
           ELSE ExportTransaction(db, t) = data \/ MayLoseHistory(db, data)

(* and the redactions: what an excision names is cleared and older, and what
   is cleared is named by one. *)
RedactionsOK(db) ==
    LET cleared == {t \in DOMAIN db.events : db.events[t].data = <<>>}
        redactors == {t \in DOMAIN db.events \ cleared : Marked(db, t)}
        targets(r) == {t \in DOMAIN db.events : Selector(db, t) \in db.events[r].data[1].redacts}
    IN  /\ \A r \in redactors : \A t \in targets(r) : t \in cleared /\ t < r
        /\ \A r \in redactors : Cardinality(targets(r)) = Cardinality(db.events[r].data[1].redacts)
        /\ \A t \in cleared : \E r \in redactors : t \in targets(r)

(* countGlobalSchemaProblems: cardinality one. *)
CrowdedCells(db) ==
    {f \in db.facts : \E g \in db.facts :
        f.rx = 0 /\ g.rx = 0 /\ f.e = g.e /\ f.a = g.a /\ f.id # g.id}

(* doctorReport: what no rebuild can mend. *)
Fatal(db) ==
    {p \in {"next_id", "registry", "asserting", "retracting", "identities", "events",
            "blobs", "intervals", "payloads", "redactions", "schema"} :
        CASE p = "next_id" -> AllocatorBehind(db)
          [] p = "registry" -> RegistryGaps(db) # {}
          [] p = "asserting" -> \E f \in db.facts : f.tx \notin DOMAIN db.events
          [] p = "retracting" -> ~(Ends(db.facts) \subseteq DOMAIN db.events)
          [] p = "identities" -> UntimelyIdentities(db) # {}
          [] p = "events" -> BadEvents(db) # {}
          [] p = "blobs" -> \E f \in db.facts : f.tag = "textref" /\ f.v \notin db.blobs
          [] p = "intervals" -> \E f \in db.facts : f.rx # 0 /\ f.rx <= f.tx
          [] p = "payloads" -> \E t \in DOMAIN db.events \cap DOMAIN db.registry :
                                  db.events[t].data # <<>> /\ ~PayloadOK(db, t)
          [] p = "redactions" -> ~RedactionsOK(db)
          [] p = "schema" -> CrowdedCells(db) # {}}

ExpectedFTS(db) ==
    {[id |-> f.id, text |-> f.v] : f \in {g \in db.facts : g.rx = 0 /\ g.tag \in Texts}}

(* What --repair rebuilds: the index and the orphaned blobs. *)
RepairNeeded(db) ==
    \/ db.fts # ExpectedFTS(db)
    \/ \E b \in db.blobs : ~UsesBlob(db.facts, b)

DoctorOK(db) == Fatal(db) = {} /\ ~RepairNeeded(db)

Repaired(db) == Collected([db EXCEPT !.fts = ExpectedFTS(db)])
=============================================================================
