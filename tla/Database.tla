------------------------------ MODULE Database ------------------------------
(***************************************************************************)
(* The whole content of a database file as one value, and what a write and *)
(* an excision turn it into: as much of a transaction as doctor, snapshot  *)
(* and backup look at afterwards.  Pure operators.                         *)
(*                                                                         *)
(* An identity is known outside the file by its selector, a name or a      *)
(* UUID, and inside by its id; ids are dealt out per file.  Hashes are     *)
(* injective: the hash of something is the thing itself.                   *)
(***************************************************************************)
EXTENDS Naturals, Sequences, SequencesExt

CONSTANTS Event,    \* UUIDs of events, the selectors of transactions
          Thing,    \* selectors of application entities and attributes
          Null

GenesisTx == 64
FirstUserID == 65

(* System attributes, by id. *)
At == 1
NoHistory == 7
Excised == 11
ImportedAt == 13

ASSUME SelectorsAssumption ==
    Event \cap Thing = {} /\ Null \notin Event \cup Thing /\ NoHistory \notin Thing

(* Text of more than BlobThreshold bytes lives in fgraph_blobs and its row
   holds the hash. *)
Texts == {"text", "textref"}

(* registry is fgraph_ids from FirstUserID on, events fgraph_events after
   genesis, row the AUTOINCREMENT counter of fgraph_facts. *)
Empty(born) ==
    [registry |-> <<>>, facts |-> {}, events |-> <<>>, blobs |-> {}, fts |-> {},
     next |-> FirstUserID, row |-> 1, born |-> born]

Basis(db) == Max({GenesisTx} \cup DOMAIN db.events)

(* A system attribute is its own selector. *)
Selector(db, i) ==
    IF i <= GenesisTx THEN i
    ELSE IF i \in DOMAIN db.registry THEN db.registry[i].sel ELSE Null

IdOf(db, sel) == CHOOSE i \in DOMAIN db.registry : db.registry[i].sel = sel
Known(db, sel) == \E i \in DOMAIN db.registry : db.registry[i].sel = sel

(* The elements of a finite set of numbers in order. *)
Ascending(S) ==
    [k \in 1..Cardinality(S) |-> CHOOSE x \in S : Cardinality({y \in S : y <= x}) = k]
ById(rows) ==
    LET ids == Ascending({f.id : f \in rows})
    IN  [k \in DOMAIN ids |-> CHOOSE f \in rows : f.id = ids[k]]

-----------------------------------------------------------------------------
(* Writing. *)

InsertFact(db, e, a, tag, v, tx) ==
    [db EXCEPT !.facts = @ \cup {[id |-> db.row, e |-> e, a |-> a, tag |-> tag, v |-> v,
                                  tx |-> tx, rx |-> 0]},
               !.row = @ + 1,
               !.blobs = IF tag = "textref" THEN @ \cup {v} ELSE @,
               !.fts = IF tag \in Texts THEN @ \cup {[id |-> db.row, text |-> v]} ELSE @]

UsesBlob(rows, hash) == \E f \in rows : f.tag = "textref" /\ f.v = hash
Collected(db) == [db EXCEPT !.blobs = {b \in @ : UsesBlob(db.facts, b)}]

(* nohistory in force, as schemaFor reads it. *)
DeletesHistory(db, a) ==
    \E f \in db.facts : f.e = a /\ f.a = NoHistory /\ f.v = 1 /\ f.rx = 0

Unindexed(db, rows) == [db EXCEPT !.fts = {r \in @ : \A f \in rows : f.id # r.id}]

RetractFacts_NoCollection(db, rows, tx) ==
    LET gone == {f \in rows : DeletesHistory(db, f.a)}
    IN  Unindexed([db EXCEPT !.facts =
            (@ \ rows) \cup {[f EXCEPT !.rx = tx] : f \in rows \ gone}], rows)

(* The retractions of transactOn: delete or close the row, drop its text from
   the index, and its blob when no row is left that uses it. *)
RetractFacts(db, rows, tx) ==
    LET gone == {f \in rows : DeletesHistory(db, f.a)}
    IN  Collected(Unindexed([db EXCEPT !.facts =
            (@ \ rows) \cup {[f EXCEPT !.rx = tx] : f \in rows \ gone}], rows))

Tuple(db, f) ==
    [e |-> Selector(db, f.e), a |-> Selector(db, f.a), tag |-> f.tag,
     v |-> IF f.tag = "ref" THEN Selector(db, f.v) ELSE f.v]

CreatedBy(db, tx) ==
    LET ids == Ascending({i \in DOMAIN db.registry : db.registry[i].created = tx /\ i # tx})
    IN  [k \in DOMAIN ids |-> db.registry[ids[k]].sel]

TimeOf(db, tx, a) == {f.v : f \in {g \in db.facts : g.e = tx /\ g.tx = tx /\ g.a = a}}

(* The timestamp of the event, which for an imported one is the source's. *)
OriginAt(db, tx) ==
    LET imported == TimeOf(db, tx, ImportedAt)
    IN  IF imported # {} THEN imported ELSE TimeOf(db, tx, At)

(* exportTransaction. *)
ExportTransaction(db, tx) ==
    [event |-> Selector(db, tx), at |-> OriginAt(db, tx), created |-> CreatedBy(db, tx),
     asserted |-> {Tuple(db, f) : f \in {g \in db.facts : g.tx = tx /\ g.e # tx}},
     retracted |-> {Tuple(db, f) : f \in {g \in db.facts : g.rx = tx}},
     redacted |-> FALSE, redacts |-> {}]

(* finalize and flush: ids for the new selectors, then the transaction's. *)
Allocate(db, new, event) ==
    LET tx == db.next + Len(new)
        row(i) == [sel |-> IF i = tx THEN event ELSE new[i - db.next + 1], created |-> tx]
    IN  [db EXCEPT !.registry = [i \in DOMAIN @ \cup db.next..tx |->
                                    IF i \in DOMAIN db.registry THEN db.registry[i] ELSE row(i)],
                   !.next = tx + 1]

Record(db, tx, data, op) ==
    [db EXCEPT !.events = [t \in DOMAIN @ \cup {tx} |->
        IF t = tx THEN [data |-> <<data>>, hash |-> data, op |-> op] ELSE db.events[t]]]

(* The row a write asks for on tables where its selectors have ids. *)
Target(db, w) == IF w.tag = "ref" THEN IdOf(db, w.v) ELSE w.v
AttrOf(db, w) == IF w.a \in Thing THEN IdOf(db, w.a) ELSE w.a
CellOf(db, w) == {f \in db.facts : f.rx = 0 /\ f.e = IdOf(db, w.e) /\ f.a = AttrOf(db, w)}

(* The selectors a write names that have no id yet, in the order it names them. *)
Created(db, new, sel) ==
    IF sel \notin Thing \/ Known(db, sel) \/ \E k \in DOMAIN new : new[k] = sel
    THEN new ELSE Append(new, sel)
NewSelectors(db, w) ==
    LET named == Created(db, Created(db, <<>>, w.e), w.a)
    IN  IF w.tag = "ref" THEN Created(db, named, w.v) ELSE named

(* A transaction that puts one value in one cardinality-one cell, or empties
   it (tag "none"); origin is the source's timestamp for an imported event.
   A write that changes nothing is no transaction. *)
Written(db, w, event, op, origin) ==
    LET opened == Allocate(db, NewSelectors(db, w), event)
        tx == opened.next - 1
        old == CellOf(opened, w)
        kept == \E f \in old : f.tag = w.tag /\ f.v = Target(opened, w)
        stamped == InsertFact(opened, tx, At, "instant", tx, tx)
        dated == IF origin = 0 THEN stamped
                 ELSE InsertFact(stamped, tx, ImportedAt, "instant", origin, tx)
        asserted == IF w.tag = "none" THEN dated
                    ELSE InsertFact(dated, IdOf(opened, w.e), AttrOf(opened, w), w.tag,
                                    Target(opened, w), tx)
        done == RetractFacts(asserted, old, tx)
    IN  IF kept \/ (old = {} /\ w.tag = "none") THEN db
        ELSE Record(done, tx, ExportTransaction(done, tx), op)

Mentions(f, i) == f.e = i \/ f.a = i \/ (f.tag = "ref" /\ f.v = i)
PayloadMentions(data, sel) ==
    \/ \E k \in DOMAIN data.created : data.created[k] = sel
    \/ \E t \in data.asserted \cup data.retracted : t.e = sel \/ t.a = sel \/ t.v = sel

(* The prior events whose payload an excision of entity i clears: those of
   the rows it deletes, and every retained one that mentions the selector. *)
Redact(db, i, sel) ==
    {t \in DOMAIN db.events :
        \/ \E f \in db.facts : Mentions(f, i) /\ t \in {f.tx, f.rx}
        \/ db.events[t].data # <<>> /\ PayloadMentions(db.events[t].data[1], sel)}

(* Excise: every row that mentions the entity, with its index and blobs, and
   an event that proves it without retaining anything. *)
Excise(db, sel, event, op) ==
    LET i == IdOf(db, sel)
        opened == Allocate(db, <<>>, event)
        tx == opened.next - 1
        rows == {f \in db.facts : Mentions(f, i)}
        redacts == Redact(db, i, sel)
        cleared == [opened EXCEPT !.events = [t \in DOMAIN db.events |->
                        [db.events[t] EXCEPT !.data = IF t \in redacts THEN <<>> ELSE @]]]
        erased == Collected(Unindexed([cleared EXCEPT !.facts = @ \ rows], rows))
        marked == InsertFact(InsertFact(erased, tx, At, "instant", tx, tx), tx, Excised, "ref", i, tx)
        data == [event |-> event, at |-> {tx}, created |-> <<>>, asserted |-> {}, retracted |-> {},
                 redacted |-> TRUE, redacts |-> {Selector(db, t) : t \in redacts}]
    IN  Record(marked, tx, data, op)
=============================================================================
