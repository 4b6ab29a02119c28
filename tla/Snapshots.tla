----------------------------- MODULE Snapshots -----------------------------
(***************************************************************************)
(* The portable snapshot/1 stream of a database and the database a stream  *)
(* is restored to.  A stream is a sequence of records: a header, receipts  *)
(* in transaction order, facts in row order, and a footer with counts and  *)
(* a digest of everything before it.                                       *)
(***************************************************************************)
EXTENDS Doctor

EventOf(db, tx) == IF tx = GenesisTx THEN GenesisTx ELSE db.registry[tx].sel

ReceiptLine(db, tx) ==
    [kind |-> "receipt", event |-> EventOf(db, tx),
     at |-> TimeOf(db, tx, At), origin |-> OriginAt(db, tx),
     hash |-> db.events[tx].hash, data |-> db.events[tx].data,
     op |-> db.events[tx].op, created |-> CreatedBy(db, tx)]

(* A retraction after the basis is not part of the snapshot. *)
FactLine(db, basis, f) ==
    [kind |-> "fact", tuple |-> Tuple(db, f), asserted |-> EventOf(db, f.tx),
     retracted |-> IF f.rx # 0 /\ f.rx <= basis THEN EventOf(db, f.rx) ELSE Null]

(* Snapshot of a store, or of a view of it as of the transaction basis. *)
Snapshot(db, basis) ==
    LET txs == Ascending({t \in DOMAIN db.events : t <= basis})
        rows == ById({f \in db.facts : f.tx > GenesisTx /\ f.tx <= basis})
        body == <<[kind |-> "header", born |-> db.born, basis |-> EventOf(db, basis)]>>
                \o [k \in DOMAIN txs |-> ReceiptLine(db, txs[k])]
                \o [k \in DOMAIN rows |-> FactLine(db, basis, rows[k])]
    IN  Append(body, [kind |-> "end", digest |-> body, receipts |-> Len(txs), facts |-> Len(rows)])

-----------------------------------------------------------------------------
(* Restore, record by record. *)

(* snapshotRestoreState, and the tables so far. *)
NoRestore ==
    [ok |-> TRUE, header |-> FALSE, footer |-> FALSE, facts |-> FALSE, basis |-> Null,
     body |-> <<>>, ids |-> <<>>, events |-> <<>>, times |-> <<>>, last |-> GenesisTx,
     receipts |-> 0, rows |-> 0, db |-> Empty(0)]

Reject(st) == [st EXCEPT !.ok = FALSE]

RestoreHeader(st, line) ==
    IF line.kind # "header" THEN Reject(st)
    ELSE [st EXCEPT !.header = TRUE, !.basis = line.basis, !.db.born = line.born]

ReceiptOK(st, line) ==
    /\ ~st.facts
    /\ line.event \notin DOMAIN st.events
    /\ line.data # <<>> =>
          /\ line.data[1] = line.hash
          /\ line.data[1].event = line.event
          /\ line.data[1].at = line.origin
          /\ line.data[1].created = line.created
    /\ \A j, k \in DOMAIN line.created : line.created[j] = line.created[k] => j = k
    /\ \A k \in DOMAIN line.created : line.created[k] \notin DOMAIN st.ids
    /\ line.op # Null => \A t \in DOMAIN st.db.events : st.db.events[t].op # line.op

RestoreReceipt_EventFirst(st, line) ==
    LET tx == st.db.next
        last == tx + Len(line.created)
        new == [i \in tx..last |-> IF i = tx THEN line.event ELSE line.created[i - tx]]
    IN  IF ~ReceiptOK(st, line) THEN Reject(st)
        ELSE [st EXCEPT
                !.ids = @ @@ [s \in {new[i] : i \in tx..last} |->
                                 CHOOSE i \in tx..last : new[i] = s],
                !.events = @ @@ (line.event :> tx),
                !.times = @ @@ (tx :> [at |-> line.at, origin |-> line.origin]),
                !.last = line.event, !.receipts = @ + 1,
                !.db.registry = @ @@ [i \in tx..last |-> [sel |-> new[i], created |-> tx]],
                !.db.events = @ @@ (tx :> [data |-> line.data, hash |-> line.hash, op |-> line.op]),
                !.db.next = last + 1]

(* The created selectors get the next ids, in order, and the event the one
   after them. *)
RestoreReceipt(st, line) ==
    LET first == st.db.next
        tx == first + Len(line.created)
        new == [i \in first..tx |-> IF i = tx THEN line.event ELSE line.created[i - first + 1]]
    IN  IF ~ReceiptOK(st, line) THEN Reject(st)
        ELSE [st EXCEPT
                !.ids = @ @@ [s \in {new[i] : i \in first..tx} |->
                                 CHOOSE i \in first..tx : new[i] = s],
                !.events = @ @@ (line.event :> tx),
                !.times = @ @@ (tx :> [at |-> line.at, origin |-> line.origin]),
                !.last = line.event, !.receipts = @ + 1,
                !.db.registry = @ @@ [i \in first..tx |-> [sel |-> new[i], created |-> tx]],
                !.db.events = @ @@ (tx :> [data |-> line.data, hash |-> line.hash, op |-> line.op]),
                !.db.next = tx + 1]

Resolvable(st, sel) == sel \in DOMAIN st.ids \/ sel \in {At, NoHistory, Excised, ImportedAt}
Resolve(st, sel) == IF sel \in DOMAIN st.ids THEN st.ids[sel] ELSE sel

FactOK(st, line) ==
    /\ Resolvable(st, line.tuple.e) /\ Resolvable(st, line.tuple.a)
    /\ line.tuple.tag = "ref" => Resolvable(st, line.tuple.v)
    /\ line.asserted \in DOMAIN st.events
    /\ line.retracted # Null => /\ line.retracted \in DOMAIN st.events
                                /\ st.events[line.retracted] > st.events[line.asserted]

(* insertFact as a live row, then the retraction and its text's removal from
   the index. *)
RestoreFact(st, line) ==
    LET tx == st.events[line.asserted]
        v == IF line.tuple.tag = "ref" THEN Resolve(st, line.tuple.v) ELSE line.tuple.v
        id == st.db.row
        live == InsertFact(st.db, Resolve(st, line.tuple.e), Resolve(st, line.tuple.a),
                           line.tuple.tag, v, tx)
        rows == {f \in live.facts : f.id = id}
    IN  IF ~FactOK(st, line) THEN Reject(st)
        ELSE [st EXCEPT
                !.facts = TRUE, !.rows = @ + 1,
                !.db = IF line.retracted = Null THEN live
                       ELSE Unindexed([live EXCEPT !.facts = (@ \ rows) \cup
                                {[f EXCEPT !.rx = st.events[line.retracted]] : f \in rows}], rows)]

RestoreFooter_CountsOnly(st, line) ==
    IF st.header /\ line.receipts = st.receipts /\ line.facts = st.rows
    THEN [st EXCEPT !.footer = TRUE] ELSE Reject(st)

RestoreFooter(st, line) ==
    IF /\ st.header /\ line.digest = st.body
       /\ line.receipts = st.receipts /\ line.facts = st.rows
    THEN [st EXCEPT !.footer = TRUE] ELSE Reject(st)

RestoreLine(st, line) ==
    LET read == [st EXCEPT !.body = Append(@, line)]
    IN  IF ~st.ok \/ st.footer THEN Reject(st)
        ELSE IF line.kind = "end" THEN RestoreFooter(st, line)
        ELSE IF ~st.header THEN RestoreHeader(read, line)
        ELSE IF line.kind = "receipt" THEN RestoreReceipt(read, line)
        ELSE IF line.kind = "fact" THEN RestoreFact(read, line)
        ELSE Reject(st)

(* validateRestoredReceiptTimes: the facts agree with the receipts. *)
RestoredTimesOK(st) ==
    \A t \in DOMAIN st.times : /\ TimeOf(st.db, t, At) = st.times[t].at
                               /\ OriginAt(st.db, t) = st.times[t].origin

(* restoreSnapshotStream: the records, the basis, the receipts' times and the
   whole of doctor, all before COMMIT.  Null where the stream is refused. *)
Restored(stream) ==
    LET st == FoldLeft(RestoreLine, NoRestore, stream)
    IN  IF /\ st.ok /\ st.header /\ st.footer
           /\ st.basis = st.last
           /\ RestoredTimesOK(st)
           /\ DoctorOK(st.db)
        THEN st.db ELSE Null
=============================================================================
