------------------------------- MODULE Datoms -------------------------------
(***************************************************************************)
(* Reading a database through a view: what a view shows, how a selector is *)
(* resolved in it, and one page of the datom index API.  A view is 0 for   *)
(* the store itself and a transaction for at(tx).  Pure operators.         *)
(***************************************************************************)
EXTENDS Database

(* The tags in the order of their numbers, as far as they are used. *)
TagNumber == [ref |-> 0, bool |-> 1, int |-> 2, text |-> 4, instant |-> 5, textref |-> 8]

Cell(tag, v) == [tag |-> tag, v |-> v]

(* The basis a read of the view has. *)
ViewBasis(db, view) == IF view # 0 /\ view < Basis(db) THEN view ELSE Basis(db)

Visible_RetractedLater(db, view) ==
    IF view = 0 THEN {f \in db.facts : f.rx = 0}
    ELSE {f \in db.facts : f.tx <= view /\ f.rx = 0}

(* DB.visibility. *)
Visible(db, view) ==
    IF view = 0 THEN {f \in db.facts : f.rx = 0}
    ELSE {f \in db.facts : f.tx <= view /\ (f.rx = 0 \/ f.rx > view)}

Datom(f, tx, added) ==
    [id |-> f.id, e |-> f.e, a |-> f.a, cell |-> Cell(f.tag, f.v), tx |-> tx, added |-> added]

(* The union of assertions and retractions up to a basis. *)
HistoryTo(db, basis) ==
    {Datom(f, f.tx, 1) : f \in {g \in db.facts : g.tx <= basis}}
    \cup {Datom(f, f.rx, 0) : f \in {g \in db.facts : g.rx # 0 /\ g.rx <= basis}}

Asserted(rows) == {Datom(f, f.tx, 1) : f \in rows}

-----------------------------------------------------------------------------
(* Selectors. *)

(* uniqueOwner, which asks for live rows whatever the view. *)
UniqueOwner(db, a, cell) ==
    {f.e : f \in {g \in db.facts : g.a = a /\ g.rx = 0 /\ Cell(g.tag, g.v) = cell}}

(* resolveReadEntity: the ids, at most one, a selector has in a view. *)
ResolveReadEntity(db, view, sel) ==
    IF sel.kind = "lookup"
    THEN IF Known(db, sel.a) THEN UniqueOwner(db, IdOf(db, sel.a), sel.cell) ELSE {}
    ELSE {i \in DOMAIN db.registry :
            /\ db.registry[i].sel = sel.s
            /\ view # 0 => db.registry[i].created <= view}

-----------------------------------------------------------------------------
(* One page. *)

(* An index orders the components e, a and v its own way, and then tag,
   transaction, direction and row. *)
Prefix == [eavt |-> <<"e", "a", "v">>, avet |-> <<"a", "v", "e">>, vaet |-> <<"v", "a", "e">>]

Field(d, name) == CASE name = "e" -> d.e [] name = "a" -> d.a [] name = "v" -> d.cell.v

Key(index, d) ==
    [k \in 1..3 |-> Field(d, Prefix[index][k])]
    \o <<TagNumber[d.cell.tag], d.tx, d.added, d.id>>

KeyLess(s, t) ==
    \E k \in DOMAIN s : s[k] < t[k] /\ \A j \in 1..(k - 1) : s[j] = t[j]

(* Component k of a request, which the datom has to match; a reference and a
   tx are selectors, and what cannot be resolved matches nothing. *)
Matches(db, view, index, k, comp, d) ==
    CASE comp.kind = "cell" -> d.cell = comp.cell
      [] comp.kind = "added" -> d.added = comp.added
      [] OTHER ->
            \E i \in ResolveReadEntity(db, view, comp) :
                IF k = 4 THEN d.tx = i
                ELSE IF Prefix[index][k] = "v" THEN d.cell = Cell("ref", i)
                ELSE Field(d, Prefix[index][k]) = i

(* readDatomPage without its limit: at the head's basis the live rows, at an
   earlier one what was visible then. *)
Candidates(db, req, basis) ==
    LET rows == IF req.source = "history" THEN HistoryTo(db, basis)
                ELSE Asserted(Visible(db, IF basis = Basis(db) THEN 0 ELSE basis))
    IN  IF req.index = "vaet" THEN {d \in rows : d.cell.tag = "ref"} ELSE rows

Selected(db, view, req, basis) ==
    {d \in Candidates(db, req, basis) :
        \A k \in DOMAIN req.components : Matches(db, view, req.index, k, req.components[k], d)}

Sorted(index, ds) ==
    [k \in 1..Cardinality(ds) |-> CHOOSE d \in ds :
        Cardinality({c \in ds : KeyLess(Key(index, c), Key(index, d))}) = k - 1]

(* What a cursor binds: the digest of the arguments but the limit, the basis
   and the last row. *)
Arguments(req) == [index |-> req.index, source |-> req.source, components |-> req.components]

CursorOK(db, view, req, cursor) ==
    /\ cursor.arguments = Arguments(req)
    /\ cursor.basis <= Basis(db) /\ (view # 0 => cursor.basis <= view)

PageBasis_Head(db, view, cursor) == ViewBasis(db, view)

PageBasis(db, view, cursor) == IF cursor = Null THEN ViewBasis(db, view) ELSE cursor.basis

After(index, ds, seek) == {d \in ds : KeyLess(seek, Key(index, d))}

(* Datoms: a page of at most req.limit datoms after the cursor's row, and a
   cursor when there are more. *)
Page(db, view, req, cursor) ==
    LET basis == PageBasis(db, view, cursor)
        all == Selected(db, view, req, basis)
        rest == Sorted(req.index, IF cursor = Null THEN all ELSE After(req.index, all, cursor.seek))
        more == Len(rest) > req.limit
        items == IF more THEN SubSeq(rest, 1, req.limit) ELSE rest
    IN  [items |-> items, basis |-> basis,
         cursor |-> IF more THEN [arguments |-> Arguments(req), basis |-> basis,
                                  seek |-> Key(req.index, Last(items))]
                    ELSE Null]
=============================================================================
