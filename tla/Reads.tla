------------------------------- MODULE Reads -------------------------------
(***************************************************************************)
(* Readers beside writers.  One reader turns the pages of a datom index,   *)
(* each page a read of its own, on the store or on historical views of it; *)
(* another asks queries, each one read.  Between any two reads the file    *)
(* may be written to, entities excised, history given up.                  *)
(***************************************************************************)
EXTENDS Query

CONSTANTS Writes,    \* puts of a value in a cell, as in Database
          Excisable, \* selectors that may be excised
          Requests,  \* arguments of Datoms
          Queries,
          MaxTx

VARIABLES
    db,      \* the content of the file
    pager,   \* the pages turned so far, Null before the first
    answer   \* of the last query, Null when there is none

vars == <<db, pager, answer>>

Views == {0} \cup DOMAIN db.events

Init == db = Empty(1) /\ pager = Null /\ answer = Null

-----------------------------------------------------------------------------
(* Writers. *)

NextEvent == CHOOSE u \in Event : ~Known(db, u)

(* Rows are only ever closed, unless one is deleted. *)
Deleted(old, new) == ~({f.id : f \in old.facts} \subseteq {f.id : f \in new.facts})

Commit(content) ==
    /\ Cardinality(DOMAIN db.events) < MaxTx
    /\ answer = Null
    /\ db' = content
    /\ db' # db
    /\ UNCHANGED <<pager, answer>>

(* No two entities hold one value of a unique attribute. *)
Free(w) ==
    w.unique /\ Known(db, w.a) =>
        UniqueOwner(db, IdOf(db, w.a), Cell(w.tag, w.v))
            \subseteq {i \in DOMAIN db.registry : db.registry[i].sel = w.e}

Put(w) == Free(w) /\ Commit(Written(db, w, NextEvent, Null, 0))

ExciseThing(sel) == Known(db, sel) /\ Commit(Excise(db, sel, NextEvent, Null))

-----------------------------------------------------------------------------
(* Readers. *)

(* What the first page of a request promises to go through: the datoms of
   its basis that its components select then. *)
Promise(view, req) ==
    LET basis == ViewBasis(db, view)
        owner(comp) == {f.e : f \in {g \in Visible(db, basis) :
                            /\ Known(db, comp.a) /\ g.a = IdOf(db, comp.a)
                            /\ Cell(g.tag, g.v) = comp.cell}}
        named(k, d) ==
            IF req.components[k].kind = "lookup"
            THEN Field(d, Prefix[req.index][k]) \in owner(req.components[k])
            ELSE Matches(db, view, req.index, k, req.components[k], d)
        all == IF req.source = "history" THEN HistoryTo(db, basis)
               ELSE Asserted(Visible(db, basis))
    IN  {d \in all : /\ req.index = "vaet" => d.cell.tag = "ref"
                     /\ \A k \in DOMAIN req.components : named(k, d)}

FirstPage(view, req) ==
    /\ pager = Null /\ answer = Null
    /\ LET page == Page(db, view, req, Null)
       IN  pager' = [req |-> req, basis |-> page.basis, items |-> page.items,
                     cursor |-> page.cursor, promise |-> Promise(view, req)]
    /\ UNCHANGED <<db, answer>>

(* The cursor comes back with some request, on some view; one that does not
   fit is refused and the reader still has it. *)
NextPage(view, req) ==
    /\ pager # Null /\ pager.cursor # Null
    /\ CursorOK(db, view, req, pager.cursor)
    /\ LET page == Page(db, view, req, pager.cursor)
       IN  pager' = [pager EXCEPT !.items = @ \o page.items, !.cursor = page.cursor]
    /\ UNCHANGED <<db, answer>>

(* One query at a time is enough: a read changes nothing. *)
Ask(view, q) ==
    /\ pager = Null /\ answer = Null
    /\ answer' = [q |-> q, view |-> view, rows |-> Answer(db, view, q)]
    /\ UNCHANGED <<db, pager>>

Next ==
    \/ \E w \in Writes : Put(w)
    \/ \E sel \in Excisable : ExciseThing(sel)
    \/ \E view \in Views :
          \/ \E req \in Requests : FirstPage(view, req) \/ NextPage(view, req)
          \/ \E q \in Queries : Ask(view, q)

Spec == Init /\ [][Next]_vars

-----------------------------------------------------------------------------
(* What a query means, without an order of evaluation: which assignments of
   cells to its variables satisfy its clauses. *)

(* The datoms a view at that basis stands for. *)
Facts(view, source) ==
    LET history == HistoryTo(db, ViewBasis(db, view))
    IN  IF source = "history" THEN history
        ELSE {d \in history : d.added = 1 /\ ~\E c \in history : c.id = d.id /\ c.added = 0}

(* What a query is about: the datoms, the cells in them, and the relations
   its rules stand for. *)
World(view, source) ==
    LET rows == {Actual(d) : d \in Facts(view, source)}
    IN  [rows |-> rows, cells |-> UNION {ToSet(row) : row \in rows}, known |-> <<>>]

Denotes(term, s) ==
    CASE term.kind = "var" -> {s[term.x]}
      [] term.kind = "cell" -> {term.cell}
      [] term.kind = "sel" -> {Cell("ref", i) : i \in {j \in DOMAIN db.registry :
                                    db.registry[j].sel = term.s}}

Fits(terms, row, s) ==
    \A k \in DOMAIN terms : IsAny(terms[k]) \/ row[k] \in Denotes(terms[k], s)

(* Assignments of variables to cells that occur where the variable stands. *)
Possible(w, clauses, x) ==
    {c \in w.cells : \A p \in ToSet(clauses) :
        /\ p.kind = "pattern" => \A k \in DOMAIN p.terms :
              p.terms[k] = [kind |-> "var", x |-> x] => \E row \in w.rows : row[k] = c
        /\ p.kind = "rule" => \A k \in DOMAIN p.args :
              p.args[k] = [kind |-> "var", x |-> x] => \E row \in w.known[p.name] : row[k] = c}

RECURSIVE Assignments(_, _, _)
Assignments(w, clauses, xs) ==
    IF xs = {} THEN {<<>>}
    ELSE LET var == CHOOSE each \in xs : TRUE
         IN  {s @@ (var :> c) : s \in Assignments(w, clauses, xs \ {var}), c \in Possible(w, clauses, var)}

(* before is what the clauses before this one bind, which tells a negation's
   own variables from the others. *)
RECURSIVE Satisfies(_, _, _, _)
SatisfiesAll(w, before, clauses, s) ==
    \A i \in DOMAIN clauses :
        Satisfies(w, before \cup UNION {Binds(clauses[j]) : j \in 1..(i - 1)}, clauses[i], s)

Satisfies(w, before, c, s) ==
    CASE c.kind = "pattern" -> \E row \in w.rows : Fits(c.terms, row, s)
      [] c.kind = "rule" -> \E row \in w.known[c.name] : Fits(c.args, row, s)
      [] c.kind = "pred" ->
            \E l \in Denotes(c.left, s), r \in Denotes(c.right, s) : Compare(c.op, l, r)
      [] c.kind = "not" ->
            LET own == ClauseVariables(c) \ before
                kept == [x \in DOMAIN s \ own |-> s[x]]
            IN  ~\E t \in Assignments(w, c.body, own) : SatisfiesAll(w, before, c.body, t @@ kept)
      [] c.kind = "or" -> \E body \in ToSet(c.branches) : SatisfiesAll(w, before, body, s)

Solutions(w, clauses) ==
    LET xs == UNION {Binds(c) : c \in ToSet(clauses)}
    IN  {s \in Assignments(w, clauses, xs) : SatisfiesAll(w, {}, clauses, s)}

(* The least relations closed under the rules, in stages: a stage adds what
   follows in one step, to the names whose dependencies are complete. *)
RECURSIVE Closure(_, _)
Closure(w, rules) ==
    LET derived == [n \in DOMAIN w.known |->
            UNION {{[k \in DOMAIN r.args |-> s[r.args[k]]] : s \in Solutions(w, r.body)} :
                    r \in {p \in rules : p.name = n}}]
        open == {n \in DOMAIN w.known : ~(derived[n] \subseteq w.known[n])}
        lowest == {n \in open : (Dependencies(rules, n) \ {n}) \cap open = {}}
    IN  IF open = {} THEN w
        ELSE Closure([w EXCEPT !.known = [n \in DOMAIN w.known |->
                IF n \in lowest THEN derived[n] \cup w.known[n] ELSE w.known[n]]], rules)

Meaning(view, q) ==
    LET bare == [World(view, q.source) EXCEPT !.known = [n \in {r.name : r \in q.rules} |-> {}]]
    IN  Project(q.find, Solutions(Closure(bare, q.rules), q.where))

-----------------------------------------------------------------------------
(* Properties. *)

(* Datalog as written: whatever order the clauses are taken in, whichever way
   a pattern is read and however often a rule is applied, a query's rows are
   those of the assignments that satisfy it, on the store and on any view. *)
QueryMeaning == answer # Null => answer.rows = Meaning(answer.view, answer.q)

(* A query on at(tx) has the rows it had when tx was the head, whatever was
   written since, as long as nothing was erased. *)
AsOfStable ==
    [][\A q \in Queries : \A view \in DOMAIN db.events :
        db' # db /\ pager = Null /\ ~Deleted(db, db')
            => Answer(db', view, q) = Answer(db, IF view = Basis(db) THEN 0 ELSE view, q)]_vars

(* Pages follow the order of the index and repeat nothing, even though every
   page is a new read and writers go on between them. *)
PagesInOrder ==
    pager # Null => \A j, k \in DOMAIN pager.items :
        j < k => KeyLess(Key(pager.req.index, pager.items[j]), Key(pager.req.index, pager.items[k]))

(* All pages show one basis and one request: nothing written later is seen,
   nothing that was there is left out once the last page is turned, but for
   rows that were erased in between. *)
PagesOfOneBasis ==
    pager # Null =>
        /\ ToSet(pager.items) \subseteq pager.promise
        /\ pager.cursor = Null =>
              \A d \in pager.promise \ ToSet(pager.items) : ~\E f \in db.facts : f.id = d.id

(* Both: turning pages until the cursor ends reads one state of the index,
   each of its rows once and in its order. *)
PagesComplete == PagesInOrder /\ PagesOfOneBasis
=============================================================================
