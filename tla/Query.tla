------------------------------- MODULE Query -------------------------------
(***************************************************************************)
(* The evaluator of the JSON Datalog: clause ordering, indexed and batched *)
(* patterns, predicates, negation, disjunction, rules and projection.      *)
(* Pure operators; a list of distinct bindings is the set of its bindings. *)
(*                                                                         *)
(* A term is a variable, the wildcard, a selector or a value; a clause is  *)
(* a pattern, a predicate, a "not", an "or" or a rule invocation.  The     *)
(* work budget, the validation of malformed queries, pull, order, limit    *)
(* and offset are left out.                                                *)
(***************************************************************************)
EXTENDS Datoms

IsVar(term) == term.kind = "var"
IsAny(term) == term.kind = "any"

VarsOf(terms) == {t.x : t \in {u \in ToSet(terms) : IsVar(u)}}

RECURSIVE ClauseVariables(_)
ClauseVariables(clause) ==
    CASE clause.kind = "pattern" -> VarsOf(clause.terms)
      [] clause.kind = "pred" -> VarsOf(<<clause.left, clause.right>>)
      [] clause.kind = "rule" -> VarsOf(clause.args)
      [] clause.kind = "not" -> UNION {ClauseVariables(c) : c \in ToSet(clause.body)}
      [] clause.kind = "or" ->
            UNION {UNION {ClauseVariables(c) : c \in ToSet(body)} : body \in ToSet(clause.branches)}

-----------------------------------------------------------------------------
(* The order of evaluation. *)

(* termPlannedBound: everything but a variable still free. *)
Pinned(term, bound) == IsVar(term) => term.x \in bound

PatternAccessRank(terms, bound) ==
    LET e == Pinned(terms[1], bound)
        a == Pinned(terms[2], bound)
        v == Pinned(terms[3], bound)
    IN  CASE e /\ a -> 0
          [] a /\ v -> 1
          [] e -> 2
          [] a -> 3
          [] v -> 4
          [] OTHER -> 5

LeadingPatterns_AnyBarrier(clauses) ==
    {i \in DOMAIN clauses : clauses[i].kind = "pattern"}

(* The contiguous block of patterns a list of clauses starts with. *)
LeadingPatterns(clauses) ==
    {i \in DOMAIN clauses : \A j \in 1..i : clauses[j].kind = "pattern"}

(* Variables a barrier counts as bound for what follows. *)
Binds(clause) == IF clause.kind \in {"pred", "not"} THEN {} ELSE ClauseVariables(clause)

(* orderQueryClauses: of each block the best ranked pattern first, by
   position among equals; barriers stay where they are. *)
RECURSIVE OrderQueryClauses(_, _)
OrderQueryClauses(clauses, bound) ==
    LET block == LeadingPatterns(clauses)
        rank(i) == PatternAccessRank(clauses[i].terms, bound)
        best == CHOOSE i \in block : \A j \in block :
                    rank(i) < rank(j) \/ (rank(i) = rank(j) /\ i <= j)
        next == IF block = {} THEN 1 ELSE best
    IN  IF clauses = <<>> THEN <<>>
        ELSE <<clauses[next]>> \o
             OrderQueryClauses(RemoveAt(clauses, next), bound \cup Binds(clauses[next]))

InitialBindingNames(input) == {x \in UNION {DOMAIN b : b \in input} : \A b \in input : x \in DOMAIN b}

-----------------------------------------------------------------------------
(* Matching a pattern.  ctx is what one query reads: db, view, source and the
   rules' definitions and relations. *)

(* patternSQLBase. *)
Base(ctx) ==
    IF ctx.source = "history" THEN HistoryTo(ctx.db, ViewBasis(ctx.db, ctx.view))
    ELSE Asserted(Visible(ctx.db, ctx.view))

Actual(d) ==
    <<Cell("ref", d.e), Cell("ref", d.a), d.cell, Cell("ref", d.tx), Cell("bool", d.added)>>

(* preparePatternTerm: the cells, at most one, of a constant. *)
Constant(ctx, term) ==
    IF term.kind = "cell" THEN {term.cell}
    ELSE {Cell("ref", i) : i \in ResolveReadEntity(ctx.db, ctx.view, term)}

(* matchTerm on a term and a cell: the bindings, at most one, it leaves. *)
MatchTerm(ctx, term, cell, b) ==
    IF IsAny(term) THEN {b}
    ELSE IF ~IsVar(term) THEN {c \in {b} : cell \in Constant(ctx, term)}
    ELSE IF term.x \in DOMAIN b THEN {c \in {b} : b[term.x] = cell}
    ELSE {b @@ (term.x :> cell)}

RECURSIVE MatchTerms(_, _, _, _)
MatchTerms(ctx, terms, cells, b) ==
    IF terms = <<>> THEN {b}
    ELSE UNION {MatchTerms(ctx, Tail(terms), Tail(cells), c) :
                    c \in MatchTerm(ctx, Head(terms), Head(cells), b)}

(* patternTermCell: what a term is bound to, if it is. *)
TermCell(ctx, term, b) ==
    IF IsAny(term) THEN {}
    ELSE IF IsVar(term) THEN {b[x] : x \in DOMAIN b \cap {term.x}}
    ELSE Constant(ctx, term)

(* The rows evalIndexedPattern asks SQLite for: ids by number, a value with
   its tag and only together with its attribute. *)
Indexed(ctx, terms, b) ==
    LET bound == [k \in DOMAIN terms |-> TermCell(ctx, terms[k], b)]
    IN  {d \in Base(ctx) : \A k \in DOMAIN terms :
            IF k = 3
            THEN bound[2] # {} /\ bound[3] # {} => d.cell \in bound[3]
            ELSE bound[k] # {} => Actual(d)[k].v \in {c.v : c \in bound[k]}}

EvalIndexedPattern(ctx, terms, b) ==
    IF \E k \in DOMAIN terms : ~IsVar(terms[k]) /\ ~IsAny(terms[k]) /\ Constant(ctx, terms[k]) = {}
    THEN {}
    ELSE UNION {MatchTerms(ctx, terms, Actual(d), b) : d \in Indexed(ctx, terms, b)}

(* evalBoundEntityBatch applies: several bindings, all with the pattern's
   entity, a known attribute and no value yet. *)
Batched(ctx, terms, input) ==
    /\ ctx.source = "current" /\ Len(terms) = 3 /\ Cardinality(input) > 1
    /\ IsVar(terms[1]) /\ terms[2].kind = "sel"
    /\ IsAny(terms[3]) \/ (IsVar(terms[3]) /\ \A b \in input : terms[3].x \notin DOMAIN b)
    /\ \A b \in input : terms[1].x \in DOMAIN b /\ b[terms[1].x].tag = "ref"

EvalBatch(ctx, terms, input) ==
    LET var == terms[1].x
        entities == {b[var].v : b \in input}
        rows == {d \in Base(ctx) : Cell("ref", d.a) \in Constant(ctx, terms[2]) /\ d.e \in entities}
    IN  UNION {UNION {MatchTerms(ctx, terms, SubSeq(Actual(d), 1, 3), b) :
                        b \in {c \in input : c[var].v = d.e}} : d \in rows}

EvalPattern(ctx, terms, input) ==
    IF Batched(ctx, terms, input) THEN EvalBatch(ctx, terms, input)
    ELSE UNION {EvalIndexedPattern(ctx, terms, b) : b \in input}

-----------------------------------------------------------------------------
(* The other clauses. *)

(* compareCells, on the types the models use. *)
Compare(op, l, r) ==
    CASE op = "=" -> l = r
      [] op = "!=" -> l # r
      [] op = "<" -> l.v < r.v

(* evalPredicate; the variables of one are bound. *)
EvalPredicate(ctx, clause, input) ==
    {b \in input : \E l \in TermCell(ctx, clause.left, b), r \in TermCell(ctx, clause.right, b) :
        Compare(clause.op, l, r)}

(* evalRule: the tuples of the relation against the arguments. *)
EvalRule(ctx, clause, input) ==
    UNION {UNION {MatchTerms(ctx, clause.args, tuple, b) : tuple \in ctx.relations[clause.name]} :
            b \in input}

RECURSIVE EvalPlanned(_, _, _)
EvalClauses(ctx, clauses, input) ==
    EvalPlanned(ctx, OrderQueryClauses(clauses, InitialBindingNames(input)), input)

(* evalClauses, the clauses in the order planned, until no binding is left. *)
EvalPlanned(ctx, clauses, input) ==
    IF clauses = <<>> \/ input = {} THEN input
    ELSE LET c == Head(clauses)
             output ==
                CASE c.kind = "pattern" -> EvalPattern(ctx, c.terms, input)
                  [] c.kind = "pred" -> EvalPredicate(ctx, c, input)
                  [] c.kind = "not" -> {b \in input : EvalClauses(ctx, c.body, {b}) = {}}
                  [] c.kind = "or" ->
                        UNION {EvalClauses(ctx, body, input) : body \in ToSet(c.branches)}
                  [] c.kind = "rule" -> EvalRule(ctx, c, input)
         IN  EvalPlanned(ctx, Tail(clauses), output)

-----------------------------------------------------------------------------
(* Rules. *)

RECURSIVE RuleCalls(_)
RuleCalls(clause) ==
    CASE clause.kind = "rule" -> {clause.name}
      [] clause.kind = "not" -> UNION {RuleCalls(c) : c \in ToSet(clause.body)}
      [] clause.kind = "or" ->
            UNION {UNION {RuleCalls(c) : c \in ToSet(body)} : body \in ToSet(clause.branches)}
      [] OTHER -> {}

Dependencies(rules, name) ==
    UNION {UNION {RuleCalls(c) : c \in ToSet(r.body)} : r \in {q \in rules : q.name = name}}

(* The tuples one pass over the definitions of a name yields. *)
Consequences(ctx, name) ==
    UNION {{[k \in DOMAIN r.args |-> b[r.args[k]]] : b \in EvalClauses(ctx, r.body, {<<>>})} :
            r \in {q \in ctx.rules : q.name = name}}

RECURSIVE Passes(_, _)
Passes(ctx, name) ==
    LET rows == ctx.relations[name] \cup Consequences(ctx, name)
    IN  IF rows = ctx.relations[name] THEN ctx
        ELSE Passes([ctx EXCEPT !.relations[name] = rows], name)

(* deriveRelation: passes until nothing new is derived. *)
DeriveRelation(ctx, name) == Passes([ctx EXCEPT !.relations = @ @@ (name :> {})], name)

(* buildRelations: what a rule depends on first; rules that depend on each
   other are refused, which no query of the models does. *)
RECURSIVE BuildRelations(_)
BuildRelations(ctx) ==
    LET names == {r.name : r \in ctx.rules} \ DOMAIN ctx.relations
        ready == {n \in names : Dependencies(ctx.rules, n) \ {n} \subseteq DOMAIN ctx.relations}
    IN  IF names = {} THEN ctx
        ELSE BuildRelations(DeriveRelation(ctx, CHOOSE n \in ready : TRUE))

-----------------------------------------------------------------------------
(* The result. *)

(* aggregate: over the bindings of a group, equal values counted each time
   unless the aggregate says otherwise. *)
Aggregate(name, x, group) ==
    CASE name = "count" -> Cardinality(group)
      [] name = "count-distinct" -> Cardinality({b[x] : b \in group})
      [] name = "sum" -> MapThenSumSet(LAMBDA b : b[x].v, group)

(* project: one row per distinct projection, or per group of bindings that
   agree on the plain variables; with aggregates only, the empty group. *)
Project(find, bindings) ==
    LET plain == {i \in DOMAIN find : find[i].aggregate = "none"}
        same(b, c) == \A i \in plain : b[find[i].x] = c[find[i].x]
        row(b, group) == [i \in DOMAIN find |->
            IF i \in plain THEN b[find[i].x]
            ELSE Cell("int", Aggregate(find[i].aggregate, find[i].x, group))]
    IN  IF plain = {} THEN {row(<<>>, bindings)}
        ELSE {row(b, {c \in bindings : same(b, c)}) : b \in bindings}

(* Query. *)
Answer(db, view, q) ==
    LET ctx == BuildRelations([db |-> db, view |-> view, source |-> q.source,
                               rules |-> q.rules, relations |-> <<>>])
    IN  Project(q.find, EvalClauses(ctx, q.where, {<<>>}))
=============================================================================
