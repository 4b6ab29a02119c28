----------------------------- MODULE Transactor -----------------------------
(***************************************************************************)
(* One write transaction of the fact store after another: planning the     *)
(* requested operations, validating the plan, diffing it against the live  *)
(* rows, validating shapes and committing rows and event; undo, the schema *)
(* calls and excision beside it.                                           *)
(*                                                                         *)
(* The writer holds BEGIN IMMEDIATE from Begin to Commit, so nothing else  *)
(* writes in between; the loops over the operations are one step per       *)
(* iteration.  Abort is every way a transaction ends without COMMIT: a     *)
(* failed check, a cancelled context, a crash.                             *)
(***************************************************************************)
EXTENDS Shapes, FiniteSets

CONSTANT Workloads  \* what the store holds and what its callers ask for

UserAttr == Attr \cup SchemaAttr \cup ShapeAttr

AssertInput == [op : {"assert"}, e : Ref, a : UserAttr, v : Value, new : {None}]
RetractInput == [op : {"retract"}, e : Ref, a : UserAttr \cup {None},
                 v : Value \cup {None}, new : {None}]
CasInput == [op : {"cas"}, e : Ref, a : UserAttr, v : Value \cup {None},
             new : Value \cup {None}]


(* The calls that bring their whole plan: Declare, DeclareShape and
   ApplySchemaManifest. *)
DeclareCall == [kind : {"declare"}, attr : Attr, patch : [SchemaAttr -> Setting \cup {"unset"}]]
ShapeCall == [kind : {"shape"}, shape : Ent, definition : ShapeSet \ {NoShape}]
ManifestCall == [kind : {"manifest"}, manifest : Manifest]

(* A workload: the triples the first user transaction asserted, in order; the
   operations of requests; the schema calls; whether entities are excised and
   transactions undone; and bounds on planned operations of a request and on
   transactions. *)
Workload == [seed : Seq([e : Ref, a : UserAttr, v : Value]),
             ops : SUBSET (AssertInput \cup RetractInput \cup CasInput),
             calls : SUBSET (DeclareCall \cup ShapeCall \cup ManifestCall),
             audits : BOOLEAN, maxOps : Nat, maxTx : Nat]

(* The seed is what one transaction of assertions leaves: no triple twice, and
   several values only in the cells of an attribute it declares many. *)
ASSUME WorkloadsAssumption ==
    \A w \in Workloads :
        /\ w \in Workload
        /\ \A i, j \in DOMAIN w.seed : w.seed[i] = w.seed[j] => i = j
        /\ \A i, j \in DOMAIN w.seed :
              w.seed[i].e = w.seed[j].e /\ w.seed[i].a = w.seed[j].a /\ i # j =>
                  \/ SystemMany(w.seed[i].a, "fgraph/many")
                  \/ \E m \in DOMAIN w.seed :
                        w.seed[m] = [e |-> w.seed[i].a, a |-> "fgraph/many", v |-> "true"]

(* Names that begin with fgraph/ are reserved, transactions are not application
   entities, and an absent attribute or value is none of these. *)
ASSUME NamesAssumption ==
    \A x \in Ref \cup {None} :
        x \notin SchemaAttr \cup ShapeAttr \cup AuditAttr \cup Setting \cup Nat

VARIABLES
    load,      \* the workload of this behaviour
    facts,     \* fgraph_facts
    events,    \* fgraph_events: events[t] is the event of transaction t
    phase,     \* "idle", "plan" or "diff"
    plan,      \* transactionPlan: planned assertions and retractions in order
    cas,       \* the cas operations planned so far
    call,      \* the schema call that brought the plan, None for a request
    groups,    \* operations of the call still to be planned, group by group
    undoes,    \* the transaction being undone, Null for a plain request
    todo,      \* undo: rows whose inverse is still to be planned
    cursor,    \* diff: operations applied to the working set so far
    working,   \* diff: the working set
    dropped,   \* diff: stored rows to retract (retractByID)
    inserted,  \* diff: orders of the assertions to insert
    canceled,  \* diff: orders canceled by a later retraction
    prior      \* history: fgraph_facts before the latest transaction

store == <<facts, events, prior>>
planning == <<load, plan, cas, call, groups, undoes, todo>>
diffing == <<cursor, working, dropped, inserted, canceled>>
vars == <<load, facts, events, phase, plan, cas, call, groups, undoes, todo,
          cursor, working, dropped, inserted, canceled, prior>>

Genesis == 1
Basis == Len(events)

Row(k, tx, ord) == [e |-> k.e, a |-> k.a, v |-> k.v, tx |-> tx, ord |-> ord, rx |-> Null]

(* Faulty variants, one per way the code could get this wrong, stand before
   the definition they are a variant of; only the runs that show a property
   can fail use them. *)
Event_ForgetsRetracted(asserted, retracted, redacts, excises) ==
    [asserted |-> asserted, retracted |-> {}, redacts |-> redacts,
     excises |-> excises, retained |-> TRUE]

Event(asserted, retracted, redacts, excises) ==
    [asserted |-> asserted, retracted |-> retracted, redacts |-> redacts,
     excises |-> excises, retained |-> TRUE]

(* event_data = NULL: nothing of the payload is left (excises is kept by the
   model alone, to name the entity in properties). *)
Redacted(ev) == [ev EXCEPT !.asserted = {}, !.retracted = {}, !.redacts = {},
                           !.retained = FALSE]

-----------------------------------------------------------------------------
(* A store that was initialized and then took one transaction, the seed. *)
Init ==
    /\ load \in Workloads
    /\ facts = {Row(load.seed[i], Genesis + 1, i) : i \in DOMAIN load.seed}
    /\ events = <<Event({}, {}, {}, None),
                  Event({load.seed[i] : i \in DOMAIN load.seed}, {}, {}, None)>>
    /\ phase = "idle"
    /\ plan = <<>> /\ cas = {} /\ call = None /\ groups = <<>>
    /\ undoes = Null /\ todo = {}
    /\ cursor = 0 /\ working = {} /\ dropped = {}
    /\ inserted = {} /\ canceled = {}
    /\ prior = {}

Begin ==
    /\ phase = "idle" /\ load.ops # {}
    /\ phase' = "plan"
    /\ UNCHANGED <<store, planning, diffing>>

UndoRows_AssertedOnly(target) ==
    {f \in facts : f.tx = target /\ f.a \notin AuditAttr /\ f.rx = Null}

(* Undo discovers the target's rows inside the writer transaction: what it
   asserted and is still live, and what it retracted. *)
UndoRows(target) ==
    {f \in facts : \/ f.tx = target /\ f.a \notin AuditAttr /\ f.rx = Null
                   \/ f.rx = target}

BeginUndo(target) ==
    /\ phase = "idle" /\ load.audits
    /\ target \in (Genesis + 1)..Basis
    /\ phase' = "plan"
    /\ undoes' = target
    /\ todo' = UndoRows(target)
    /\ UNCHANGED <<store, load, plan, cas, call, groups, diffing>>

Discard ==
    /\ phase' = "idle"
    /\ plan' = <<>> /\ cas' = {} /\ call' = None /\ groups' = <<>>
    /\ undoes' = Null /\ todo' = {}
    /\ load' = load
    /\ cursor' = 0 /\ working' = {} /\ dropped' = {}
    /\ inserted' = {} /\ canceled' = {}

Abort ==
    /\ phase # "idle"
    /\ Discard
    /\ UNCHANGED store

-----------------------------------------------------------------------------
(* Planning: planOperation and planCAS append to the plan. *)

Planned(op, e, a, v, isCas) == [op |-> op, e |-> e, a |-> a, v |-> v, cas |-> isCas]

(* resolveFactValue: the value must fit the type declared at this point of
   the plan. *)
FitsType(a, v) ==
    v = None \/ TagCompatible(SchemaForPlan(facts, plan, a, "fgraph/type"), v)

PlanOperation(in) ==
    /\ in.op \in {"assert", "retract"}
    /\ FitsType(in.a, in.v)
    /\ plan' = Append(plan, Planned(in.op, in.e, in.a, in.v, FALSE))
    /\ cas' = cas

PlanCAS(in) ==
    LET current == {f \in Live(facts) : f.e = in.e /\ f.a = in.a}
        expected == {f.v : f \in current}
        retraction == IF current = {} THEN <<>>
                      ELSE <<Planned("retract", in.e, in.a, None, TRUE)>>
        assertion == IF in.new = None THEN <<>>
                     ELSE <<Planned("assert", in.e, in.a, in.new, TRUE)>>
    IN  /\ in.op = "cas"
        /\ SchemaForPlan(facts, plan, in.a, "fgraph/many") # "true"
        /\ ~ \E c \in cas : c.e = in.e /\ c.a = in.a
        /\ expected = IF in.v = None THEN {} ELSE {in.v}
        /\ FitsType(in.a, in.v) /\ FitsType(in.a, in.new)
        /\ plan' = plan \o retraction \o assertion
        /\ cas' = cas \cup {[e |-> in.e, a |-> in.a, new |-> in.new]}

PlanRequest(in) ==
    /\ phase = "plan" /\ undoes = Null /\ call = None
    /\ PlanOperation(in) \/ PlanCAS(in)
    /\ Len(plan') <= load.maxOps
    /\ UNCHANGED <<store, load, phase, call, groups, undoes, todo, diffing>>

(* undoOperations walks the rows by id and inverts each. *)
PlanUndo(f) ==
    /\ phase = "plan" /\ undoes # Null
    /\ f \in todo
    /\ \A g \in todo : ~Before(g, f)
    /\ FitsType(f.a, f.v)
    /\ plan' = Append(plan, Planned(IF f.rx = undoes THEN "assert" ELSE "retract",
                                    f.e, f.a, f.v, FALSE))
    /\ todo' = todo \ {f}
    /\ UNCHANGED <<store, load, phase, cas, call, groups, undoes, diffing>>

-----------------------------------------------------------------------------
(* Validation of the finished plan. *)

(* Attributes whose declarations plan p touches. *)
DeclaredAttributes(p) ==
    {p[i].e : i \in {i \in ActivePlanAssertions(p) : p[i].a \in SchemaAttr}}
    \cup
    {p[i].e : i \in {i \in DOMAIN p : /\ p[i].op = "retract"
                                      /\ IF p[i].a = None
                                         THEN p[i].e \in Attr
                                         ELSE p[i].a \in SchemaAttr}}

(* The <<entity, value>> pairs validateFinalAttribute expects the attribute to
   end with: an active assertion stands for all of a cardinality-one cell. *)
FinalPairs(p, attr, many) ==
    LET active == {i \in ActivePlanAssertions(p) : p[i].a = attr}
        planned == {<<p[i].e, p[i].v>> : i \in active}
        stored == {<<f.e, f.v>> : f \in {f \in Live(facts) :
                                            f.a = attr /\ ~RawRetracted(p, f)}}
    IN  IF many THEN stored \cup planned
        ELSE {s \in stored : \A q \in planned : q[1] # s[1]} \cup planned

ValidateFinalAttribute(p, attr) ==
    LET final(flag) == SchemaForPlan(facts, p, attr, flag)
        many == final("fgraph/many") = "true"
        unique == final("fgraph/unique") = "true"
        pairs == FinalPairs(p, attr, many)
    IN  /\ unique => final("fgraph/type") # "unset"
        /\ \A q \in pairs : TagCompatible(final("fgraph/type"), q[2])
        /\ many \/ \A q, r \in pairs : q[1] = r[1] => q[2] = r[2]
        /\ unique => \A q, r \in pairs : q[2] = r[2] => q[1] = r[1]

ValidatePlannedDeclarations(p) ==
    \A attr \in DeclaredAttributes(p) : ValidateFinalAttribute(p, attr)

(* Declare looks at the live values before it plans the declaration. *)
ValidateDeclarationOn(attr, patch) ==
    LET live == {f \in Live(facts) : f.a = attr}
        typeName == IF patch["fgraph/type"] # "unset" THEN patch["fgraph/type"]
                    ELSE SchemaFor(facts, attr, "fgraph/type")
    IN  /\ patch["fgraph/unique"] = "true" =>
              /\ typeName # "unset"
              /\ \A f, g \in live : f.v = g.v => f.e = g.e
        /\ patch["fgraph/many"] = "false" => \A f, g \in live : f.e = g.e => f.v = g.v
        /\ \A f \in live : TagCompatible(patch["fgraph/type"], f.v)

DeclareOperations(attr, patch) ==
    << {Op("assert", attr, flag, patch[flag]) :
           flag \in {flag \in SchemaAttr : patch[flag] # "unset"}} >>

(* A schema call brings its whole plan.  ApplySchemaManifest reads the current
   manifest inside the writer transaction. *)
CallPlan(c) ==
    CASE c.kind = "declare" -> DeclareOperations(c.attr, c.patch)
      [] c.kind = "shape" -> ShapeOperations(c.shape, c.definition)
      [] c.kind = "manifest" -> 
             SchemaReplacementOperations(ManifestOf(facts), NormalizeSchemaManifest(c.manifest))

BeginCall(c) ==
    /\ phase = "idle"
    /\ c.kind = "declare" => ValidateDeclarationOn(c.attr, c.patch)
    /\ phase' = "plan"
    /\ call' = c
    /\ groups' = CallPlan(c)
    /\ UNCHANGED <<store, load, plan, cas, undoes, todo, diffing>>

(* The next operation of the call.  Those of a group are in the order of their
   names, which is one fixed order. *)
PlanCall(i) ==
    LET op == CHOOSE o \in groups[i] : TRUE
    IN  /\ phase = "plan"
        /\ groups[i] # {} /\ \A j \in 1..(i - 1) : groups[j] = {}
        /\ plan' = Append(plan, op)
        /\ groups' = [groups EXCEPT ![i] = @ \ {op}]
        /\ UNCHANGED <<store, load, phase, cas, call, undoes, todo, diffing>>

ValidateCASIsolation_Missing == TRUE

ValidateCASIsolation ==
    \A i \in DOMAIN plan, c \in cas :
        ~plan[i].cas /\ plan[i].e = c.e =>
            plan[i].a # c.a /\ ~(plan[i].op = "retract" /\ plan[i].a = None)

(* workingFactsForPlan: the live rows of every entity the plan names, the
   owners of asserted unique values, and what refers to a retracted entity. *)
WorkingFactsForPlan ==
    {f \in Domain(Live(facts)) :
        \E i \in DOMAIN plan :
            \/ f.e = plan[i].e
            \/ /\ plan[i].op = "assert"
               /\ SchemaForPlan(facts, plan, plan[i].a, "fgraph/unique") = "true"
               /\ f.a = plan[i].a /\ f.v = plan[i].v
            \/ /\ plan[i].op = "retract" /\ plan[i].a = None
               /\ f.v = plan[i].e}

(* A working-set entry comes from a stored row or from assertion ord. *)
Stored(f) == [e |-> f.e, a |-> f.a, v |-> f.v, raw |-> f, ord |-> 0]
Asserted(i) == [e |-> plan[i].e, a |-> plan[i].a, v |-> plan[i].v, raw |-> None, ord |-> i]

Validate ==
    /\ phase = "plan"
    /\ todo = {} /\ \A i \in DOMAIN groups : groups[i] = {}
    /\ ValidatePlannedDeclarations(plan)
    /\ ValidateCASIsolation
    /\ phase' = "diff"
    /\ working' = {Stored(f) : f \in WorkingFactsForPlan}
    /\ UNCHANGED <<store, planning, cursor, dropped, inserted, canceled>>

-----------------------------------------------------------------------------
(* diffPlan: one operation of the plan applied to the working set. *)

Rows_OfPlannedToo(entries) == {w.raw : w \in entries}

Rows(entries) == {w.raw : w \in {w \in entries : w.ord = 0}}
Orders(entries) == {w.ord : w \in {w \in entries : w.ord # 0}}

DiffRetract_KeepsPlanned(req) ==
    LET hit == {w \in working : Matches(req, w)}
    IN  /\ req.op = "retract"
        /\ working' = working \ hit
        /\ dropped' = dropped \cup Rows(hit)
        /\ UNCHANGED <<inserted, canceled>>

DiffRetract(req) ==
    LET hit == {w \in working : Matches(req, w)}
    IN  /\ req.op = "retract"
        /\ working' = working \ hit
        /\ canceled' = canceled \cup Orders(hit)
        /\ dropped' = dropped \cup Rows(hit)
        /\ inserted' = inserted

DiffAssertPresent(req) ==
    /\ req.op = "assert"
    /\ \E w \in working : Triple(w) = Triple(req)
    /\ UNCHANGED <<working, dropped, inserted, canceled>>

Displaced_Nothing(req) == {}

(* What a new value of a cardinality-one cell replaces. *)
Displaced(req) ==
    IF SchemaForPlan(facts, plan, req.a, "fgraph/many") = "true" THEN {}
    ELSE {w \in working : w.e = req.e /\ w.a = req.a}

Absent(req) ==
    /\ req.op = "assert"
    /\ ~ \E w \in working : Triple(w) = Triple(req)
    /\ \A w \in Displaced(req) : w.ord = 0

(* A row the same transaction retracted comes back as it was. *)
DiffAssertRestore(req) ==
    LET back == {f \in dropped : Triple(f) = Triple(req)}
    IN  /\ Absent(req)
        /\ back # {}
        /\ working' = (working \ Displaced(req)) \cup {Stored(f) : f \in back}
        /\ dropped' = (dropped \cup Rows(Displaced(req))) \ back
        /\ UNCHANGED <<inserted, canceled>>

DiffAssertNew(req) ==
    LET rest == working \ Displaced(req)
    IN  /\ Absent(req)
        /\ ~ \E f \in dropped : Triple(f) = Triple(req)
        /\ SchemaForPlan(facts, plan, req.a, "fgraph/unique") = "true" =>
              ~ \E w \in rest : w.a = req.a /\ w.v = req.v /\ w.e # req.e
        /\ working' = rest \cup {Asserted(cursor + 1)}
        /\ dropped' = dropped \cup Rows(Displaced(req))
        /\ inserted' = inserted \cup {cursor + 1}
        /\ canceled' = canceled

DiffStep ==
    /\ phase = "diff"
    /\ cursor < Len(plan)
    /\ \/ DiffRetract(plan[cursor + 1])
       \/ DiffAssertPresent(plan[cursor + 1])
       \/ DiffAssertRestore(plan[cursor + 1])
       \/ DiffAssertNew(plan[cursor + 1])
    /\ cursor' = cursor + 1
    /\ UNCHANGED <<store, phase, planning>>

-----------------------------------------------------------------------------
(* Writing the diff and the event, then COMMIT. *)

Final == inserted \ canceled

NewRows(tx) ==
    {Row(plan[i], tx, Cardinality({j \in Final : j <= i})) : i \in Final}

(* Retractions go by id, and each reads the history policy from what the
   earlier ones and the insertions left. *)
DeletesHistory(f, fresh) ==
    SchemaFor((facts \cup fresh) \ {d \in dropped : Before(d, f)},
              f.a, "fgraph/nohistory") = "true"

Kept_Nothing(fresh) == {}

Kept(fresh) == {d \in dropped : ~DeletesHistory(d, fresh)}

AuditRow(tx, attr, target) == Row([e |-> tx, a |-> attr, v |-> target], tx, 0)

UndoAudit(tx) == IF undoes = Null THEN {} ELSE {AuditRow(tx, "fgraph/undoes", undoes)}

Diffed == phase = "diff" /\ cursor = Len(plan)

(* validateTouchedShapes, once the rows are written. *)
ShapesValid(rows) == ShapeIssues(rows, Touched(plan, rows)) = {}

Commit ==
    LET tx == Basis + 1
        fresh == NewRows(tx)
        kept == Kept(fresh)
        after == (facts \ dropped) \cup fresh \cup UndoAudit(tx)
                 \cup {[d EXCEPT !.rx = tx] : d \in kept}
    IN  /\ Diffed
        /\ Final # {} \/ dropped # {} \/ undoes # Null
        /\ tx <= load.maxTx
        /\ ShapesValid(after)
        /\ facts' = after
        /\ prior' = facts
        /\ events' = Append(events, Event(Triples(fresh), Triples(kept), {}, None))
        /\ Discard

(* A plan that changes nothing allocates nothing and records no event. *)
Noop ==
    /\ Diffed
    /\ Final = {} /\ dropped = {} /\ undoes = Null
    /\ Discard
    /\ UNCHANGED store

-----------------------------------------------------------------------------
(* Excise removes every row that mentions the entity, past ones included,
   and the payload of every event that wrote such a row or names it. *)
ExcisedRows(x) == {f \in facts : Mentions(f, x)}

NamingEvents_Ignored(x) == {}

NamingEvents(x) ==
    {t \in 1..Basis : \E k \in events[t].asserted \cup events[t].retracted : Mentions(k, x)}

Excise(x) ==
    LET tx == Basis + 1
        gone == ExcisedRows(x)
        redacts == {f.tx : f \in gone} \cup ({f.rx : f \in gone} \ {Null})
                   \cup NamingEvents(x)
    IN  /\ phase = "idle" /\ load.audits
        /\ tx <= load.maxTx
        /\ facts' = (facts \ gone) \cup {AuditRow(tx, "fgraph/excised", x)}
        /\ events' = Append([t \in 1..Basis |-> IF t \in redacts THEN Redacted(events[t])
                                                ELSE events[t]],
                            Event({}, {}, redacts, x))
        /\ prior' = facts
        /\ UNCHANGED <<phase, planning, diffing>>

Next ==
    \/ Begin
    \/ \E t \in 1..load.maxTx : BeginUndo(t)
    \/ \E c \in load.calls : BeginCall(c)
    \/ \E i \in DOMAIN groups : PlanCall(i)
    \/ \E in \in load.ops : PlanRequest(in)
    \/ \E f \in todo : PlanUndo(f)
    \/ Validate
    \/ DiffStep
    \/ Commit
    \/ Noop
    \/ Abort
    \/ \E x \in Ref : Excise(x)

Spec == Init /\ [][Next]_vars

-----------------------------------------------------------------------------
(* Properties.                                                             *)

DomainRow == [e : Ref, a : UserAttr, v : Value, tx : 1..Basis, ord : Nat, rx : 0..Basis]
ExcisionRow == [e : 1..Basis, a : {"fgraph/excised"}, v : Ref,
                tx : 1..Basis, ord : {0}, rx : {Null}]
UndoRow == [e : 1..Basis, a : {"fgraph/undoes"}, v : 1..Basis,
            tx : 1..Basis, ord : {0}, rx : {Null}]
EventSet == [asserted : SUBSET [e : Ref, a : UserAttr, v : Value],
             retracted : SUBSET [e : Ref, a : UserAttr, v : Value],
             redacts : SUBSET (1..Basis), excises : Ref \cup {None}, retained : BOOLEAN]

(* Shapes of the state; every tx and rx of a row is a recorded event, a row
   ends after it began (CHECK rx > tx of fgraph_facts), and no entity/
   attribute/value is live twice: the insertions diffPlan emits never meet a
   live row, so the unique index fgraph_eavt never rejects a transaction that
   passed the diff. *)
TypeOK ==
    /\ \A f \in facts : CASE f.a = "fgraph/excised" -> f \in ExcisionRow
                         [] f.a = "fgraph/undoes" -> f \in UndoRow
                         [] OTHER -> f \in DomainRow /\ (f.rx # Null => f.rx > f.tx)
    /\ \A t \in DOMAIN events : events[t] \in EventSet
    /\ phase \in {"idle", "plan", "diff"}
    /\ cursor \in 0..Len(plan)
    /\ dropped \subseteq Live(facts)
    /\ inserted \subseteq 1..cursor /\ canceled \subseteq inserted
    /\ phase = "idle" => \A f, g \in Live(facts) : Triple(f) = Triple(g) => f = g

(* What is written equals what was validated: at every point of the diff
   loop, the live rows minus the retractions plus the surviving insertions
   are exactly the working set plus the rows that were never loaded. *)
DiffExact ==
    phase = "diff" =>
        Triples(Domain(Live(facts)) \ dropped) \cup {Triple(plan[i]) : i \in Final}
            = Triples(working) \cup Triples(Domain(Live(facts)) \ WorkingFactsForPlan)

(* Attributes whose rows were never subject to deletion. *)
Historic(rows, a) ==
    ~ \E f \in rows : f.a = "fgraph/nohistory" /\ f.e = a /\ f.v = "true"

HistoricTriples(rows) == {k \in Triples(Domain(rows)) : Historic(facts, k.a)}

(* Replaying the payloads up to t: asserted and not retracted since. *)
Replay(t) ==
    {k \in UNION {events[s].asserted : s \in 1..t} :
        \E s \in 1..t : /\ k \in events[s].asserted
                        /\ \A r \in s..t : k \notin events[r].retracted}

(* The event log and the rows tell the same story: while nothing has been
   redacted, replaying the payloads up to any transaction gives the view
   the rows give as of that transaction. *)
TimeTravelMatchesLog ==
    phase = "idle" /\ (\A t \in DOMAIN events : events[t].retained) =>
        \A t \in 1..Basis :
            {k \in Replay(t) : Historic(facts, k.a)} = HistoricTriples(AsOf(facts, t))

(* The payloads can be replayed: a value they assert, never retract and never
   replace is live (python/README.md:108: payloads are kept for transactions
   on nohistory values too, "so tailing and restore remain replayable").  This
   is false: the retraction of such a value is in no payload. *)
PayloadsReplay ==
    phase = "idle" /\ (\A t \in DOMAIN events : events[t].retained) =>
        \A s \in 1..Basis : \A k \in events[s].asserted :
            (\A r \in s..Basis :
                /\ k \notin events[r].retracted
                /\ \A j \in events[r].asserted : j.e = k.e /\ j.a = k.a => j.v = k.v)
            => k \in Triples(Live(facts))

(* An excision is complete: no row and no retained payload from before it
   mentions the entity. *)
ExciseErases ==
    phase = "idle" => \A t \in DOMAIN events :
        LET x == events[t].excises
        IN  x # None =>
            /\ \A f \in facts : f.tx < t => ~Mentions(f, x)
            /\ \A s \in 1..(t - 1) :
                  \A k \in events[s].asserted \cup events[s].retracted : ~Mentions(k, x)

(* A payload is missing only where a retained excision event that still has
   its fgraph/excised marker says so. *)
Audited(t) ==
    \E s \in DOMAIN events :
        /\ events[s].retained /\ t \in events[s].redacts
        /\ \E f \in Live(facts) : f.e = s /\ f.a = "fgraph/excised"

RedactionAudited == \A t \in DOMAIN events : events[t].retained \/ Audited(t)

(* The same, as long as no entity is excised a second time. *)
RedactionAuditedOnce ==
    (\A s, t \in DOMAIN events :
        events[s].excises = events[t].excises /\ events[s].excises # None => s = t)
    => RedactionAudited

(* An excision takes everything and leaves its mark: what it erased is gone
   for good, and every gap in the log is accounted for by a redaction event. *)
ExcisionComplete == ExciseErases /\ RedactionAuditedOnce

(* Cardinality and uniqueness of the live rows. *)
OneEach(rows, a) ==
    \A f, g \in Live(rows) : f.a = a /\ g.a = a /\ f.e = g.e => f.v = g.v
OneOwner(rows, a) ==
    \A f, g \in Live(rows) : f.a = a /\ g.a = a /\ f.v = g.v => f.e = g.e

(* No transaction, whatever order its operations come in, leaves several
   values in a cell of an attribute that was and stays cardinality one. *)
CardinalityKept ==
    [][facts' # facts => \A a \in Attr :
          /\ SchemaFor(facts, a, "fgraph/many") # "true"
          /\ SchemaFor(facts', a, "fgraph/many") # "true"
          /\ OneEach(facts, a)
          => OneEach(facts', a)]_vars

(* A transaction that asserts no value it found live keeps every unique
   attribute's values with one owner each. *)
UniqueKept ==
    [][facts' # facts => \A a \in Attr :
          /\ SchemaFor(facts, a, "fgraph/unique") = "true"
          /\ OneOwner(facts, a)
          /\ SchemaFor(facts', a, "fgraph/unique") = "true"
          /\ \A i \in DOMAIN plan : plan[i].op = "assert" =>
                 Triple(plan[i]) \notin Triples(Live(facts))
          => OneOwner(facts', a)]_vars

(* The same of every transaction, whatever it asserts (spec.md:245: the "final
   working set must satisfy type, dimensions, cardinality, uniqueness, and
   shape rules regardless of input order").  This is false. *)
UniqueInAnyOrder ==
    [][facts' # facts => \A a \in Attr :
          /\ SchemaFor(facts, a, "fgraph/unique") = "true"
          /\ OneOwner(facts, a)
          /\ SchemaFor(facts', a, "fgraph/unique") = "true"
          => OneOwner(facts', a)]_vars

(* A transaction keeps the constraints its attributes declare, cardinality and
   uniqueness, whatever order its operations come in. *)
ConstraintsKept == CardinalityKept /\ UniqueKept

(* The past is immutable: no step changes what a view as of a recorded
   transaction shows of attributes that keep history, except that an
   excision removes what mentions its entity. *)
NewExcision == IF Len(events') > Len(events) THEN events'[Len(events')].excises ELSE None
PastKept(rows, t) ==
    {k \in Triples(Domain(AsOf(rows, t))) :
        Historic(facts, k.a) /\ Historic(facts', k.a) /\ ~Mentions(k, NewExcision)}
HistoryImmutable ==
    [][facts' # facts =>
          \A t \in 1..Basis : PastKept(facts', t) = PastKept(facts, t)]_vars

(* Whether the cells of an attribute are as their declaration asks: a request
   that only repeats one of several values while it turns fgraph/many off
   leaves them otherwise. *)
Respects(rows, a) == SchemaFor(rows, a, "fgraph/many") = "true" \/ OneEach(rows, a)

(* What the latest transaction destroyed: the values it replaced or retracted
   of an attribute that was nohistory when it began or is since, and what
   mentions the entity it excised. *)
Destroyed(k) ==
    \/ ~Historic(Live(prior) \cup Live(facts), k.a)
    \/ events[Basis].excises # None /\ Mentions(k, events[Basis].excises)

(* Undoing the latest transaction, when it commits, leaves no fact live that
   was not live before that transaction, and makes every fact live again that
   was, in cells that were then as declared, except what the transaction
   destroyed: Undo reads the rows there are (temporal.go:402), and a nohistory
   row or an excised one is gone. *)
UndoRestores ==
    [][Len(events') > Len(events) /\ undoes = Basis =>
          LET before == Live(prior)
              after == Triples(Domain(Live(facts')))
          IN  /\ after \subseteq Triples(Domain(before))
              /\ \A k \in Triples(Domain(before)) :
                    Respects(before, k.a) /\ ~Destroyed(k) => k \in after]_vars

(* Undoing an older transaction retracts a fact asserted since only to put
   back another value of the same cell. *)
UndoKeepsLater ==
    [][Len(events') > Len(events) /\ undoes # Null =>
          \A f \in Live(facts) : f.tx > undoes /\ f \notin facts' =>
              \E g \in Live(facts') : /\ g.tx = Len(events')
                                      /\ g.e = f.e /\ g.a = f.a /\ g.v # f.v]_vars

(* Undo restores what its transaction changed and did not destroy, and takes
   away nothing newer without a replacement. *)
UndoExact == UndoRestores /\ UndoKeepsLater

(* Once a whole-entity retraction commits and no later operation of the
   request names the entity, nothing live mentions it. *)
RetractedEntityGone ==
    [][Len(events') > Len(events) =>
          \A j \in DOMAIN plan :
              /\ plan[j].op = "retract" /\ plan[j].a = None
              /\ \A i \in DOMAIN plan : i > j /\ plan[i].op = "assert" =>
                    plan[i].e # plan[j].e /\ plan[i].v # plan[j].e
              => \A f \in Domain(Live(facts')) : f.e # plan[j].e /\ f.v # plan[j].e]_vars

(* The values of a swapped cell after a step. *)
CellAfter(c) == {f.v : f \in {f \in Live(facts') : f.e = c.e /\ f.a = c.a}}

(* A committed compare-and-swap leaves exactly the desired value, whatever else
   the request does (spec.md:201: "another operation touching the same
   entity/attribute in one transaction fails atomically").  This is false. *)
CasWins ==
    [][Len(events') > Len(events) =>
          \A c \in cas : CellAfter(c) = IF c.new = None THEN {} ELSE {c.new}]_vars

(* The same if that value is not a reference: the entity referred to may be
   retracted by the same request, which validateCASIsolation allows. *)
CasWinsScalar ==
    [][Len(events') > Len(events) =>
          \A c \in cas : c.new \notin Ref =>
              CellAfter(c) = IF c.new = None THEN {} ELSE {c.new}]_vars

(* What a committed request demands holds afterwards: swaps have won and
   retracted entities are gone, whatever else the request does. *)
RequestsTakeEffect == CasWinsScalar /\ RetractedEntityGone

-----------------------------------------------------------------------------
(* Schema calls and shapes. *)

(* The live rows once the diff is written. *)
Result == (Domain(Live(facts)) \ dropped) \cup NewRows(Basis + 1)

(* A schema call that gets to its commit installs what it was asked for and, if
   it is a manifest, nothing else: whatever the store declared before. *)
SchemaInstalled ==
    Diffed /\ call # None =>
        CASE call.kind = "declare" ->
                 \A flag \in SchemaAttr : call.patch[flag] # "unset" =>
                     SchemaFor(Result, call.attr, flag) = call.patch[flag]
          [] call.kind = "shape" ->
                 ReadShape(Result, call.shape) = Normalized(call.definition)
          [] call.kind = "manifest" ->
                 ManifestOf(Result) = NormalizeSchemaManifest(call.manifest)

(* Every member fits its shape (spec.md:272: transactions fail "instead of
   committing an invalid final state"). *)
ShapesHold == ShapeIssues(facts, {}) = {}

(* A transaction that commits leaves every member in its shape. *)
MembersFit ==
    [][Len(events') > Len(events) /\ NewExcision = None /\ ShapesHold => ShapesHold']_vars

(* A transaction keeps every member in its shape, whether it changes the
   member or the shape, unless it retracts a whole entity that others refer
   to. *)
ShapesKept ==
    [][/\ Len(events') > Len(events) /\ NewExcision = None
       /\ ShapesHold
       /\ \A i \in DOMAIN plan : plan[i].op = "retract" /\ plan[i].a = None =>
              \A f \in Live(facts) : f.v = plan[i].e => f.a = "fgraph/shape"
       => ShapesHold']_vars
=============================================================================
