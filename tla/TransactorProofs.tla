-------------------------- MODULE TransactorProofs --------------------------
(***************************************************************************)
(* Proofs about the writer transaction: what the diff loop leaves is what  *)
(* was validated, the past is immutable, the event log and the rows tell   *)
(* the same story, and an excision is complete and audited; constraints    *)
(* hold after every commit, members stay in shape, undo is exact and       *)
(* schema calls install what they were asked for.                          *)
(***************************************************************************)
EXTENDS Transactor, FiniteSetTheorems, WellFoundedInduction, TLAPS

(* The invariant, part by part.  Rows, plans and events by type. *)
TripleSet == [e : Ref, a : UserAttr, v : Value]
AssertOp == [op : {"assert"}, e : Ref, a : UserAttr, v : Value, cas : BOOLEAN]
RetractOp == [op : {"retract"}, e : Ref, a : UserAttr \cup {None},
              v : Value \cup {None}, cas : BOOLEAN]
PlanOp == AssertOp \cup RetractOp
PlainOp == {op \in PlanOp : ~op.cas}
CasSet == [e : Ref, a : UserAttr, new : Value \cup {None}]

FactRow(n) == [e : Ref, a : UserAttr, v : Value, tx : 1..n, ord : Nat, rx : 0..n]
MarkRow(n) == [e : 1..n, a : {"fgraph/excised"}, v : Ref, tx : 1..n, ord : {0}, rx : {Null}]
UndoneRow(n) == [e : 1..n, a : {"fgraph/undoes"}, v : 1..n, tx : 1..n, ord : {0}, rx : {Null}]

RowOK(f, n) ==
    \/ f \in FactRow(n) /\ (f.rx # Null => f.rx > f.tx)
    \/ f \in MarkRow(n) /\ f.tx = f.e
    \/ f \in UndoneRow(n) /\ f.tx = f.e

RowsOK == \A f \in facts : RowOK(f, Basis)

(* Positions within a transaction are bounded, so that of any rows there is
   one with the highest id. *)
OrdsOK == \E b \in Nat : \A f \in facts : f.ord <= b

LiveUnique == \A f, g \in Live(facts) : Triple(f) = Triple(g) => f = g

EventRecord == [asserted : SUBSET TripleSet, retracted : SUBSET TripleSet,
                redacts : SUBSET Nat, excises : Ref \cup {None}, retained : BOOLEAN]

EventsOK ==
    /\ events \in Seq(EventRecord) /\ Basis >= 1
    /\ \A t \in 1..Basis : events[t].redacts \subseteq 1..(t - 1)

PlanOK ==
    /\ load \in Workloads
    /\ plan \in Seq(PlanOp)
    /\ groups \in Seq(SUBSET PlainOp)
    /\ undoes \in 0..Basis
    /\ todo \subseteq Domain(facts)
    /\ phase \in {"idle", "plan", "diff"}
    /\ phase = "idle" => /\ plan = <<>> /\ cas = {} /\ call = None /\ groups = <<>>
                         /\ undoes = Null /\ todo = {}
    /\ cursor \in 0..Len(plan)
    /\ phase # "diff" => /\ cursor = 0 /\ working = {} /\ dropped = {}
                         /\ inserted = {} /\ canceled = {}

(* The diff loop: the working set holds the loaded rows that are not dropped
   and the assertions that are not canceled, no triple twice, and no
   surviving assertion repeats a dropped row. *)
DiffOK ==
    phase = "diff" =>
        /\ dropped \subseteq WorkingFactsForPlan
        /\ inserted \subseteq {i \in 1..cursor : plan[i].op = "assert"}
        /\ canceled \subseteq inserted
        /\ \A w \in working : \/ \E f \in WorkingFactsForPlan \ dropped : w = Stored(f)
                              \/ \E i \in Final : w = Asserted(i)
        /\ \A f \in WorkingFactsForPlan \ dropped : Stored(f) \in working
        /\ \A i \in Final : Asserted(i) \in working
        /\ \A w, x \in working : Triple(w) = Triple(x) => w = x
        /\ \A i \in Final, f \in dropped : Triple(plan[i]) # Triple(f)

(* An excision event has no payload, its transaction wrote nothing but its
   marker, and a marker names its transaction and entity. *)
ExcisionsOK ==
    /\ \A s \in 1..Basis : events[s].redacts # {} => events[s].excises # None
    /\ \A s \in 1..Basis : events[s].excises # None =>
          /\ events[s].asserted = {} /\ events[s].retracted = {}
          /\ \A f \in facts : f.rx # s /\ (f.tx = s => f.a = "fgraph/excised")
    /\ \A f \in facts : f.a = "fgraph/excised" => events[f.tx].excises = f.v

Erased ==
    \A t \in 1..Basis : events[t].excises # None =>
        /\ \A f \in facts : f.tx < t => ~Mentions(f, events[t].excises)
        /\ \A s \in 1..(t - 1) :
              \A k \in events[s].asserted \cup events[s].retracted :
                  ~Mentions(k, events[t].excises)

LogMatches ==
    (\A t \in 1..Basis : events[t].retained) =>
        \A t \in 1..Basis :
            {k \in Replay(t) : Historic(facts, k.a)} = HistoricTriples(AsOf(facts, t))

StoreOK == EventsOK /\ RowsOK /\ OrdsOK /\ LiveUnique

IInv == StoreOK /\ PlanOK /\ DiffOK
AuditInv == ExcisionsOK /\ Erased /\ RedactionAuditedOnce

-----------------------------------------------------------------------------
(* Names: system attributes, references and transactions are told apart. *)
LEMMA UserAttrs ==
    ASSUME NEW a \in UserAttr
    PROVE  a # None /\ a \notin AuditAttr
<1>1. CASE a \in Attr
  BY <1>1, NamesAssumption, NoneAssumption DEF Ref
<1>2. CASE a \in SchemaAttr \cup ShapeAttr
  BY <1>2, NamesAssumption DEF SchemaAttr, Flags, ShapeAttr, DefinitionAttr, AuditAttr
<1> QED  BY <1>1, <1>2 DEF UserAttr

LEMMA References ==
    ASSUME NEW x \in Ref
    PROVE  x # None /\ x \notin Nat /\ x \notin AuditAttr /\ x \in Value /\ x \notin SchemaAttr
BY NamesAssumption, NoneAssumption DEF Ref, Value

(* A row's parts, by the kind of its attribute. *)
LEMMA DomainRows ==
    ASSUME NEW n \in Nat, NEW f, RowOK(f, n), f.a \notin AuditAttr
    PROVE  f \in FactRow(n) /\ (f.rx # Null => f.rx > f.tx) /\ Triple(f) \in TripleSet
<1>1. f \in FactRow(n) /\ (f.rx # Null => f.rx > f.tx)
  BY DEF RowOK, MarkRow, UndoneRow, AuditAttr
<1> QED  BY <1>1 DEF FactRow, Triple, TripleSet

LEMMA WorkloadTyped ==
    ASSUME load \in Workloads
    PROVE  /\ load.seed \in Seq(TripleSet)
           /\ \A i, j \in DOMAIN load.seed : load.seed[i] = load.seed[j] => i = j
           /\ load.ops \subseteq AssertInput \cup RetractInput \cup CasInput
           /\ load.calls \subseteq DeclareCall \cup ShapeCall \cup ManifestCall
           /\ load.maxTx \in Nat
BY WorkloadsAssumption DEF Workload, TripleSet

(* Sequences of a type. *)
LEMMA SeqTyped ==
    ASSUME NEW S, NEW s \in Seq(S), NEW x \in S
    PROVE  /\ <<>> \in Seq(S) /\ <<x>> \in Seq(S)
           /\ Append(s, x) \in Seq(S) /\ Len(Append(s, x)) = Len(s) + 1
OBVIOUS

(* Plan t is plan s and one operation more. *)
OneMore(s, x, t) ==
    /\ t \in Seq(PlanOp) /\ Len(t) = Len(s) + 1 /\ t[Len(s) + 1] = x
    /\ \A i \in 1..Len(s) : t[i] = s[i]

LEMMA ConcatTyped ==
    ASSUME NEW s \in Seq(PlanOp), NEW x \in PlanOp
    PROVE  s \o <<>> = s /\ OneMore(s, x, s \o <<x>>)
BY DEF OneMore

LEMMA PairTyped ==
    ASSUME NEW S, NEW x \in S, NEW y \in S
    PROVE  /\ <<x, y>> \in Seq(S) /\ Len(<<x, y>>) = 2
           /\ <<x, y>>[1] = x /\ <<x, y>>[2] = y
OBVIOUS

-----------------------------------------------------------------------------
(* A schema call plans well-formed operations. *)
LEMMA DefineShapeTyped ==
    ASSUME NEW s \in Ent, NEW shape \in ShapeSet
    PROVE  DefineShape(s, shape) \subseteq PlainOp
<1>1. CASE shape = NoShape
  BY <1>1 DEF DefineShape
<1>2. CASE shape # NoShape
  <2>1. /\ shape.required \subseteq Attr /\ shape.allowed \subseteq Attr
        /\ shape.closed \in {"true", "false"}
    BY <1>2 DEF ShapeSet
  <2>2. /\ Op("assert", s, "fgraph/shape-closed", shape.closed) \in PlainOp
        /\ \A a \in Attr : /\ Op("assert", s, "fgraph/shape-required", a) \in PlainOp
                           /\ Op("assert", s, "fgraph/shape-allowed", a) \in PlainOp
    BY <2>1 DEF Op, PlainOp, PlanOp, AssertOp, Ref, UserAttr, ShapeAttr, DefinitionAttr, Value, Setting
  <2> QED  BY <1>2, <2>1, <2>2 DEF DefineShape
<1> QED  BY <1>1, <1>2

LEMMA NormalizedTyped ==
    ASSUME NEW shape \in ShapeSet
    PROVE  Normalized(shape) \in ShapeSet
<1>1. CASE shape.closed # "true"
  BY <1>1 DEF Normalized
<1>2. CASE shape.closed = "true"
  <2>1. shape \in [required : SUBSET Attr, allowed : SUBSET Attr, closed : {"true", "false"}]
    BY <1>2 DEF ShapeSet, NoShape
  <2> QED  BY <1>2, <2>1 DEF Normalized, ShapeSet
<1> QED  BY <1>1, <1>2

LEMMA RetractCellsTyped ==
    ASSUME NEW e \in Ref, NEW attrs \in SUBSET UserAttr
    PROVE  RetractCells(e, attrs) \subseteq PlainOp
<1>1. \A a \in attrs : Op("retract", e, a, None) \in PlainOp
  BY DEF Op, PlainOp, PlanOp, RetractOp
<1> QED  BY <1>1 DEF RetractCells

LEMMA InstallTyped ==
    ASSUME NEW attrs \in SUBSET Attr, NEW shapes \in SUBSET Ent, NEW m \in Manifest
    PROVE  Install(attrs, shapes, m) \in Seq(SUBSET PlainOp)
<1> DEFINE declare(a) == {Op("assert", a, flag, m.declared[a][flag]) :
                             flag \in {flag \in SchemaAttr : m.declared[a][flag] # "unset"}}
<1>1. UNION {RetractCells(a, SchemaAttr) : a \in attrs} \subseteq PlainOp
  BY RetractCellsTyped DEF Ref, UserAttr
<1>2. UNION {RetractCells(s, DefinitionAttr) : s \in shapes} \subseteq PlainOp
  BY RetractCellsTyped DEF Ref, UserAttr, ShapeAttr
<1>3. \A a \in attrs : declare(a) \subseteq PlainOp
  <2> SUFFICES ASSUME NEW a \in attrs, NEW flag \in SchemaAttr, m.declared[a][flag] # "unset"
               PROVE  Op("assert", a, flag, m.declared[a][flag]) \in PlainOp
    OBVIOUS
  <2>1. m.declared[a][flag] \in Setting
    BY DEF Manifest
  <2> QED  BY <2>1 DEF Op, PlainOp, PlanOp, AssertOp, Ref, UserAttr, Value
<1>4. UNION {declare(a) : a \in attrs} \subseteq PlainOp
  BY <1>3
<1>5. \A s \in shapes : DefineShape(s, m.shapes[s]) \subseteq PlainOp
  <2> TAKE s \in shapes
  <2>1. m.shapes[s] \in ShapeSet
    BY DEF Manifest
  <2> QED  BY <2>1, DefineShapeTyped
<1>6. UNION {DefineShape(s, m.shapes[s]) : s \in shapes} \subseteq PlainOp
  BY <1>5
<1> HIDE DEF declare
<1> DEFINE A == UNION {RetractCells(a, SchemaAttr) : a \in attrs}
           B == UNION {declare(a) : a \in attrs}
           C == UNION {RetractCells(s, DefinitionAttr) : s \in shapes}
           D == UNION {DefineShape(s, m.shapes[s]) : s \in shapes}
<1>7. Install(attrs, shapes, m) = <<A, B, C, D>>
  BY DEF Install, declare
<1>8. A \in SUBSET PlainOp /\ B \in SUBSET PlainOp /\ C \in SUBSET PlainOp /\ D \in SUBSET PlainOp
  BY <1>1, <1>2, <1>4, <1>6
<1> HIDE DEF A, B, C, D
<1> QED  BY <1>7, <1>8

LEMMA CallPlanTyped ==
    ASSUME NEW c \in DeclareCall \cup ShapeCall \cup ManifestCall
    PROVE  CallPlan(c) \in Seq(SUBSET PlainOp)
<1>1. CASE c \in DeclareCall
  <2> DEFINE A == {Op("assert", c.attr, flag, c.patch[flag]) :
                      flag \in {flag \in SchemaAttr : c.patch[flag] # "unset"}}
  <2>1. CallPlan(c) = <<A>>
    BY <1>1 DEF CallPlan, DeclareCall, DeclareOperations
  <2>2. \A flag \in SchemaAttr : c.patch[flag] # "unset" =>
           Op("assert", c.attr, flag, c.patch[flag]) \in PlainOp
    BY <1>1 DEF DeclareCall, Op, PlainOp, PlanOp, AssertOp, Ref, UserAttr, Value
  <2>3. A \in SUBSET PlainOp
    BY <2>2
  <2> HIDE DEF A
  <2> QED  BY <2>1, <2>3
<1>2. CASE c \in ShapeCall
  <2> DEFINE A == RetractCells(c.shape, DefinitionAttr)
             B == DefineShape(c.shape, Normalized(c.definition))
  <2>1. CallPlan(c) = <<A, B>>
    BY <1>2 DEF CallPlan, ShapeCall, ShapeOperations
  <2>2. c.shape \in Ent /\ c.definition \in ShapeSet
    BY <1>2 DEF ShapeCall
  <2>3. A \in SUBSET PlainOp /\ B \in SUBSET PlainOp
    BY <2>2, RetractCellsTyped, DefineShapeTyped, NormalizedTyped
       DEF Ref, UserAttr, ShapeAttr
  <2> HIDE DEF A, B
  <2> QED  BY <2>1, <2>3
<1>3. CASE c \in ManifestCall
  <2> DEFINE m == NormalizeSchemaManifest(c.manifest)
  <2>1. m \in Manifest
    <3>1. c.manifest \in Manifest /\ \A s \in Ent : c.manifest.shapes[s] \in ShapeSet
      BY <1>3 DEF ManifestCall, Manifest
    <3>2. [s \in Ent |-> Normalized(c.manifest.shapes[s])] \in [Ent -> ShapeSet]
      BY <3>1, NormalizedTyped
    <3> QED  BY <3>1, <3>2 DEF NormalizeSchemaManifest, Manifest
  <2>2. CallPlan(c) = SchemaReplacementOperations(ManifestOf(facts), m)
    BY <1>3 DEF CallPlan, ManifestCall
  <2> HIDE DEF m
  <2> QED  BY <2>1, <2>2, InstallTyped DEF SchemaReplacementOperations
<1> QED  BY <1>1, <1>2, <1>3

-----------------------------------------------------------------------------
(* The initial store. *)
LEMMA InitIInv == Init => IInv
<1> SUFFICES ASSUME Init PROVE IInv
  OBVIOUS
<1>0. /\ load \in Workloads /\ load.seed \in Seq(TripleSet)
      /\ \A i, j \in DOMAIN load.seed : load.seed[i] = load.seed[j] => i = j
  BY WorkloadTyped DEF Init
<1> DEFINE T == {load.seed[i] : i \in DOMAIN load.seed}
<1>1. T \in SUBSET TripleSet /\ \A i \in DOMAIN load.seed : load.seed[i] \in TripleSet
  BY <1>0
<1>2. /\ events = <<Event({}, {}, {}, None), Event(T, {}, {}, None)>>
      /\ Event({}, {}, {}, None) \in EventRecord /\ Event(T, {}, {}, None) \in EventRecord
  BY <1>1 DEF Init, Event, EventRecord
<1> HIDE DEF T
<1>3. Basis = 2 /\ events \in Seq(EventRecord) /\ events[1].redacts = {} /\ events[2].redacts = {}
  <2>1. events \in Seq(EventRecord) /\ Len(events) = 2
        /\ events[1] = Event({}, {}, {}, None) /\ events[2] = Event(T, {}, {}, None)
    BY <1>2, PairTyped
  <2> QED  BY <2>1 DEF Basis, Event
<1>4. EventsOK
  BY <1>3 DEF EventsOK
<1>5. ASSUME NEW f \in facts
      PROVE  \E i \in DOMAIN load.seed : f = Row(load.seed[i], 2, i)
  BY DEF Init, Genesis
<1>6. ASSUME NEW i \in DOMAIN load.seed
      PROVE  /\ Row(load.seed[i], 2, i) \in FactRow(2) /\ Row(load.seed[i], 2, i).rx = Null
             /\ Triple(Row(load.seed[i], 2, i)) = load.seed[i]
             /\ i <= Len(load.seed)
  <2>1. load.seed[i] \in TripleSet /\ i \in Nat /\ i <= Len(load.seed)
    BY <1>0, <1>1
  <2> QED  BY <2>1 DEF Row, FactRow, TripleSet, Triple, Null
<1>7. RowsOK
  BY <1>3, <1>5, <1>6 DEF RowsOK, RowOK
<1>8. OrdsOK
  <2>1. Len(load.seed) \in Nat
    BY <1>0
  <2>2. \A f \in facts : f.ord <= Len(load.seed)
    BY <1>5, <1>6 DEF Row
  <2> QED  BY <2>1, <2>2 DEF OrdsOK
<1>9. LiveUnique
  BY <1>0, <1>5, <1>6 DEF LiveUnique, Live
<1>10. PlanOK
  BY <1>0, <1>3 DEF Init, PlanOK, Null
<1>11. DiffOK
  BY DEF DiffOK, Init
<1> QED  BY <1>4, <1>7, <1>8, <1>9, <1>10, <1>11 DEF IInv, StoreOK

-----------------------------------------------------------------------------
(* Steps that leave the store alone. *)
LEMMA StoreUnchanged ==
    ASSUME StoreOK, UNCHANGED store
    PROVE  StoreOK'
BY DEF StoreOK, store, EventsOK, RowsOK, OrdsOK, LiveUnique, Basis, Live

LEMMA BeginIInv == IInv /\ Begin => IInv'
<1> SUFFICES ASSUME IInv, Begin PROVE IInv'
  OBVIOUS
<1>1. StoreOK'
  BY StoreUnchanged DEF IInv, Begin
<1>2. PlanOK'
  BY DEF IInv, Begin, PlanOK, planning, diffing, store, Basis
<1> QED  BY <1>1, <1>2 DEF IInv, DiffOK, Begin

LEMMA BeginUndoIInv ==
    ASSUME NEW t, IInv, BeginUndo(t)
    PROVE  IInv'
<1>1. StoreOK'
  BY StoreUnchanged DEF IInv, BeginUndo
<1>2. UndoRows(t) \subseteq Domain(facts)
  <2> SUFFICES ASSUME NEW f \in UndoRows(t) PROVE f \in Domain(facts)
    OBVIOUS
  <2>1. RowOK(f, Basis) /\ f \in facts /\ t # Null
    BY DEF IInv, StoreOK, RowsOK, BeginUndo, UndoRows, Genesis, Null
  <2>2. CASE f.a \notin AuditAttr
    BY <2>1, <2>2 DEF Domain
  <2>3. CASE f.rx = t
    <3>1. f \in FactRow(Basis)
      BY <2>1, <2>3 DEF RowOK, MarkRow, UndoneRow
    <3>2. f.a \in UserAttr
      BY <3>1 DEF FactRow
    <3> QED  BY <3>2, <2>1, UserAttrs DEF Domain
  <2> QED  BY <2>2, <2>3 DEF UndoRows
<1>3. t \in 0..Basis
  <2>1. Basis \in Nat /\ t \in 2..Basis
    BY DEF IInv, StoreOK, EventsOK, BeginUndo, Genesis, Basis
  <2> QED  BY <2>1
<1>4. PlanOK'
  BY <1>2, <1>3 DEF IInv, BeginUndo, PlanOK, diffing, store, Basis
<1> QED  BY <1>1, <1>4 DEF IInv, DiffOK, BeginUndo

LEMMA BeginCallIInv ==
    ASSUME NEW c \in load.calls, IInv, BeginCall(c)
    PROVE  IInv'
<1>1. StoreOK'
  BY StoreUnchanged DEF IInv, BeginCall
<1>2. CallPlan(c) \in Seq(SUBSET PlainOp)
  BY CallPlanTyped, WorkloadTyped DEF IInv, PlanOK
<1>3. PlanOK'
  BY <1>2 DEF IInv, BeginCall, PlanOK, diffing, store, Basis
<1> QED  BY <1>1, <1>3 DEF IInv, DiffOK, BeginCall

LEMMA PlanCallIInv ==
    ASSUME NEW i \in DOMAIN groups, IInv, PlanCall(i)
    PROVE  IInv'
<1>1. StoreOK'
  BY StoreUnchanged DEF IInv, PlanCall
<1> PICK op : op = CHOOSE o \in groups[i] : TRUE
  OBVIOUS
<1>2. op \in PlanOp
  BY DEF PlanCall, IInv, PlanOK, PlainOp
<1>3. groups' = [groups EXCEPT ![i] = @ \ {op}] /\ plan' = Append(plan, op)
  BY DEF PlanCall
<1>4. groups' \in Seq(SUBSET PlainOp) /\ plan' \in Seq(PlanOp) /\ cursor \in 0..Len(plan')
  BY <1>2, <1>3 DEF IInv, PlanOK
<1>5. PlanOK'
  BY <1>4 DEF IInv, PlanCall, PlanOK, diffing, store, Basis
<1> QED  BY <1>1, <1>5 DEF IInv, DiffOK, PlanCall

LEMMA PlanRequestIInv ==
    ASSUME NEW in \in load.ops, IInv, PlanRequest(in)
    PROVE  IInv'
<1>1. StoreOK'
  BY StoreUnchanged DEF IInv, PlanRequest
<1>2. in \in AssertInput \cup RetractInput \cup CasInput
  BY WorkloadTyped DEF IInv, PlanOK
<1>3. plan' \in Seq(PlanOp) /\ Len(plan') >= Len(plan)
  <2>0. plan \in Seq(PlanOp)
    BY DEF IInv, PlanOK
  <2>1. CASE PlanOperation(in)
    <3>1. Planned(in.op, in.e, in.a, in.v, FALSE) \in PlanOp
      BY <1>2, <2>1 DEF PlanOperation, AssertInput, RetractInput, CasInput, Planned,
                        PlanOp, AssertOp, RetractOp
    <3>2. plan' = Append(plan, Planned(in.op, in.e, in.a, in.v, FALSE))
      BY <2>0, <2>1 DEF PlanOperation
    <3>3. plan' \in Seq(PlanOp) /\ Len(plan') = Len(plan) + 1
      BY <2>0, <3>1, <3>2, SeqTyped
    <3> QED  BY <2>0, <3>3
  <2>2. CASE PlanCAS(in)
    <3> DEFINE r == IF {f \in Live(facts) : f.e = in.e /\ f.a = in.a} = {} THEN <<>>
                    ELSE <<Planned("retract", in.e, in.a, None, TRUE)>>
               s == IF in.new = None THEN <<>>
                    ELSE <<Planned("assert", in.e, in.a, in.new, TRUE)>>
    <3>1. in \in CasInput
      BY <1>2, <2>2 DEF PlanCAS, AssertInput, RetractInput, CasInput
    <3>2. Planned("retract", in.e, in.a, None, TRUE) \in PlanOp
      BY <3>1 DEF CasInput, Planned, PlanOp, RetractOp
    <3>3. in.new # None => Planned("assert", in.e, in.a, in.new, TRUE) \in PlanOp
      BY <3>1 DEF CasInput, Planned, PlanOp, AssertOp
    <3>4. r \in Seq(PlanOp) /\ s \in Seq(PlanOp)
      <4>1. r = <<>> \/ r = <<Planned("retract", in.e, in.a, None, TRUE)>>
        OBVIOUS
      <4>2. s = <<>> \/ (in.new # None /\ s = <<Planned("assert", in.e, in.a, in.new, TRUE)>>)
        OBVIOUS
      <4> HIDE DEF r, s
      <4> QED  BY <4>1, <4>2, <3>2, <3>3, <2>0, SeqTyped
    <3>5. plan' = plan \o r \o s
      BY <2>2 DEF PlanCAS
    <3> HIDE DEF r, s
    <3> QED  BY <2>0, <3>4, <3>5
  <2> QED  BY <2>1, <2>2 DEF PlanRequest
<1>4. PlanOK'
  BY <1>3 DEF IInv, PlanRequest, PlanOK, diffing, store, Basis
<1> QED  BY <1>1, <1>4 DEF IInv, DiffOK, PlanRequest

LEMMA PlanUndoIInv ==
    ASSUME NEW f \in todo, IInv, PlanUndo(f)
    PROVE  IInv'
<1>1. StoreOK'
  BY StoreUnchanged DEF IInv, PlanUndo
<1>2. f \in FactRow(Basis)
  <2>1. RowOK(f, Basis) /\ f.a \notin AuditAttr /\ Basis \in Nat
    BY DEF IInv, PlanOK, StoreOK, EventsOK, RowsOK, Domain, Basis
  <2> QED  BY <2>1, DomainRows
<1>3. PICK kind \in {"assert", "retract"} :
         plan' = Append(plan, Planned(kind, f.e, f.a, f.v, FALSE))
  BY DEF PlanUndo
<1>4. Planned(kind, f.e, f.a, f.v, FALSE) \in PlanOp
  BY <1>2 DEF FactRow, Planned, PlanOp, AssertOp, RetractOp
<1>5. plan' \in Seq(PlanOp) /\ Len(plan') = Len(plan) + 1
  BY <1>3, <1>4, SeqTyped DEF IInv, PlanOK
<1>6. plan' \in Seq(PlanOp) /\ cursor \in 0..Len(plan')
  BY <1>5 DEF IInv, PlanOK
<1>7. PlanOK'
  BY <1>6 DEF IInv, PlanUndo, PlanOK, diffing, store, Basis
<1> QED  BY <1>1, <1>7 DEF IInv, DiffOK, PlanUndo

LEMMA DiscardOK ==
    ASSUME PlanOK, EventsOK', Discard
    PROVE  PlanOK' /\ DiffOK'
<1>1. events' \in Seq(EventRecord)
  BY DEF EventsOK
<1> QED  BY <1>1 DEF PlanOK, Discard, Basis, Null, DiffOK

-----------------------------------------------------------------------------
(* The diff loop. *)
LEMMA WorkingRows ==
    /\ WorkingFactsForPlan \subseteq Domain(Live(facts))
    /\ \A f \in Domain(Live(facts)), i \in DOMAIN plan :
          f.e = plan[i].e => f \in WorkingFactsForPlan
    /\ \A f \in Domain(Live(facts)), i \in DOMAIN plan :
          plan[i].op = "retract" /\ plan[i].a = None /\ f.v = plan[i].e
          => f \in WorkingFactsForPlan
BY DEF WorkingFactsForPlan

LEMMA WorkingUnchanged ==
    ASSUME facts' = facts, plan' = plan
    PROVE  WorkingFactsForPlan' = WorkingFactsForPlan
BY DEF WorkingFactsForPlan

LEMMA Entries ==
    /\ \A f : /\ Stored(f).ord = 0 /\ Stored(f).raw = f
              /\ Triple(Stored(f)) = Triple(f)
              /\ Stored(f).e = f.e /\ Stored(f).a = f.a /\ Stored(f).v = f.v
    /\ \A i : /\ Asserted(i).ord = i /\ Triple(Asserted(i)) = Triple(plan[i])
              /\ Asserted(i).e = plan[i].e /\ Asserted(i).a = plan[i].a
              /\ Asserted(i).v = plan[i].v
BY DEF Stored, Asserted, Triple

LEMMA ValidateIInv == IInv /\ Validate => IInv'
<1> SUFFICES ASSUME IInv, Validate PROVE IInv'
  OBVIOUS
<1>1. StoreOK'
  BY StoreUnchanged DEF IInv, Validate
<1>2. PlanOK'
  BY DEF IInv, Validate, PlanOK, planning, store, Basis
<1>3. /\ WorkingFactsForPlan' = WorkingFactsForPlan
      /\ cursor' = 0 /\ dropped' = {} /\ inserted' = {} /\ canceled' = {}
      /\ working' = {Stored(f) : f \in WorkingFactsForPlan}
  BY WorkingUnchanged DEF Validate, IInv, PlanOK, planning, store
<1>4. \A w, x \in working' : Triple(w) = Triple(x) => w = x
  <2> SUFFICES ASSUME NEW f \in WorkingFactsForPlan, NEW g \in WorkingFactsForPlan,
                      Triple(Stored(f)) = Triple(Stored(g))
               PROVE  Stored(f) = Stored(g)
    BY <1>3
  <2>1. Triple(f) = Triple(g)
    BY Entries
  <2>2. f \in Live(facts) /\ g \in Live(facts)
    BY WorkingRows DEF Domain
  <2> QED  BY <2>1, <2>2 DEF IInv, StoreOK, LiveUnique
<1>5. DiffOK'
  <2>1. Final' = {}
    BY <1>3 DEF Final
  <2> QED  BY <1>3, <1>4, <2>1 DEF DiffOK, Stored
<1> QED  BY <1>1, <1>2, <1>5 DEF IInv

(* What a step of the loop does to the parts of DiffOK: it takes the entries
   of gone out of the working set and puts back the rows of back and the
   assertions of more, which repeat no triple that stays. *)
LEMMA DiffMoves ==
    ASSUME IInv, phase = "diff", UNCHANGED <<store, phase, planning>>,
           cursor < Len(plan), cursor' = cursor + 1,
           NEW gone \in SUBSET working,
           NEW back \in SUBSET dropped,
           NEW more \in SUBSET {cursor + 1},
           more # {} => plan[cursor + 1].op = "assert",
           working' = (working \ gone) \cup {Stored(f) : f \in back}
                      \cup {Asserted(i) : i \in more},
           dropped' = (dropped \cup Rows(gone)) \ back,
           inserted' = inserted \cup more,
           canceled' = canceled \cup Orders(gone),
           back = {} \/ more = {},
           back \cup more # {} => ~ \E w \in working : Triple(w) = Triple(plan[cursor + 1]),
           \A f \in back : Triple(f) = Triple(plan[cursor + 1]),
           more # {} => ~ \E f \in dropped : Triple(f) = Triple(plan[cursor + 1])
    PROVE  IInv'
<1>1. StoreOK'
  BY StoreUnchanged DEF IInv
<1>2. /\ facts' = facts /\ events' = events /\ plan' = plan /\ phase' = phase
      /\ plan \in Seq(PlanOp) /\ cursor \in Nat /\ Len(plan) \in Nat
      /\ WorkingFactsForPlan' = WorkingFactsForPlan
  BY WorkingUnchanged DEF store, planning, IInv, PlanOK
<1>3. PlanOK'
  BY <1>2 DEF IInv, PlanOK, planning, store, Basis
<1> PICK F : F = WorkingFactsForPlan
  OBVIOUS
<1> PICK n : n = cursor + 1
  OBVIOUS
<1>4. /\ dropped \subseteq F /\ F \subseteq Live(facts)
      /\ inserted \subseteq {i \in 1..cursor : plan[i].op = "assert"}
      /\ canceled \subseteq inserted
      /\ \A w \in working : \/ \E f \in F \ dropped : w = Stored(f)
                            \/ \E i \in Final : w = Asserted(i)
      /\ \A f \in F \ dropped : Stored(f) \in working
      /\ \A i \in Final : Asserted(i) \in working
      /\ \A w, x \in working : Triple(w) = Triple(x) => w = x
      /\ \A i \in Final, f \in dropped : Triple(plan[i]) # Triple(f)
  BY WorkingRows DEF IInv, DiffOK, Domain
<1>5. \A i \in Final : i # 0 /\ i # n /\ i \in Nat
  BY <1>2, <1>4 DEF Final
<1>6. \A f \in F \ dropped : f \in Rows(gone) <=> Stored(f) \in gone
  <2> TAKE f \in F \ dropped
  <2>1. ASSUME f \in Rows(gone) PROVE Stored(f) \in gone
    <3>1. PICK w \in gone : w.ord = 0 /\ w.raw = f
      BY <2>1 DEF Rows
    <3>2. PICK g \in F \ dropped : w = Stored(g)
      BY <1>4, <1>5, <3>1, Entries
    <3> QED  BY <3>1, <3>2, Entries
  <2>2. ASSUME Stored(f) \in gone PROVE f \in Rows(gone)
    BY <2>2, Entries DEF Rows
  <2> QED  BY <2>1, <2>2
<1>7. Rows(gone) \subseteq F \ dropped
  <2> SUFFICES ASSUME NEW w \in gone, w.ord = 0 PROVE w.raw \in F \ dropped
    BY DEF Rows
  <2> QED  BY <1>4, <1>5, Entries
<1>8. \A i \in Final : i \in Orders(gone) <=> Asserted(i) \in gone
  <2> TAKE i \in Final
  <2>1. ASSUME i \in Orders(gone) PROVE Asserted(i) \in gone
    <3>1. PICK w \in gone : w.ord = i /\ i # 0
      BY <2>1 DEF Orders
    <3>2. PICK j \in Final : w = Asserted(j)
      BY <1>4, <3>1, Entries
    <3> QED  BY <3>1, <3>2, Entries
  <2>2. ASSUME Asserted(i) \in gone PROVE i \in Orders(gone)
    BY <2>2, <1>5, Entries DEF Orders
  <2> QED  BY <2>1, <2>2
<1>9. Orders(gone) \subseteq Final
  <2> SUFFICES ASSUME NEW w \in gone, w.ord # 0 PROVE w.ord \in Final
    BY DEF Orders
  <2> QED  BY <1>4, Entries
<1>10. Final' = (Final \ Orders(gone)) \cup more
  <2>1. n \notin inserted /\ n \notin canceled /\ n \notin Orders(gone) /\ more \subseteq {n}
    BY <1>2, <1>4, <1>5, <1>9
  <2> QED  BY <2>1 DEF Final
<1>11. \A i : Asserted(i)' = Asserted(i)
  BY <1>2 DEF Asserted
<1>12. dropped' \subseteq F
  BY <1>4, <1>7
<1>13. inserted' \subseteq {i \in 1..cursor' : plan'[i].op = "assert"} /\ canceled' \subseteq inserted'
  BY <1>2, <1>4, <1>9 DEF Final
<1>14. \A w \in working' : \/ \E f \in F \ dropped' : w = Stored(f)
                           \/ \E i \in Final' : w = Asserted(i)
  <2> TAKE w \in working'
  <2>1. CASE w \in working \ gone
    <3>1. CASE \E f \in F \ dropped : w = Stored(f)
      <4>1. PICK f \in F \ dropped : w = Stored(f)
        BY <3>1
      <4>2. f \in F \ dropped'
        BY <1>6, <2>1, <4>1
      <4> QED  BY <4>1, <4>2
    <3>2. CASE \E i \in Final : w = Asserted(i)
      BY <1>8, <1>10, <2>1, <3>2
    <3> QED  BY <1>4, <2>1, <3>1, <3>2
  <2>2. CASE \E f \in back : w = Stored(f)
    BY <1>4, <2>2
  <2>3. CASE \E i \in more : w = Asserted(i)
    BY <1>10, <2>3
  <2> QED  BY <2>1, <2>2, <2>3
<1>15. \A f \in F \ dropped' : Stored(f) \in working'
  BY <1>4, <1>6
<1>16. \A i \in Final' : Asserted(i) \in working'
  BY <1>4, <1>8, <1>10
<1>17. \A w, x \in working' : Triple(w) = Triple(x) => w = x
  <2>1. \A w \in working' :
           \/ w \in working \ gone
           \/ (\E f \in back : w = Stored(f)) /\ Triple(w) = Triple(plan[n]) /\ back # {}
           \/ w = Asserted(n) /\ Triple(w) = Triple(plan[n]) /\ more # {}
    BY Entries
  <2>2. \A f, g \in back : f = g
    BY <1>4 DEF IInv, StoreOK, LiveUnique
  <2> QED  BY <1>4, <2>1, <2>2
<1>18. \A i \in Final', f \in dropped' : Triple(plan[i]) # Triple(f)
  <2> SUFFICES ASSUME NEW i \in Final', NEW f \in dropped', Triple(plan[i]) = Triple(f)
               PROVE  FALSE
    OBVIOUS
  <2>1. CASE i \in Final \ Orders(gone) /\ f \in dropped
    BY <1>4, <2>1
  <2>2. CASE i \in Final \ Orders(gone) /\ f \in Rows(gone)
    <3>1. Asserted(i) \in working /\ Stored(f) \in working
      BY <1>4, <1>7, <2>2
    <3>2. Triple(Asserted(i)) = Triple(Stored(f))
      BY Entries
    <3> QED  BY <1>4, <1>5, <2>2, <3>1, <3>2, Entries
  <2>3. CASE i \in more /\ f \in dropped
    BY <2>3
  <2>4. CASE i \in more /\ f \in Rows(gone)
    <3>1. Stored(f) \in working /\ Triple(Stored(f)) = Triple(plan[n])
      BY <1>4, <1>7, <2>4, Entries
    <3> QED  BY <2>4, <3>1
  <2> QED  BY <1>10, <2>1, <2>2, <2>3, <2>4
<1>19. DiffOK'
  BY <1>2, <1>11, <1>12, <1>13, <1>14, <1>15, <1>16, <1>17, <1>18 DEF DiffOK, Stored
<1> QED  BY <1>1, <1>3, <1>19 DEF IInv

LEMMA DiffStepIInv == IInv /\ DiffStep => IInv'
<1> SUFFICES ASSUME IInv, DiffStep PROVE IInv'
  OBVIOUS
<1> PICK req : req = plan[cursor + 1]
  OBVIOUS
<1>1. /\ phase = "diff" /\ UNCHANGED <<store, phase, planning>>
      /\ cursor < Len(plan) /\ cursor' = cursor + 1
  BY DEF DiffStep
<1>2. ASSUME NEW S \in SUBSET working, \A w \in S : w.ord = 0
      PROVE  Orders(S) = {}
  BY <1>2 DEF Orders
<1>3. Rows({}) = {} /\ Orders({}) = {}
  BY DEF Rows, Orders
<1>4. CASE DiffRetract(req)
  <2> PICK gone \in SUBSET working : gone = {w \in working : Matches(req, w)}
    OBVIOUS
  <2> PICK back \in SUBSET dropped, more \in SUBSET {cursor + 1} : back = {} /\ more = {}
    OBVIOUS
  <2>1. /\ working' = (working \ gone) \cup {Stored(f) : f \in back}
                      \cup {Asserted(i) : i \in more}
        /\ dropped' = (dropped \cup Rows(gone)) \ back
        /\ inserted' = inserted \cup more /\ canceled' = canceled \cup Orders(gone)
    BY <1>4 DEF DiffRetract
  <2> QED  BY <1>1, <2>1, DiffMoves
<1>5. CASE DiffAssertPresent(req)
  <2> PICK gone \in SUBSET working, back \in SUBSET dropped, more \in SUBSET {cursor + 1} :
         gone = {} /\ back = {} /\ more = {}
    OBVIOUS
  <2>1. /\ working' = (working \ gone) \cup {Stored(f) : f \in back}
                      \cup {Asserted(i) : i \in more}
        /\ dropped' = (dropped \cup Rows(gone)) \ back
        /\ inserted' = inserted \cup more /\ canceled' = canceled \cup Orders(gone)
    BY <1>3, <1>5 DEF DiffAssertPresent
  <2> QED  BY <1>1, <2>1, DiffMoves
<1>6. ASSUME Absent(req)
      PROVE  /\ Displaced(req) \in SUBSET working /\ Orders(Displaced(req)) = {}
             /\ req.op = "assert" /\ ~ \E w \in working : Triple(w) = Triple(req)
  BY <1>2, <1>6 DEF Absent, Displaced
<1>7. CASE DiffAssertRestore(req)
  <2> PICK gone : gone = Displaced(req)
    OBVIOUS
  <2> PICK back \in SUBSET dropped : back = {f \in dropped : Triple(f) = Triple(req)}
    OBVIOUS
  <2>0. /\ gone \in SUBSET working /\ Orders(gone) = {}
        /\ req.op = "assert" /\ ~ \E w \in working : Triple(w) = Triple(req)
    BY <1>6, <1>7 DEF DiffAssertRestore
  <2>1. /\ working' = (working \ gone) \cup {Stored(f) : f \in back} \cup {Asserted(i) : i \in {}}
        /\ dropped' = (dropped \cup Rows(gone)) \ back
        /\ inserted' = inserted \cup {} /\ canceled' = canceled \cup Orders(gone)
    BY <1>7, <2>0 DEF DiffAssertRestore
  <2>2. \A f \in back : Triple(f) = Triple(plan[cursor + 1])
    OBVIOUS
  <2> QED  BY <1>1, <2>0, <2>1, <2>2, DiffMoves
<1>8. CASE DiffAssertNew(req)
  <2> PICK gone : gone = Displaced(req)
    OBVIOUS
  <2>0. /\ gone \in SUBSET working /\ Orders(gone) = {}
        /\ req.op = "assert" /\ ~ \E w \in working : Triple(w) = Triple(req)
    BY <1>6, <1>8 DEF DiffAssertNew
  <2>1. /\ working' = (working \ gone) \cup {Stored(f) : f \in {}}
                      \cup {Asserted(i) : i \in {cursor + 1}}
        /\ dropped' = (dropped \cup Rows(gone)) \ {}
        /\ inserted' = inserted \cup {cursor + 1} /\ canceled' = canceled \cup Orders(gone)
        /\ ~ \E f \in dropped : Triple(f) = Triple(plan[cursor + 1])
    BY <1>8, <2>0 DEF DiffAssertNew
  <2> QED  BY <1>1, <2>0, <2>1, DiffMoves
<1> QED  BY <1>4, <1>5, <1>7, <1>8 DEF DiffStep

LEMMA NoopIInv == IInv /\ Noop => IInv'
<1> SUFFICES ASSUME IInv, Noop PROVE IInv'
  OBVIOUS
<1>1. StoreOK' /\ EventsOK'
  BY StoreUnchanged DEF IInv, Noop, StoreOK
<1> QED  BY <1>1, DiscardOK DEF IInv, Noop

LEMMA AbortIInv == IInv /\ Abort => IInv'
<1> SUFFICES ASSUME IInv, Abort PROVE IInv'
  OBVIOUS
<1>1. StoreOK' /\ EventsOK'
  BY StoreUnchanged DEF IInv, Abort, StoreOK
<1> QED  BY <1>1, DiscardOK DEF IInv, Abort

-----------------------------------------------------------------------------
(* What Commit writes. *)
Fresh == NewRows(Basis + 1)
Ended == Kept(Fresh)
EndedRow(d) == [d EXCEPT !.rx = Basis + 1]

(* The rows a commit leaves: those it does not drop, the new ones, the audit
   fact and the dropped ones it keeps, which end with it. *)
CommitRows(after) ==
    /\ \A f \in after : \/ f \in facts \ dropped
                        \/ f \in Fresh
                        \/ f \in UndoAudit(Basis + 1)
                        \/ \E d \in Ended : f = EndedRow(d)
    /\ facts \ dropped \subseteq after
    /\ Fresh \subseteq after
    /\ \A d \in Ended : EndedRow(d) \in after

LEMMA CommitEffect ==
    ASSUME Commit
    PROVE  /\ CommitRows(facts') /\ Discard /\ Diffed
           /\ events' = Append(events, Event(Triples(Fresh), Triples(Ended), {}, None))
BY DEF Commit, CommitRows, Fresh, Ended, EndedRow

LEMMA IntervalSize ==
    ASSUME NEW n \in Nat
    PROVE  IsFiniteSet(1..n) /\ Cardinality(1..n) = n
<1>1. 1 \in Int /\ n \in Int
  OBVIOUS
<1>2. /\ IsFiniteSet(1..n)
      /\ Cardinality(1..n) = IF 1 > n THEN 0 ELSE n - 1 + 1
  BY <1>1, FS_Interval, Zenon
<1> QED  BY <1>2

(* The rows of a commit, one by one. *)
FreshOK(f) == /\ f \in FactRow(Basis + 1) /\ f.tx = Basis + 1 /\ f.rx = Null
              /\ f.ord <= Len(plan)
              /\ \E i \in Final : Triple(f) = Triple(plan[i]) /\ f.ord = Cardinality({j \in Final : j <= i})

LEMMA FreshRows ==
    ASSUME IInv, phase = "diff"
    PROVE  /\ \A f \in Fresh : FreshOK(f)
           /\ \A i \in Final : \E f \in Fresh : Triple(f) = Triple(plan[i])
           /\ \A f, g \in Fresh : Triple(f) = Triple(g) => f = g
<1> PICK tx : tx = Basis + 1
  OBVIOUS
<1>1. /\ plan \in Seq(PlanOp) /\ cursor \in 0..Len(plan) /\ Len(plan) \in Nat
      /\ Final \subseteq {i \in 1..cursor : plan[i].op = "assert"}
      /\ Basis \in Nat
  BY DEF IInv, PlanOK, DiffOK, Final, StoreOK, EventsOK, Basis
<1>2. ASSUME NEW i \in Final
      PROVE  /\ i \in 1..Len(plan)
             /\ plan[i].e \in Ref /\ plan[i].a \in UserAttr /\ plan[i].v \in Value
  <2>1. i \in 1..Len(plan) /\ plan[i].op = "assert"
    BY <1>1
  <2>2. plan[i] \in AssertOp
    BY <1>1, <2>1 DEF PlanOp, RetractOp
  <2> QED  BY <2>1, <2>2 DEF AssertOp
<1> DEFINE C(i) == Cardinality({j \in Final : j <= i})
<1>3. ASSUME NEW i \in Final
      PROVE  C(i) \in Nat /\ C(i) <= Len(plan)
  <2>1. IsFiniteSet(1..Len(plan)) /\ Cardinality(1..Len(plan)) = Len(plan)
    BY <1>1, IntervalSize
  <2> PICK S : S = {j \in Final : j <= i}
    OBVIOUS
  <2>2. S \subseteq 1..Len(plan)
    <3>1. \A j \in Final : j \in 1..Len(plan)
      BY <1>1
    <3> QED  BY <3>1
  <2>3. IsFiniteSet(S) /\ Cardinality(S) <= Cardinality(1..Len(plan))
    BY <2>1, <2>2, FS_Subset
  <2> QED  BY <2>1, <2>3, FS_CardinalityType
<1> HIDE DEF C
<1>4. Fresh = {Row(plan[i], tx, C(i)) : i \in Final}
  BY DEF Fresh, NewRows, C
<1>5. ASSUME NEW i \in Final
      PROVE  FreshOK(Row(plan[i], tx, C(i))) /\ Triple(Row(plan[i], tx, C(i))) = Triple(plan[i])
  <2> PICK r : r = Row(plan[i], tx, C(i))
    OBVIOUS
  <2>1. /\ r \in FactRow(Basis + 1) /\ r.tx = Basis + 1 /\ r.rx = Null /\ r.ord = C(i)
        /\ Triple(r) = Triple(plan[i])
    BY <1>1, <1>2, <1>3 DEF Row, FactRow, Triple, Null
  <2> QED  BY <1>3, <2>1 DEF FreshOK, C
<1>6. ASSUME NEW i \in Final, NEW j \in Final, Triple(plan[i]) = Triple(plan[j])
      PROVE  i = j
  <2>1. Asserted(i) \in working /\ Asserted(j) \in working
    BY DEF IInv, DiffOK
  <2>2. Asserted(i) = Asserted(j)
    BY <2>1, <1>6, Entries DEF IInv, DiffOK
  <2> QED  BY <2>2, Entries
<1> QED  BY <1>4, <1>5, <1>6

LEMMA EndedRows ==
    ASSUME IInv, phase = "diff", NEW d \in Ended
    PROVE  /\ d \in dropped /\ d \in Domain(Live(facts)) /\ d \in FactRow(Basis)
           /\ EndedRow(d) \in FactRow(Basis + 1) /\ EndedRow(d).rx = Basis + 1
           /\ Triple(EndedRow(d)) = Triple(d) /\ EndedRow(d).tx = d.tx
           /\ EndedRow(d).ord = d.ord /\ EndedRow(d).a = d.a
           /\ EndedRow(d).e = d.e /\ EndedRow(d).v = d.v
<1>1. d \in dropped /\ d \in Domain(Live(facts))
  BY WorkingRows DEF Ended, Kept, IInv, DiffOK
<1>2. d \in FactRow(Basis) /\ Basis \in Nat
  BY <1>1, DomainRows DEF IInv, StoreOK, EventsOK, RowsOK, Domain, Live, Basis
<1> QED  BY <1>1, <1>2 DEF EndedRow, FactRow, Triple

LEMMA AuditRows ==
    ASSUME IInv, NEW f \in UndoAudit(Basis + 1)
    PROVE  /\ f \in UndoneRow(Basis + 1) /\ f.tx = Basis + 1 /\ f.e = Basis + 1
           /\ f.a = "fgraph/undoes" /\ f.rx = Null /\ f.ord = 0
<1>1. undoes \in 1..Basis /\ f = AuditRow(Basis + 1, "fgraph/undoes", undoes) /\ Basis \in Nat
  BY DEF IInv, PlanOK, UndoAudit, Null, StoreOK, EventsOK, Basis
<1> QED  BY <1>1 DEF AuditRow, Row, UndoneRow, Null

LEMMA RowGrows ==
    ASSUME NEW n \in Nat, NEW f, RowOK(f, n)
    PROVE  RowOK(f, n + 1) /\ f.tx \in 1..n /\ f.rx \in 0..n /\ f.ord \in Nat
<1>1. CASE f \in FactRow(n) /\ (f.rx # Null => f.rx > f.tx)
  BY <1>1 DEF RowOK, FactRow
<1>2. CASE f \in MarkRow(n) /\ f.tx = f.e
  BY <1>2 DEF RowOK, MarkRow, Null
<1>3. CASE f \in UndoneRow(n) /\ f.tx = f.e
  BY <1>3 DEF RowOK, UndoneRow, Null
<1> QED  BY <1>1, <1>2, <1>3 DEF RowOK

(* A log with one event more. *)
Longer(new, n, s, ev) ==
    /\ new \in Seq(EventRecord) /\ Len(new) = n + 1 /\ n \in Nat
    /\ \A t \in 1..n : new[t] = s[t]
    /\ new[n + 1] = ev
    /\ \A t \in 1..(n + 1) : t \in 1..n \/ t = n + 1

LEMMA AppendEvent ==
    ASSUME NEW s \in Seq(EventRecord), NEW ev \in EventRecord
    PROVE  Longer(Append(s, ev), Len(s), s, ev)
BY DEF Longer

(* The event of a commit. *)
LEMMA CommitEvent ==
    ASSUME IInv, Commit
    PROVE  /\ EventsOK' /\ Len(events') = Basis + 1 /\ Basis \in Nat
           /\ \A t \in 1..Basis : events'[t] = events[t]
           /\ events'[Basis + 1] = Event(Triples(Fresh), Triples(Ended), {}, None)
           /\ \A t \in 1..(Basis + 1) : t \in 1..Basis \/ t = Basis + 1
<1> PICK ev : ev = Event(Triples(Fresh), Triples(Ended), {}, None)
  OBVIOUS
<1>1. events' = Append(events, ev) /\ phase = "diff"
  BY CommitEffect DEF Diffed
<1>2. Triples(Fresh) \subseteq TripleSet
  BY <1>1, FreshRows DEF FreshOK, FactRow, Triples, Triple, TripleSet
<1>3. Triples(Ended) \subseteq TripleSet
  <2>1. \A d \in Ended : Triple(d) \in TripleSet
    BY <1>1, EndedRows DEF FactRow, Triple, TripleSet
  <2> QED  BY <2>1 DEF Triples
<1>4. ev \in EventRecord /\ ev.redacts = {}
  BY <1>2, <1>3 DEF Event, EventRecord
<1>5. events \in Seq(EventRecord) /\ Basis = Len(events)
  BY DEF IInv, StoreOK, EventsOK, Basis
<1>6. /\ events' \in Seq(EventRecord) /\ Len(events') = Basis + 1 /\ Basis \in Nat
      /\ \A t \in 1..Basis : events'[t] = events[t]
      /\ events'[Basis + 1] = ev
      /\ \A t \in 1..(Basis + 1) : t \in 1..Basis \/ t = Basis + 1
  <2>1. Longer(events', Basis, events, ev)
    BY <1>1, <1>4, <1>5, AppendEvent
  <2> QED  BY <2>1 DEF Longer
<1>7. EventsOK'
  <2>1. Basis' = Basis + 1
    BY <1>6 DEF Basis
  <2>2. \A t \in 1..Basis : events[t].redacts \subseteq 1..(t - 1)
    BY DEF IInv, StoreOK, EventsOK
  <2>3. \A t \in 1..(Basis + 1) : events'[t].redacts \subseteq 1..(t - 1)
    BY <1>4, <1>6, <2>2
  <2> QED  BY <1>6, <2>1, <2>3 DEF EventsOK
<1> QED  BY <1>6, <1>7

LEMMA CommitIInv == IInv /\ Commit => IInv'
<1> SUFFICES ASSUME IInv, Commit PROVE IInv'
  OBVIOUS
<1>0. phase = "diff" /\ Discard /\ CommitRows(facts')
  BY CommitEffect DEF Diffed
<1>1. EventsOK' /\ Basis' = Basis + 1 /\ Basis \in Nat
  BY CommitEvent DEF Basis
<1>2. RowsOK'
  <2> SUFFICES ASSUME NEW f \in facts' PROVE RowOK(f, Basis + 1)
    BY <1>1 DEF RowsOK
  <2>1. CASE f \in facts \ dropped
    BY <1>1, <2>1, RowGrows DEF IInv, StoreOK, RowsOK
  <2>2. CASE f \in Fresh
    BY <1>0, <2>2, FreshRows DEF FreshOK, RowOK
  <2>3. CASE f \in UndoAudit(Basis + 1)
    BY <2>3, AuditRows DEF RowOK
  <2>4. CASE \E d \in Ended : f = EndedRow(d)
    <3>1. PICK d \in Ended : f = EndedRow(d)
      BY <2>4
    <3>2. f \in FactRow(Basis + 1) /\ f.rx = Basis + 1 /\ f.tx = d.tx /\ d \in FactRow(Basis)
      BY <1>0, <3>1, EndedRows
    <3> QED  BY <1>1, <3>2 DEF RowOK, FactRow
  <2> QED  BY <1>0, <2>1, <2>2, <2>3, <2>4 DEF CommitRows
<1>3. OrdsOK'
  <2>1. PICK b \in Nat : \A f \in facts : f.ord <= b
    BY DEF IInv, StoreOK, OrdsOK
  <2>2. Len(plan) \in Nat
    BY DEF IInv, PlanOK
  <2>3. \A f \in facts' : f.ord \in Nat
    BY <1>1, <1>2, RowGrows DEF RowsOK
  <2>4. ASSUME NEW f \in facts' PROVE f.ord <= b + Len(plan)
    <3>1. f.ord <= b \/ f.ord <= Len(plan)
      BY <1>0, <2>1, <2>2, FreshRows, EndedRows, AuditRows
         DEF CommitRows, FreshOK, Domain, Live
    <3> QED  BY <2>1, <2>2, <2>3, <3>1
  <2> QED  BY <2>1, <2>2, <2>4 DEF OrdsOK
<1>4. LiveUnique'
  <2>1. ASSUME NEW f \in Live(facts')
        PROVE  f \in Live(facts) \ dropped \/ f \in Fresh \/ f \in UndoAudit(Basis + 1)
    <3>1. f \in facts' /\ f.rx = Null
      BY DEF Live
    <3>2. \A d \in Ended : EndedRow(d).rx # Null
      BY <1>0, <1>1, EndedRows DEF Null
    <3> QED  BY <1>0, <3>1, <3>2 DEF CommitRows, Live
  <2>2. ASSUME NEW f \in Live(facts) \ dropped, NEW g \in Fresh, Triple(f) = Triple(g)
        PROVE  FALSE
    <3>1. PICK i \in Final : Triple(g) = Triple(plan[i])
      BY <1>0, FreshRows DEF FreshOK
    <3>2. g.a \in UserAttr /\ f.a = g.a /\ f.e = plan[i].e
      BY <1>0, <2>2, <3>1, FreshRows DEF FreshOK, FactRow, Triple
    <3>3. f \in Domain(Live(facts)) /\ i \in DOMAIN plan
      BY <1>0, <3>2, UserAttrs DEF Domain, IInv, DiffOK, Final, PlanOK
    <3>4. Stored(f) \in working /\ Asserted(i) \in working
      BY <1>0, <3>2, <3>3, WorkingRows DEF IInv, DiffOK
    <3>5. Triple(Stored(f)) = Triple(Asserted(i))
      BY <2>2, <3>1, Entries
    <3>6. Stored(f) = Asserted(i)
      BY <1>0, <3>4, <3>5 DEF IInv, DiffOK
    <3>7. i # 0
      BY <1>0 DEF IInv, DiffOK, Final, PlanOK
    <3> QED  BY <3>6, <3>7, Entries
  <2>3. ASSUME NEW f \in UndoAudit(Basis + 1), NEW g \in Fresh \cup Live(facts)
        PROVE  Triple(f) # Triple(g)
    <3>1. f.e = Basis + 1 /\ f.e \in Nat
      BY <1>1, AuditRows
    <3>2. g.e \in Ref \/ g.e \in 1..Basis
      <4>1. CASE g \in Fresh
        BY <1>0, <4>1, FreshRows DEF FreshOK, FactRow
      <4>2. CASE g \in Live(facts)
        BY <4>2 DEF Live, IInv, StoreOK, RowsOK, RowOK, FactRow, MarkRow, UndoneRow
      <4> QED  BY <4>1, <4>2
    <3>3. f.e # g.e
      BY <1>1, <3>1, <3>2, References
    <3> QED  BY <3>3 DEF Triple
  <2>4. \A f, g \in UndoAudit(Basis + 1) : f = g
    BY DEF UndoAudit
  <2>5. \A f, g \in Fresh : Triple(f) = Triple(g) => f = g
    BY <1>0, FreshRows
  <2>6. \A f, g \in Live(facts) : Triple(f) = Triple(g) => f = g
    BY DEF IInv, StoreOK, LiveUnique
  <2> QED  BY <2>1, <2>2, <2>3, <2>4, <2>5, <2>6 DEF LiveUnique
<1>5. PlanOK' /\ DiffOK'
  BY <1>0, <1>1, DiscardOK DEF IInv
<1> QED  BY <1>1, <1>2, <1>3, <1>4, <1>5 DEF IInv, StoreOK

-----------------------------------------------------------------------------
(* What Excise writes. *)
Redacts(x) == {f.tx : f \in ExcisedRows(x)} \cup ({f.rx : f \in ExcisedRows(x)} \ {Null})
              \cup NamingEvents(x)
Mark(x) == AuditRow(Basis + 1, "fgraph/excised", x)
Redaction(x, t) == IF t \in Redacts(x) THEN Redacted(events[t]) ELSE events[t]

LEMMA ExciseEffect ==
    ASSUME NEW x \in Ref, Excise(x)
    PROVE  /\ facts' = (facts \ ExcisedRows(x)) \cup {Mark(x)}
           /\ events' = Append([t \in 1..Basis |-> Redaction(x, t)],
                               Event({}, {}, Redacts(x), x))
           /\ phase = "idle" /\ UNCHANGED <<phase, planning, diffing>>
BY DEF Excise, Redacts, Mark, Redaction

LEMMA Marks ==
    ASSUME IInv, NEW x \in Ref
    PROVE  /\ Mark(x) \in MarkRow(Basis + 1) /\ Mark(x).tx = Basis + 1 /\ Mark(x).e = Basis + 1
           /\ Mark(x).a = "fgraph/excised" /\ Mark(x).rx = Null /\ Mark(x).ord = 0
           /\ Mark(x).v = x
<1>1. Basis \in Nat
  BY DEF IInv, StoreOK, EventsOK, Basis
<1> QED  BY <1>1 DEF Mark, AuditRow, Row, MarkRow, Null

LEMMA RedactedEvent ==
    ASSUME NEW ev \in EventRecord
    PROVE  /\ Redacted(ev) \in EventRecord /\ ~Redacted(ev).retained
           /\ Redacted(ev).excises = ev.excises /\ Redacted(ev).redacts = {}
           /\ Redacted(ev).asserted = {} /\ Redacted(ev).retracted = {}
BY DEF Redacted, EventRecord

(* The event of an excision. *)
LEMMA ExciseEvent ==
    ASSUME IInv, NEW x \in Ref, Excise(x)
    PROVE  /\ EventsOK' /\ Len(events') = Basis + 1 /\ Basis \in Nat
           /\ \A t \in 1..Basis : events'[t] = Redaction(x, t)
           /\ events'[Basis + 1] = Event({}, {}, Redacts(x), x)
           /\ \A t \in 1..(Basis + 1) : t \in 1..Basis \/ t = Basis + 1
           /\ Redacts(x) \subseteq 1..Basis
<1> PICK ev : ev = Event({}, {}, Redacts(x), x)
  OBVIOUS
<1> PICK s : s = [t \in 1..Basis |-> Redaction(x, t)]
  OBVIOUS
<1>1. events' = Append(s, ev)
  BY ExciseEffect
<1>2. events \in Seq(EventRecord) /\ Basis = Len(events) /\ Basis \in Nat
  BY DEF IInv, StoreOK, EventsOK, Basis
<1>3. Redacts(x) \subseteq 1..Basis
  <2>1. ASSUME NEW f \in facts PROVE f.tx \in 1..Basis /\ (f.rx = Null \/ f.rx \in 1..Basis)
    BY <1>2, RowGrows DEF IInv, StoreOK, RowsOK, Null
  <2> QED  BY <2>1 DEF Redacts, ExcisedRows, NamingEvents
<1>4. ev \in EventRecord /\ ev.redacts = Redacts(x)
  BY <1>2, <1>3 DEF Event, EventRecord
<1>5. \A t \in 1..Basis : Redaction(x, t) \in EventRecord
  <2> TAKE t \in 1..Basis
  <2>1. events[t] \in EventRecord
    BY <1>2
  <2> QED  BY <2>1, RedactedEvent DEF Redaction
<1>6. s \in Seq(EventRecord) /\ Len(s) = Basis /\ \A t \in 1..Basis : s[t] = Redaction(x, t)
  BY <1>2, <1>5
<1>7. /\ events' \in Seq(EventRecord) /\ Len(events') = Basis + 1
      /\ \A t \in 1..Basis : events'[t] = s[t]
      /\ events'[Basis + 1] = ev
      /\ \A t \in 1..(Basis + 1) : t \in 1..Basis \/ t = Basis + 1
  <2>1. Longer(events', Basis, s, ev)
    BY <1>1, <1>4, <1>6, AppendEvent
  <2> QED  BY <2>1 DEF Longer
<1>8. EventsOK'
  <2>1. Basis' = Basis + 1 /\ Basis' >= 1
    BY <1>2, <1>7 DEF Basis
  <2>2. \A t \in 1..Basis : events'[t].redacts \subseteq 1..(t - 1)
    <3> TAKE t \in 1..Basis
    <3>1. events'[t] = Redaction(x, t) /\ events[t].redacts \subseteq 1..(t - 1)
          /\ events[t] \in EventRecord
      BY <1>2, <1>6, <1>7 DEF IInv, StoreOK, EventsOK
    <3> QED  BY <3>1, RedactedEvent DEF Redaction
  <2>3. \A t \in 1..(Basis + 1) : events'[t].redacts \subseteq 1..(t - 1)
    BY <1>2, <1>3, <1>4, <1>7, <2>2
  <2> QED  BY <1>7, <2>1, <2>3 DEF EventsOK
<1> QED  BY <1>2, <1>3, <1>6, <1>7, <1>8

LEMMA ExciseIInv ==
    ASSUME IInv, NEW x \in Ref, Excise(x)
    PROVE  IInv'
<1>0. /\ facts' = (facts \ ExcisedRows(x)) \cup {Mark(x)} /\ phase = "idle"
      /\ UNCHANGED <<phase, planning, diffing>>
  BY ExciseEffect
<1>1. EventsOK' /\ Basis' = Basis + 1 /\ Basis \in Nat
  BY ExciseEvent DEF Basis
<1>2. RowsOK'
  <2> SUFFICES ASSUME NEW f \in facts' PROVE RowOK(f, Basis + 1)
    BY <1>1 DEF RowsOK
  <2>1. CASE f \in facts
    BY <1>1, <2>1, RowGrows DEF IInv, StoreOK, RowsOK
  <2>2. CASE f = Mark(x)
    BY <2>2, Marks DEF RowOK
  <2> QED  BY <1>0, <2>1, <2>2
<1>3. OrdsOK'
  <2>1. PICK b \in Nat : \A f \in facts : f.ord <= b
    BY DEF IInv, StoreOK, OrdsOK
  <2>2. \A f \in facts' : f.ord <= b
    BY <1>0, <2>1, Marks
  <2> QED  BY <2>1, <2>2 DEF OrdsOK
<1>4. LiveUnique'
  <2>1. \A g \in facts : g.e # Mark(x).e
    <3> TAKE g \in facts
    <3>1. g.e \in Ref \/ g.e \in 1..Basis
      BY DEF IInv, StoreOK, RowsOK, RowOK, FactRow, MarkRow, UndoneRow
    <3> QED  BY <1>1, <3>1, Marks, References
  <2>2. \A g \in facts : Triple(g) # Triple(Mark(x))
    BY <2>1 DEF Triple
  <2> QED  BY <1>0, <2>2 DEF IInv, StoreOK, LiveUnique, Live
<1>5. PlanOK' /\ DiffOK'
  <2>1. undoes = Null /\ todo = {} /\ Basis \in Nat
    BY <1>0, <1>1 DEF IInv, PlanOK
  <2>2. undoes' \in 0..Basis' /\ todo' \subseteq Domain(facts')
    BY <1>0, <1>1, <2>1 DEF planning, Null
  <2> QED  BY <1>0, <2>2 DEF IInv, PlanOK, DiffOK, planning, diffing
<1> QED  BY <1>1, <1>2, <1>3, <1>4, <1>5 DEF IInv, StoreOK

-----------------------------------------------------------------------------
(* The invariant is inductive. *)
LEMMA StutterIInv == IInv /\ UNCHANGED vars => IInv'
<1> SUFFICES ASSUME IInv, UNCHANGED vars PROVE IInv'
  OBVIOUS
<1>1. /\ facts' = facts /\ events' = events /\ plan' = plan /\ phase' = phase
      /\ dropped' = dropped /\ working' = working /\ inserted' = inserted
      /\ canceled' = canceled /\ cursor' = cursor /\ prior' = prior
  BY DEF vars
<1>2. StoreOK'
  BY <1>1, StoreUnchanged DEF IInv, store
<1>3. PlanOK'
  BY DEF IInv, PlanOK, vars, Basis
<1>4. WorkingFactsForPlan' = WorkingFactsForPlan /\ Final' = Final
  BY <1>1, WorkingUnchanged DEF Final
<1>5. DiffOK'
  BY <1>1, <1>4 DEF IInv, DiffOK, Stored, Asserted
<1> QED  BY <1>2, <1>3, <1>5 DEF IInv

LEMMA NextIInv == IInv /\ [Next]_vars => IInv'
<1> SUFFICES ASSUME IInv, [Next]_vars PROVE IInv'
  OBVIOUS
<1>1. CASE Begin
  BY <1>1, BeginIInv
<1>2. CASE \E t \in 1..load.maxTx : BeginUndo(t)
  BY <1>2, BeginUndoIInv
<1>3. CASE \E c \in load.calls : BeginCall(c)
  BY <1>3, BeginCallIInv
<1>4. CASE \E i \in DOMAIN groups : PlanCall(i)
  BY <1>4, PlanCallIInv
<1>5. CASE \E in \in load.ops : PlanRequest(in)
  BY <1>5, PlanRequestIInv
<1>6. CASE \E f \in todo : PlanUndo(f)
  BY <1>6, PlanUndoIInv
<1>7. CASE Validate
  BY <1>7, ValidateIInv
<1>8. CASE DiffStep
  BY <1>8, DiffStepIInv
<1>9. CASE Commit
  BY <1>9, CommitIInv
<1>10. CASE Noop
  BY <1>10, NoopIInv
<1>11. CASE Abort
  BY <1>11, AbortIInv
<1>12. CASE \E x \in Ref : Excise(x)
  BY <1>12, ExciseIInv
<1>13. CASE UNCHANGED vars
  BY <1>13, StutterIInv
<1> QED
  BY <1>1, <1>2, <1>3, <1>4, <1>5, <1>6, <1>7, <1>8, <1>9, <1>10, <1>11, <1>12, <1>13
     DEF Next

(* The invariant the other theorems start from: rows, plans and events are
   well-formed, no triple is live twice, and at every point of the diff loop
   the working set is the loaded rows that are not dropped and the planned
   assertions that are not canceled. *)
THEOREM Invariance == Spec => []IInv
<1>1. Init => IInv
  BY InitIInv
<1>2. IInv /\ [Next]_vars => IInv'
  BY NextIInv
<1> QED  BY <1>1, <1>2, PTL DEF Spec

LEMMA IInvTypeOK == IInv => TypeOK
<1> SUFFICES ASSUME IInv PROVE TypeOK
  OBVIOUS
<1>0. Basis \in Nat /\ events \in Seq(EventRecord)
  BY DEF IInv, StoreOK, EventsOK, Basis
<1>1. ASSUME NEW f \in facts
      PROVE  CASE f.a = "fgraph/excised" -> f \in ExcisionRow
               [] f.a = "fgraph/undoes" -> f \in UndoRow
               [] OTHER -> f \in DomainRow /\ (f.rx # Null => f.rx > f.tx)
  <2>0. RowOK(f, Basis)
    BY DEF IInv, StoreOK, RowsOK
  <2>1. CASE f \in FactRow(Basis) /\ (f.rx # Null => f.rx > f.tx)
    <3>1. f.a \in UserAttr
      BY <2>1 DEF FactRow
    <3>2. f.a # "fgraph/excised" /\ f.a # "fgraph/undoes"
      BY <3>1, UserAttrs DEF AuditAttr
    <3> QED  BY <2>1, <3>2 DEF FactRow, DomainRow
  <2>2. CASE f \in MarkRow(Basis)
    BY <2>2 DEF MarkRow, ExcisionRow
  <2>3. CASE f \in UndoneRow(Basis)
    BY <2>3 DEF UndoneRow, UndoRow
  <2> QED  BY <2>0, <2>1, <2>2, <2>3 DEF RowOK
<1>2. ASSUME NEW t \in DOMAIN events PROVE events[t] \in EventSet
  <2>1. events[t] \in EventRecord /\ events[t].redacts \subseteq 1..(t - 1) /\ t \in 1..Basis
    BY <1>0 DEF IInv, StoreOK, EventsOK, Basis
  <2>2. 1..(t - 1) \subseteq 1..Basis
    BY <1>0, <2>1
  <2> QED  BY <2>1, <2>2 DEF EventRecord, EventSet, TripleSet
<1>3. /\ phase \in {"idle", "plan", "diff"} /\ cursor \in 0..Len(plan)
      /\ inserted \subseteq 1..cursor /\ canceled \subseteq inserted
  BY DEF IInv, PlanOK, DiffOK
<1>4. dropped \subseteq Live(facts)
  BY WorkingRows DEF IInv, PlanOK, DiffOK, Domain
<1> QED  BY <1>1, <1>2, <1>3, <1>4 DEF TypeOK, IInv, StoreOK, LiveUnique

(* Every row is of one of the three kinds and ends after it began, every tx
   and rx is a recorded transaction, and no entity/attribute/value is live
   twice: the insertions of diffPlan never meet the unique index. *)
THEOREM TypeCorrect == Spec => []TypeOK
BY Invariance, IInvTypeOK, PTL

LEMMA IInvDiffExact == IInv => DiffExact
<1> SUFFICES ASSUME IInv, phase = "diff"
             PROVE  Triples(Domain(Live(facts)) \ dropped) \cup {Triple(plan[i]) : i \in Final}
                    = Triples(working) \cup Triples(Domain(Live(facts)) \ WorkingFactsForPlan)
  BY DEF DiffExact
<1> PICK F : F = WorkingFactsForPlan
  OBVIOUS
<1> PICK D : D = Domain(Live(facts))
  OBVIOUS
<1>1. /\ F \subseteq D /\ dropped \subseteq F
      /\ \A w \in working : \/ \E f \in F \ dropped : w = Stored(f)
                            \/ \E i \in Final : w = Asserted(i)
      /\ \A f \in F \ dropped : Stored(f) \in working
      /\ \A i \in Final : Asserted(i) \in working
  BY WorkingRows DEF IInv, DiffOK
<1>2. \A f \in D \ dropped : \/ Triple(f) \in Triples(working)
                             \/ Triple(f) \in Triples(D \ F)
  BY <1>1, Entries DEF Triples
<1>3. \A i \in Final : Triple(plan[i]) \in Triples(working)
  BY <1>1, Entries DEF Triples
<1>4. \A w \in working : \/ Triple(w) \in Triples(D \ dropped)
                         \/ \E i \in Final : Triple(w) = Triple(plan[i])
  BY <1>1, Entries DEF Triples
<1>5. \A f \in D \ F : Triple(f) \in Triples(D \ dropped)
  BY <1>1 DEF Triples
<1> QED  BY <1>2, <1>3, <1>4, <1>5 DEF Triples

(* What Commit writes is what was validated: at every point of the diff loop
   of any plan, the live rows minus the retractions plus the surviving
   insertions are the working set plus the rows never loaded. *)
THEOREM DiffIsExact == Spec => []DiffExact
BY Invariance, IInvDiffExact, PTL

-----------------------------------------------------------------------------
(* The row with the highest id. *)
LEMMA LeastNumber ==
    ASSUME NEW T \in SUBSET Nat, T # {}
    PROVE  \E n \in T : \A m \in T : n <= m
<1>1. PICK n \in T : \A m \in T : <<m, n>> \notin OpToRel(<, Nat)
  BY NatLessThanWellFounded, WFMin
<1>2. \A m \in T : ~(m < n)
  BY <1>1 DEF OpToRel
<1> QED  BY <1>2

LEMMA GreatestNumber ==
    ASSUME NEW b \in Nat, NEW T \in SUBSET (0..b), T # {}
    PROVE  \E n \in T : \A m \in T : m <= n
<1> DEFINE U == {k \in 0..b : b - k \in T}
<1>1. \A m \in T : b - m \in U
  OBVIOUS
<1>2. U # {} /\ U \in SUBSET Nat
  <2>1. \A k \in 0..b : k \in Nat
    OBVIOUS
  <2>2. PICK m \in T : b - m \in U
    BY <1>1
  <2> QED  BY <2>1, <2>2
<1>3. PICK k \in U : \A m \in U : k <= m
  BY <1>2, LeastNumber
<1>4. b - k \in T /\ \A m \in T : k <= b - m
  BY <1>1, <1>3
<1>5. \A m \in T : m <= b - k
  BY <1>3, <1>4
<1> QED  BY <1>4, <1>5

LEMMA HighestRow ==
    ASSUME NEW n \in Nat, NEW b \in Nat, NEW rows, rows # {},
           \A f \in rows : f.tx \in 0..n /\ f.ord \in 0..b
    PROVE  \E f \in rows : \A g \in rows : ~Before(f, g)
<1> DEFINE T == {f.tx : f \in rows}
<1>1. T \in SUBSET (0..n) /\ T # {}
  OBVIOUS
<1>2. PICK t \in T : \A m \in T : m <= t
  BY <1>1, GreatestNumber
<1> DEFINE O == {f.ord : f \in {f \in rows : f.tx = t}}
<1>3. O \in SUBSET (0..b) /\ O # {}
  BY <1>2
<1>4. PICK o \in O : \A m \in O : m <= o
  BY <1>3, GreatestNumber
<1>5. PICK f \in rows : f.tx = t /\ f.ord = o
  BY <1>4
<1>6. \A g \in rows : g.tx <= t /\ (g.tx = t => g.ord <= o)
  BY <1>2, <1>4
<1> QED  BY <1>5, <1>6 DEF Before

(* What schemaFor answers with is the value of a row. *)
LEMMA DeclaredValue ==
    ASSUME NEW n \in Nat, NEW b \in Nat, NEW rows, NEW attr,
           \A f \in rows : f.tx \in 0..n /\ f.ord \in 0..b,
           SchemaFor(rows, attr, "fgraph/nohistory") = "true"
    PROVE  \E g \in Live(rows) : g.a = "fgraph/nohistory" /\ g.e = attr /\ g.v = "true"
<1> DEFINE D == Declarations(rows, attr, "fgraph/nohistory")
<1>1. LastDeclared(D) = "true"
  BY DEF SchemaFor, SystemMany
<1>2. /\ D \subseteq Live(rows) /\ D \subseteq rows
      /\ \A g \in D : g.a = "fgraph/nohistory" /\ g.e = attr
  BY DEF Declarations, Live
<1> HIDE DEF D
<1>3. D # {}
  BY <1>1 DEF LastDeclared
<1>4. \E f \in D : \A g \in D : ~Before(f, g)
  BY <1>2, <1>3, HighestRow
<1>5. PICK g : g = CHOOSE f \in D : \A h \in D : ~Before(f, h)
  OBVIOUS
<1>6. g \in D /\ g.v = "true"
  BY <1>1, <1>3, <1>4, <1>5 DEF LastDeclared
<1> QED  BY <1>2, <1>6

(* A dropped row that loses its history has an attribute that some row, stored
   or of this transaction, declares nohistory. *)
LEMMA DeletedIsDeclared ==
    ASSUME IInv, phase = "diff", NEW d \in dropped \ Ended
    PROVE  \E g \in Live(facts) \cup Fresh :
              g.a = "fgraph/nohistory" /\ g.e = d.a /\ g.v = "true"
<1> DEFINE rows == (facts \cup Fresh) \ {c \in dropped : Before(c, d)}
<1>1. SchemaFor(rows, d.a, "fgraph/nohistory") = "true"
  BY DEF Ended, Kept, DeletesHistory
<1>2. PICK b \in Nat : \A f \in facts : f.ord <= b
  BY DEF IInv, StoreOK, OrdsOK
<1>3. Basis \in Nat /\ Len(plan) \in Nat
  BY DEF IInv, StoreOK, EventsOK, PlanOK, Basis
<1> PICK n \in Nat, m \in Nat : n = Basis + 1 /\ m = b + Len(plan)
  BY <1>2, <1>3
<1>4. \A f \in facts : f.tx \in 0..n /\ f.ord \in 0..m
  BY <1>2, <1>3, RowGrows DEF IInv, StoreOK, RowsOK
<1>5. \A f \in Fresh : f.tx \in 0..n /\ f.ord \in 0..m
  BY <1>2, <1>3, FreshRows DEF FreshOK, FactRow
<1>6. \A f \in rows : f.tx \in 0..n /\ f.ord \in 0..m
  BY <1>4, <1>5
<1>7. Live(rows) \subseteq Live(facts) \cup Fresh
  BY DEF Live
<1> HIDE DEF rows
<1>8. \E g \in Live(rows) : g.a = "fgraph/nohistory" /\ g.e = d.a /\ g.v = "true"
  BY <1>1, <1>6, DeclaredValue
<1> QED  BY <1>7, <1>8

-----------------------------------------------------------------------------
(* What a view at t shows, before and after. *)
Shown(rows, t) == Domain(AsOf(rows, t))

LEMMA CommitPast ==
    ASSUME IInv, Commit, NEW t \in 1..Basis
    PROVE  /\ \A f \in Shown(facts', t) : Triple(f) \in Triples(Shown(facts, t))
           /\ \A f \in Shown(facts, t) : Historic(facts, f.a) /\ Historic(facts', f.a)
                 => Triple(f) \in Triples(Shown(facts', t))
<1>0. phase = "diff" /\ CommitRows(facts') /\ Basis \in Nat /\ t < Basis + 1
  BY CommitEffect, CommitEvent DEF Diffed
<1>1. ASSUME NEW f \in Shown(facts', t)
      PROVE  Triple(f) \in Triples(Shown(facts, t))
  <2>1. f \in facts' /\ f.a \notin AuditAttr /\ f.tx <= t /\ (f.rx = Null \/ f.rx > t)
    BY DEF Shown, Domain, AsOf
  <2>2. f \notin Fresh /\ f \notin UndoAudit(Basis + 1)
    BY <1>0, <2>1, FreshRows, AuditRows DEF FreshOK
  <2>3. CASE f \in facts
    BY <2>1, <2>3 DEF Shown, Domain, AsOf, Triples
  <2>4. CASE \E d \in Ended : f = EndedRow(d)
    <3>1. PICK d \in Ended : f = EndedRow(d)
      BY <2>4
    <3>2. Triple(f) = Triple(d) /\ d.tx = f.tx /\ d.a = f.a /\ d \in Live(facts)
      BY <1>0, <3>1, EndedRows DEF Domain
    <3>3. d \in Shown(facts, t)
      BY <2>1, <3>2 DEF Shown, Domain, AsOf, Live
    <3> QED  BY <3>2, <3>3 DEF Triples
  <2> QED  BY <1>0, <2>1, <2>2, <2>3, <2>4 DEF CommitRows
<1>2. ASSUME NEW f \in Shown(facts, t), Historic(facts, f.a), Historic(facts', f.a)
      PROVE  Triple(f) \in Triples(Shown(facts', t))
  <2>1. f \in facts /\ f.a \notin AuditAttr /\ f.tx <= t /\ (f.rx = Null \/ f.rx > t)
    BY DEF Shown, Domain, AsOf
  <2>2. CASE f \notin dropped
    <3>1. f \in facts'
      BY <1>0, <2>1, <2>2 DEF CommitRows
    <3> QED  BY <2>1, <3>1 DEF Shown, Domain, AsOf, Triples
  <2>3. CASE f \in Ended
    <3>1. EndedRow(f) \in facts' /\ Triple(EndedRow(f)) = Triple(f)
          /\ EndedRow(f).tx = f.tx /\ EndedRow(f).a = f.a /\ EndedRow(f).rx = Basis + 1
      BY <1>0, <2>3, EndedRows DEF CommitRows
    <3>2. EndedRow(f) \in Shown(facts', t)
      BY <1>0, <2>1, <3>1 DEF Shown, Domain, AsOf
    <3> QED  BY <3>1, <3>2 DEF Triples
  <2>4. CASE f \in dropped \ Ended
    <3>1. PICK g \in facts \cup Fresh : g.a = "fgraph/nohistory" /\ g.e = f.a /\ g.v = "true"
      BY <1>0, <2>4, DeletedIsDeclared DEF Live
    <3>2. CASE g \in facts
      BY <1>2, <3>1, <3>2 DEF Historic
    <3>3. CASE g \in Fresh
      BY <1>0, <1>2, <3>1, <3>3 DEF Historic, CommitRows
    <3> QED  BY <3>2, <3>3
  <2> QED  BY <2>2, <2>3, <2>4
<1> QED  BY <1>1, <1>2

LEMMA ExcisePast ==
    ASSUME IInv, NEW x \in Ref, Excise(x), NEW t \in 1..Basis
    PROVE  /\ \A f \in Shown(facts', t) : Triple(f) \in Triples(Shown(facts, t))
           /\ \A f \in Shown(facts, t) : ~Mentions(f, x)
                 => Triple(f) \in Triples(Shown(facts', t))
<1>1. facts' = (facts \ ExcisedRows(x)) \cup {Mark(x)}
  BY ExciseEffect
<1>2. Mark(x) \notin Shown(facts', t)
  BY Marks DEF Shown, Domain, AuditAttr
<1>3. \A f \in Shown(facts', t) : f \in Shown(facts, t)
  BY <1>1, <1>2 DEF Shown, Domain, AsOf
<1>4. \A f \in Shown(facts, t) : ~Mentions(f, x) => f \in Shown(facts', t)
  BY <1>1 DEF Shown, Domain, AsOf, ExcisedRows
<1> QED  BY <1>3, <1>4 DEF Triples

LEMMA OnlyTwoWrite ==
    ASSUME [Next]_vars
    PROVE  UNCHANGED store \/ Commit \/ \E x \in Ref : Excise(x)
BY DEF Next, vars, store, Begin, BeginUndo, BeginCall, PlanCall, PlanRequest, PlanUndo,
       Validate, DiffStep, Noop, Abort

(* The past is immutable: whatever transactions, undos and excisions do, a
   view as of a recorded transaction keeps showing the same facts of the
   attributes that keep history, except what mentions an excised entity. *)
THEOREM PastImmutable == Spec => HistoryImmutable
<1>1. ASSUME IInv, [Next]_vars, facts' # facts, NEW t \in 1..Basis
      PROVE  PastKept(facts', t) = PastKept(facts, t)
  <2>1. CASE Commit
    <3>1. /\ \A f \in Shown(facts', t) : Triple(f) \in Triples(Shown(facts, t))
          /\ \A f \in Shown(facts, t) : Historic(facts, f.a) /\ Historic(facts', f.a)
                => Triple(f) \in Triples(Shown(facts', t))
      BY <1>1, <2>1, CommitPast
    <3>2. \A f : Triple(f).a = f.a
      BY DEF Triple
    <3> QED  BY <3>1, <3>2 DEF PastKept, Shown, Triples
  <2>2. CASE \E x \in Ref : Excise(x)
    <3>1. PICK x \in Ref : Excise(x)
      BY <2>2
    <3>2. /\ \A f \in Shown(facts', t) : Triple(f) \in Triples(Shown(facts, t))
          /\ \A f \in Shown(facts, t) : ~Mentions(f, x)
                => Triple(f) \in Triples(Shown(facts', t))
      BY <1>1, <3>1, ExcisePast
    <3>3. /\ Len(events') = Basis + 1 /\ Basis \in Nat
          /\ events'[Basis + 1] = Event({}, {}, Redacts(x), x)
      BY <1>1, <3>1, ExciseEvent
    <3>4. NewExcision = x
      BY <3>3 DEF NewExcision, Event, Basis
    <3>5. \A f : Mentions(Triple(f), x) <=> Mentions(f, x)
      BY DEF Triple, Mentions
    <3> QED  BY <3>2, <3>4, <3>5 DEF PastKept, Shown, Triples
  <2> QED  BY <1>1, <2>1, <2>2, OnlyTwoWrite DEF store
<1>2. IInv /\ [Next]_vars =>
         [facts' # facts => \A t \in 1..Basis : PastKept(facts', t) = PastKept(facts, t)]_vars
  BY <1>1
<1> QED  BY <1>2, Invariance, PTL DEF Spec, HistoryImmutable

-----------------------------------------------------------------------------
(* Replaying the log. *)
LEMMA ReplayMember ==
    ASSUME NEW t
    PROVE  \A k : k \in Replay(t) <=> \E s \in 1..t : /\ k \in events[s].asserted
                                                      /\ \A r \in s..t : k \notin events[r].retracted
BY DEF Replay

(* The log after a write: it kept the payloads it had. *)
LogGrew(B, A, R) ==
    /\ B \in Nat /\ B >= 1 /\ Len(events') = B + 1
    /\ \A t \in 1..B : /\ events'[t].asserted = events[t].asserted
                       /\ events'[t].retracted = events[t].retracted
    /\ events'[B + 1].asserted = A /\ events'[B + 1].retracted = R
    /\ \A t \in 1..(B + 1) : t \in 1..B \/ t = B + 1

LEMMA ReplayKept ==
    ASSUME NEW B, NEW A, NEW R, LogGrew(B, A, R), NEW t \in 1..B
    PROVE  Replay(t)' = Replay(t)
<1>1. \A s \in 1..t : \A r \in s..t : s \in 1..B /\ r \in 1..B
  BY DEF LogGrew
<1>2. ASSUME NEW k PROVE k \in Replay(t)' <=> k \in Replay(t)
  <2>1. k \in Replay(t)' <=> \E s \in 1..t : /\ k \in events'[s].asserted
                                             /\ \A r \in s..t : k \notin events'[r].retracted
    BY DEF Replay
  <2>2. \A s \in 1..t : s \in 1..B
    BY DEF LogGrew
  <2> QED  BY <1>1, <2>1, <2>2, ReplayMember DEF LogGrew
<1> QED  BY <1>2

LEMMA ReplayGrows ==
    ASSUME NEW B, NEW A, NEW R, LogGrew(B, A, R), NEW k
    PROVE  k \in Replay(B + 1)' <=> k \notin R /\ (k \in Replay(B) \/ k \in A)
<1>0. k \in Replay(B + 1)' <=>
         \E s \in 1..(B + 1) : /\ k \in events'[s].asserted
                               /\ \A r \in s..(B + 1) : k \notin events'[r].retracted
  BY DEF Replay
<1>1. \A s \in 1..(B + 1) : B + 1 \in s..(B + 1)
  BY DEF LogGrew
<1>2. \A s \in 1..B : /\ s \in 1..(B + 1)
                      /\ \A r \in s..(B + 1) : r = B + 1 \/ (r \in s..B /\ r \in 1..B)
                      /\ \A r \in s..B : r \in s..(B + 1) /\ r \in 1..B
  BY DEF LogGrew
<1>3. ASSUME k \in Replay(B + 1)'
      PROVE  k \notin R /\ (k \in Replay(B) \/ k \in A)
  <2>1. PICK s \in 1..(B + 1) : /\ k \in events'[s].asserted
                                /\ \A r \in s..(B + 1) : k \notin events'[r].retracted
    BY <1>0, <1>3
  <2>2. k \notin R
    BY <1>1, <2>1 DEF LogGrew
  <2>3. CASE s \in 1..B
    <3>1. k \in events[s].asserted /\ \A r \in s..B : k \notin events[r].retracted
      BY <1>2, <2>1, <2>3 DEF LogGrew
    <3> QED  BY <2>2, <2>3, <3>1, ReplayMember
  <2>4. CASE s = B + 1
    BY <2>1, <2>2, <2>4 DEF LogGrew
  <2> QED  BY <2>1, <2>3, <2>4 DEF LogGrew
<1>4. ASSUME k \notin R, k \in Replay(B)
      PROVE  k \in Replay(B + 1)'
  <2>1. PICK s \in 1..B : /\ k \in events[s].asserted
                          /\ \A r \in s..B : k \notin events[r].retracted
    BY <1>4, ReplayMember
  <2>2. k \in events'[s].asserted /\ \A r \in s..(B + 1) : k \notin events'[r].retracted
    BY <1>2, <1>4, <2>1 DEF LogGrew
  <2> QED  BY <1>0, <1>2, <2>1, <2>2
<1>5. ASSUME k \notin R, k \in A
      PROVE  k \in Replay(B + 1)'
  <2>1. B + 1 \in 1..(B + 1) /\ \A r \in (B + 1)..(B + 1) : r = B + 1
    BY DEF LogGrew
  <2> QED  BY <1>0, <1>5, <2>1 DEF LogGrew
<1> QED  BY <1>3, <1>4, <1>5

-----------------------------------------------------------------------------
(* The log and the rows. *)
Agree(t) ==
    \A k : Historic(facts, k.a) => (k \in Replay(t) <=> k \in Triples(Shown(facts, t)))

LEMMA MatchesMeansAgree ==
    ASSUME NEW t
    PROVE  Agree(t) <=>
           {k \in Replay(t) : Historic(facts, k.a)} = HistoricTriples(AsOf(facts, t))
BY DEF Agree, HistoricTriples, Shown

LEMMA LogMatchesAgree ==
    LogMatches <=> ((\A t \in 1..Basis : events[t].retained) => \A t \in 1..Basis : Agree(t))
BY MatchesMeansAgree DEF LogMatches

LEMMA LiveShown ==
    ASSUME IInv
    PROVE  Shown(facts, Basis) = Domain(Live(facts))
<1>1. \A f \in facts : f.tx <= Basis /\ ~(f.rx > Basis)
  BY RowGrows DEF IInv, StoreOK, RowsOK, EventsOK, Basis
<1> QED  BY <1>1 DEF Shown, Domain, AsOf, Live

LEMMA HistoricShrinks ==
    ASSUME IInv, Commit, NEW a, Historic(facts', a)
    PROVE  Historic(facts, a)
<1>0. phase = "diff" /\ CommitRows(facts') /\ Basis \in Nat
  BY CommitEffect, CommitEvent DEF Diffed
<1> SUFFICES ASSUME NEW g \in facts, g.a = "fgraph/nohistory", g.e = a, g.v = "true"
             PROVE  FALSE
  BY DEF Historic
<1>1. CASE g \notin dropped
  BY <1>0, <1>1 DEF CommitRows, Historic
<1>2. CASE g \in Ended
  BY <1>0, <1>2, EndedRows DEF CommitRows, Historic
<1>3. CASE g \in dropped \ Ended
  <2>1. PICK h \in facts \cup Fresh : h.a = "fgraph/nohistory" /\ h.e = "fgraph/nohistory"
    BY <1>0, <1>3, DeletedIsDeclared DEF Live
  <2>2. h.e \in Ref
    <3>1. CASE h \in facts
      BY <2>1, <3>1 DEF IInv, StoreOK, RowsOK, RowOK, FactRow, MarkRow, UndoneRow
    <3>2. CASE h \in Fresh
      BY <1>0, <3>2, FreshRows DEF FreshOK, FactRow
    <3> QED  BY <3>1, <3>2
  <2> QED  BY <2>1, <2>2, References DEF SchemaAttr, Flags
<1> QED  BY <1>1, <1>2, <1>3

LEMMA CommitLog ==
    ASSUME IInv, Commit
    PROVE  LogGrew(Basis, Triples(Fresh), Triples(Ended)) /\ events'[Basis + 1].retained
<1>1. /\ EventsOK /\ Len(events') = Basis + 1 /\ Basis \in Nat
      /\ \A t \in 1..Basis : events'[t] = events[t]
      /\ events'[Basis + 1] = Event(Triples(Fresh), Triples(Ended), {}, None)
      /\ \A t \in 1..(Basis + 1) : t \in 1..Basis \/ t = Basis + 1
  BY CommitEvent DEF IInv, StoreOK
<1> QED  BY <1>1 DEF LogGrew, Event, EventsOK

LEMMA CommitAgrees ==
    ASSUME IInv, Commit, \A t \in 1..Basis : Agree(t), NEW t \in 1..(Basis + 1)
    PROVE  Agree(t)'
<1> PICK B : B = Basis
  OBVIOUS
<1>0. /\ phase = "diff" /\ CommitRows(facts')
      /\ LogGrew(B, Triples(Fresh), Triples(Ended))
  BY CommitEffect, CommitLog DEF Diffed
<1>1. B \in Nat /\ B \in 1..B /\ (t \in 1..B \/ t = B + 1)
  BY <1>0 DEF LogGrew
<1> SUFFICES ASSUME NEW k, Historic(facts', k.a)
             PROVE  k \in Replay(t)' <=> k \in Triples(Shown(facts', t))
  BY DEF Agree
<1>2. Historic(facts, k.a)
  BY HistoricShrinks
<1>3. CASE t \in 1..B
  <2>1. k \in Replay(t)' <=> k \in Triples(Shown(facts, t))
    BY <1>0, <1>2, <1>3, ReplayKept DEF Agree
  <2>2. /\ \A f \in Shown(facts', t) : Triple(f) \in Triples(Shown(facts, t))
        /\ \A f \in Shown(facts, t) : Historic(facts, f.a) /\ Historic(facts', f.a)
              => Triple(f) \in Triples(Shown(facts', t))
    BY <1>3, CommitPast
  <2>3. \A f : Triple(f).a = f.a
    BY DEF Triple
  <2> QED  BY <1>2, <2>1, <2>2, <2>3 DEF Triples
<1>4. CASE t = B + 1
  <2>1. k \in Replay(B) <=> k \in Triples(Domain(Live(facts)))
    BY <1>1, <1>2, LiveShown DEF Agree
  <2>2. k \in Replay(t)' <=> k \notin Triples(Ended) /\ (k \in Replay(B) \/ k \in Triples(Fresh))
    BY <1>0, <1>4, ReplayGrows
  <2>3. Shown(facts', t) = Domain(Live(facts'))
    <3>1. IInv' /\ Basis' = t
      BY <1>4, CommitIInv, CommitEvent DEF Basis
    <3>2. \A f \in facts' : f.tx <= t /\ ~(f.rx > t)
      BY <3>1, RowGrows DEF IInv, StoreOK, RowsOK, EventsOK, Basis
    <3> QED  BY <3>2 DEF Shown, Domain, AsOf, Live
  <2>4. ASSUME k \in Replay(t)' PROVE k \in Triples(Domain(Live(facts')))
    <3>1. CASE k \in Triples(Fresh)
      <4>1. PICK f \in Fresh : k = Triple(f)
        BY <3>1 DEF Triples
      <4>2. f \in facts' /\ f.rx = Null /\ f.a \in UserAttr
        BY <1>0, FreshRows DEF CommitRows, FreshOK, FactRow
      <4>3. f \in Domain(Live(facts'))
        BY <4>2, UserAttrs DEF Domain, Live
      <4> QED  BY <4>1, <4>3 DEF Triples
    <3>2. CASE k \in Replay(B)
      <4>1. PICK f \in Domain(Live(facts)) : k = Triple(f)
        BY <2>1, <3>2 DEF Triples
      <4>2. k.a = f.a /\ f \notin Ended
        BY <2>2, <2>4, <4>1 DEF Triple, Triples
      <4>3. f \notin dropped
        <5> SUFFICES ASSUME f \in dropped \ Ended PROVE FALSE
          BY <4>2
        <5>1. PICK g \in facts \cup Fresh :
                 g.a = "fgraph/nohistory" /\ g.e = k.a /\ g.v = "true"
          BY <1>0, <4>2, DeletedIsDeclared DEF Live
        <5> QED  BY <1>0, <1>2, <5>1 DEF Historic, CommitRows
      <4>4. f \in Domain(Live(facts'))
        BY <1>0, <4>1, <4>3 DEF CommitRows, Domain, Live
      <4> QED  BY <4>1, <4>4 DEF Triples
    <3> QED  BY <2>2, <2>4, <3>1, <3>2
  <2>5. ASSUME k \in Triples(Domain(Live(facts'))) PROVE k \in Replay(t)'
    <3>1. PICK f \in Domain(Live(facts')) : k = Triple(f)
      BY <2>5 DEF Triples
    <3>2. f \in facts' /\ f.rx = Null /\ f.a \notin AuditAttr
      BY DEF Domain, Live
    <3>3. CASE f \in facts \ dropped
      <4>1. f \in Domain(Live(facts))
        BY <3>2, <3>3 DEF Domain, Live
      <4>2. k \in Replay(B)
        BY <2>1, <3>1, <4>1 DEF Triples
      <4>3. ASSUME NEW d \in Ended, Triple(d) = k PROVE FALSE
        <5>1. d \in dropped /\ d \in Live(facts)
          BY <1>0, EndedRows DEF Domain
        <5>2. d = f
          BY <3>1, <4>1, <4>3, <5>1 DEF IInv, StoreOK, LiveUnique, Domain
        <5> QED  BY <3>3, <5>1, <5>2
      <4> QED  BY <2>2, <4>2, <4>3 DEF Triples
    <3>4. CASE f \in Fresh
      <4>1. PICK i \in Final : Triple(f) = Triple(plan[i])
        BY <1>0, <3>4, FreshRows DEF FreshOK
      <4>2. ASSUME NEW d \in Ended PROVE Triple(d) # k
        BY <1>0, <3>1, <4>1, EndedRows DEF IInv, DiffOK
      <4> QED  BY <2>2, <3>1, <3>4, <4>2 DEF Triples
    <3>5. f \notin UndoAudit(Basis + 1)
      BY <3>2, AuditRows DEF AuditAttr
    <3>6. \A d \in Ended : f # EndedRow(d)
      <4>1. \A d \in Ended : EndedRow(d).rx # Null
        BY <1>0, <1>1, EndedRows DEF Null
      <4> QED  BY <3>2, <4>1
    <3> QED  BY <1>0, <3>2, <3>3, <3>4, <3>5, <3>6 DEF CommitRows
  <2> QED  BY <2>3, <2>4, <2>5
<1> QED  BY <1>1, <1>3, <1>4

(* An excision that redacts nothing leaves the log and the rows as they were. *)
LEMMA ExciseAgrees ==
    ASSUME IInv, NEW x \in Ref, Excise(x), \A t \in 1..Basis : events'[t].retained,
           \A t \in 1..Basis : Agree(t), NEW t \in 1..(Basis + 1)
    PROVE  Agree(t)'
<1> PICK B : B = Basis
  OBVIOUS
<1>0. /\ facts' = (facts \ ExcisedRows(x)) \cup {Mark(x)}
      /\ Len(events') = B + 1 /\ B \in Nat
      /\ \A s \in 1..B : events'[s] = Redaction(x, s)
      /\ events'[B + 1] = Event({}, {}, Redacts(x), x)
      /\ \A s \in 1..(B + 1) : s \in 1..B \/ s = B + 1
      /\ Redacts(x) \subseteq 1..B
  BY ExciseEffect, ExciseEvent
<1>1. \A s \in 1..B : events[s] \in EventRecord
  BY DEF IInv, StoreOK, EventsOK, Basis
<1>2. Redacts(x) = {}
  BY <1>0, <1>1, RedactedEvent DEF Redaction
<1>3. ExcisedRows(x) = {}
  BY <1>2 DEF Redacts
<1>4. LogGrew(B, {}, {})
  BY <1>0, <1>2 DEF LogGrew, Redaction, Event, IInv, StoreOK, EventsOK
<1>5. ASSUME NEW a PROVE Historic(facts', a) <=> Historic(facts, a)
  BY <1>0, <1>3, Marks DEF Historic
<1>6. ASSUME NEW s PROVE Shown(facts', s) = Shown(facts, s)
  <2>1. Mark(x).a \in AuditAttr
    BY Marks DEF AuditAttr
  <2> QED  BY <1>0, <1>3, <2>1 DEF Shown, Domain, AsOf
<1>7. CASE t \in 1..B
  <2>1. Replay(t)' = Replay(t) /\ Agree(t)
    BY <1>4, <1>7, ReplayKept
  <2> QED  BY <1>5, <1>6, <2>1 DEF Agree
<1>8. CASE t = B + 1
  <2>1. Agree(B)
    BY <1>4 DEF LogGrew
  <2>2. \A k : k \in Replay(t)' <=> k \in Replay(B)
    BY <1>4, <1>8, ReplayGrows
  <2>3. Shown(facts, t) = Shown(facts, B)
    <3>1. \A f \in facts : f.tx <= B /\ f.tx <= t /\ ~(f.rx > B) /\ ~(f.rx > t)
      BY <1>0, <1>8, RowGrows DEF IInv, StoreOK, RowsOK
    <3> QED  BY <3>1 DEF Shown, Domain, AsOf
  <2> QED  BY <1>5, <1>6, <2>1, <2>2, <2>3 DEF Agree
<1> QED  BY <1>0, <1>7, <1>8

LEMMA InitLogMatches == Init => LogMatches
<1> SUFFICES ASSUME Init PROVE LogMatches
  OBVIOUS
<1> DEFINE T == {load.seed[i] : i \in DOMAIN load.seed}
<1>1. /\ events = <<Event({}, {}, {}, None), Event(T, {}, {}, None)>>
      /\ facts = {Row(load.seed[i], 2, i) : i \in DOMAIN load.seed}
  BY DEF Init, Genesis
<1>2. \A i \in DOMAIN load.seed : load.seed[i] \in TripleSet
  BY WorkloadTyped DEF Init
<1>3. /\ Basis = 2 /\ events[1].asserted = {} /\ events[2].asserted = T
      /\ events[1].retracted = {} /\ events[2].retracted = {}
  <2> HIDE DEF T
  <2> QED  BY <1>1 DEF Basis, Event
<1>4. \A f \in facts : f.tx = 2
  BY <1>1 DEF Row
<1>5. Agree(1)
  <2>1. Shown(facts, 1) = {}
    BY <1>4 DEF Shown, Domain, AsOf
  <2>2. \A k : k \notin Replay(1)
    BY <1>3, ReplayMember
  <2> QED  BY <2>1, <2>2 DEF Agree, Triples
<1>6. Agree(2)
  <2>1. \A k : k \in Replay(2) <=> k \in T
    <3>1. \A s \in 1..2 : (s = 1 \/ s = 2) /\ \A r \in s..2 : r = 1 \/ r = 2
      OBVIOUS
    <3> HIDE DEF T
    <3> QED  BY <1>3, <3>1, ReplayMember
  <2>2. ASSUME NEW i \in DOMAIN load.seed
        PROVE  /\ Triple(Row(load.seed[i], 2, i)) = load.seed[i]
               /\ Row(load.seed[i], 2, i) \in Shown(facts, 2)
    <3>1. load.seed[i].a \notin AuditAttr /\ load.seed[i] \in TripleSet
      BY <1>2, UserAttrs DEF TripleSet
    <3>2. Row(load.seed[i], 2, i) \in facts
      BY <1>1
    <3> QED  BY <3>1, <3>2 DEF Row, Shown, Domain, AsOf, Triple, TripleSet
  <2>3. \A f \in Shown(facts, 2) : \E i \in DOMAIN load.seed : f = Row(load.seed[i], 2, i)
    BY <1>1 DEF Shown, Domain, AsOf
  <2>4. \A k : k \in Triples(Shown(facts, 2)) <=> k \in T
    BY <2>2, <2>3 DEF Triples
  <2> QED  BY <2>1, <2>4 DEF Agree
<1>7. \A t \in 1..2 : t = 1 \/ t = 2
  OBVIOUS
<1> QED  BY <1>3, <1>5, <1>6, <1>7, LogMatchesAgree

LEMMA NextLogMatches == IInv /\ LogMatches /\ [Next]_vars => LogMatches'
<1> SUFFICES ASSUME IInv, LogMatches, [Next]_vars PROVE LogMatches'
  OBVIOUS
<1>0. LogMatches' <=>
        ((\A t \in 1..Basis' : events'[t].retained) => \A t \in 1..Basis' : Agree(t)')
  <2>1. ASSUME NEW t PROVE Agree(t)' <=>
          {k \in Replay(t)' : Historic(facts', k.a)}
          = {k \in Triples(Domain(AsOf(facts', t))) : Historic(facts', k.a)}
    BY DEF Agree, Shown
  <2> QED  BY <2>1 DEF LogMatches, HistoricTriples
<1>1. CASE UNCHANGED store
  BY <1>1 DEF LogMatches, store, Basis, Replay, HistoricTriples
<1>2. CASE Commit
  <2>1. /\ Basis' = Basis + 1 /\ Basis \in Nat /\ \A t \in 1..Basis : events'[t] = events[t]
    BY <1>2, CommitEvent DEF Basis
  <2> SUFFICES ASSUME \A t \in 1..(Basis + 1) : events'[t].retained, NEW t \in 1..(Basis + 1)
               PROVE  Agree(t)'
    BY <1>0, <2>1
  <2>2. \A s \in 1..Basis : events[s].retained
    BY <2>1
  <2>3. \A s \in 1..Basis : Agree(s)
    BY <2>2, LogMatchesAgree
  <2> QED  BY <1>2, <2>3, CommitAgrees
<1>3. CASE \E x \in Ref : Excise(x)
  <2>0. PICK x \in Ref : Excise(x)
    BY <1>3
  <2>1. /\ Basis' = Basis + 1 /\ Basis \in Nat
        /\ \A t \in 1..Basis : events'[t] = Redaction(x, t)
    BY <2>0, ExciseEvent DEF Basis
  <2> SUFFICES ASSUME \A t \in 1..(Basis + 1) : events'[t].retained, NEW t \in 1..(Basis + 1)
               PROVE  Agree(t)'
    BY <1>0, <2>1
  <2>2. \A s \in 1..Basis : events'[s].retained
    BY <2>1
  <2>3. \A s \in 1..Basis : events[s].retained
    <3> TAKE s \in 1..Basis
    <3>1. events'[s].retained /\ events'[s] = Redaction(x, s) /\ events[s] \in EventRecord
      BY <2>1, <2>2 DEF IInv, StoreOK, EventsOK, Basis
    <3> QED  BY <3>1, RedactedEvent DEF Redaction
  <2>4. \A s \in 1..Basis : Agree(s)
    BY <2>3, LogMatchesAgree
  <2> QED  BY <2>0, <2>2, <2>4, ExciseAgrees
<1> QED  BY <1>1, <1>2, <1>3, OnlyTwoWrite

(* The event log and the rows tell the same story for every history of
   requests, schema calls and undos: while nothing has been redacted, the
   payloads replayed up to any transaction give the view the rows give. *)
THEOREM LogIsHistory == Spec => []TimeTravelMatchesLog
<1>1. Init => LogMatches
  BY InitLogMatches
<1>2. IInv /\ LogMatches /\ [Next]_vars => LogMatches'
  BY NextLogMatches
<1>3. IInv /\ LogMatches => TimeTravelMatchesLog
  BY DEF IInv, StoreOK, EventsOK, LogMatches, TimeTravelMatchesLog, Basis
<1> QED  BY <1>1, <1>2, <1>3, Invariance, PTL DEF Spec

-----------------------------------------------------------------------------
(* Excision. *)
LEMMA InitAudit == Init => ExcisionsOK /\ Erased /\ RedactionAuditedOnce
<1> SUFFICES ASSUME Init PROVE ExcisionsOK /\ Erased /\ RedactionAuditedOnce
  OBVIOUS
<1> DEFINE T == {load.seed[i] : i \in DOMAIN load.seed}
<1>1. /\ events = <<Event({}, {}, {}, None), Event(T, {}, {}, None)>>
      /\ facts = {Row(load.seed[i], 2, i) : i \in DOMAIN load.seed}
  BY DEF Init, Genesis
<1>2. Basis = 2 /\ \A t \in 1..2 : /\ events[t].excises = None /\ events[t].redacts = {}
                                   /\ events[t].retained
  <2>1. \A t \in 1..2 : t = 1 \/ t = 2
    OBVIOUS
  <2> HIDE DEF T
  <2> QED  BY <1>1, <2>1 DEF Basis, Event
<1>3. \A i \in DOMAIN load.seed : load.seed[i].a \notin AuditAttr
  <2>1. load.seed \in Seq(TripleSet)
    BY WorkloadTyped DEF Init
  <2>2. \A i \in DOMAIN load.seed : load.seed[i].a \in UserAttr
    <3> TAKE i \in DOMAIN load.seed
    <3>1. load.seed[i] \in TripleSet
      BY <2>1
    <3> QED  BY <3>1 DEF TripleSet
  <2> QED  BY <2>2, UserAttrs
<1>4. \A f \in facts : f.a # "fgraph/excised"
  BY <1>1, <1>3 DEF Row, AuditAttr
<1>5. DOMAIN events = 1..2
  <2> HIDE DEF T
  <2> QED  BY <1>1
<1> QED  BY <1>2, <1>4, <1>5 DEF ExcisionsOK, Erased, RedactionAuditedOnce, RedactionAudited

LEMMA CommitExcisions == IInv /\ ExcisionsOK /\ Erased /\ Commit => ExcisionsOK' /\ Erased'
<1> SUFFICES ASSUME IInv, ExcisionsOK, Erased, Commit PROVE ExcisionsOK' /\ Erased'
  OBVIOUS
<1> PICK B : B = Basis
  OBVIOUS
<1>0. phase = "diff" /\ CommitRows(facts')
  BY CommitEffect DEF Diffed
<1>1. /\ Basis' = B + 1 /\ B \in Nat
      /\ \A t \in 1..B : events'[t] = events[t]
      /\ \A t \in 1..(B + 1) : t \in 1..B \/ t = B + 1
      /\ events'[B + 1].excises = None /\ events'[B + 1].redacts = {}
  BY CommitEvent DEF Basis, Event
<1>2. ASSUME NEW f \in facts'
      PROVE  \/ f.tx = B + 1 /\ f.rx = Null /\ f.a # "fgraph/excised"
             \/ f \in facts /\ f.tx \in 1..B
             \/ \E d \in facts : /\ d.tx = f.tx /\ d.a = f.a /\ d.e = f.e /\ d.v = f.v
                                 /\ f.rx = B + 1 /\ f.tx \in 1..B /\ f.a # "fgraph/excised"
  <2>1. CASE f \in facts
    BY <1>1, <2>1, RowGrows DEF IInv, StoreOK, RowsOK
  <2>2. CASE f \in Fresh
    <3>1. f.a \in UserAttr /\ f.tx = B + 1 /\ f.rx = Null
      BY <1>0, <2>2, FreshRows DEF FreshOK, FactRow
    <3> QED  BY <3>1, UserAttrs DEF AuditAttr
  <2>3. CASE f \in UndoAudit(Basis + 1)
    BY <2>3, AuditRows
  <2>4. CASE \E d \in Ended : f = EndedRow(d)
    <3>1. PICK d \in Ended : f = EndedRow(d)
      BY <2>4
    <3>2. /\ d \in facts /\ d.tx = f.tx /\ d.a = f.a /\ d.e = f.e /\ d.v = f.v
          /\ f.rx = B + 1 /\ d.a \notin AuditAttr
      BY <1>0, <3>1, EndedRows DEF Domain, Live
    <3>3. d.tx \in 1..B
      BY <1>1, <3>2, RowGrows DEF IInv, StoreOK, RowsOK
    <3> QED  BY <3>2, <3>3 DEF AuditAttr
  <2> QED  BY <1>0, <2>1, <2>2, <2>3, <2>4 DEF CommitRows
<1>3. \A s \in 1..(B + 1) : events'[s].redacts # {} => events'[s].excises # None
  BY <1>1 DEF ExcisionsOK
<1>4. ASSUME NEW s \in 1..(B + 1), events'[s].excises # None
      PROVE  /\ events'[s].asserted = {} /\ events'[s].retracted = {}
             /\ \A f \in facts' : f.rx # s /\ (f.tx = s => f.a = "fgraph/excised")
  <2>1. s \in 1..B /\ s # B + 1 /\ s # Null /\ events[s].excises # None /\ events'[s] = events[s]
    BY <1>1, <1>4 DEF Null
  <2>2. /\ events[s].asserted = {} /\ events[s].retracted = {}
        /\ \A f \in facts : f.rx # s /\ (f.tx = s => f.a = "fgraph/excised")
    BY <2>1 DEF ExcisionsOK
  <2> QED  BY <1>2, <2>1, <2>2
<1>5. \A f \in facts' : f.a = "fgraph/excised" => events'[f.tx].excises = f.v
  <2> SUFFICES ASSUME NEW f \in facts', f.a = "fgraph/excised"
               PROVE  events'[f.tx].excises = f.v
    OBVIOUS
  <2>1. f \in facts /\ f.tx \in 1..B
    BY <1>2
  <2> QED  BY <1>1, <2>1 DEF ExcisionsOK
<1>6. ExcisionsOK'
  BY <1>1, <1>3, <1>4, <1>5 DEF ExcisionsOK
<1>7. ASSUME NEW t \in 1..(B + 1), events'[t].excises # None
      PROVE  /\ \A f \in facts' : f.tx < t => ~Mentions(f, events'[t].excises)
             /\ \A s \in 1..(t - 1) :
                   \A k \in events'[s].asserted \cup events'[s].retracted :
                       ~Mentions(k, events'[t].excises)
  <2>1. t \in 1..B /\ events[t].excises # None /\ events'[t] = events[t]
    BY <1>1, <1>7
  <2>2. /\ \A f \in facts : f.tx < t => ~Mentions(f, events[t].excises)
        /\ \A s \in 1..(t - 1) :
              \A k \in events[s].asserted \cup events[s].retracted :
                  ~Mentions(k, events[t].excises)
    BY <2>1 DEF Erased
  <2>3. \A s \in 1..(t - 1) : s \in 1..B /\ events'[s] = events[s]
    BY <1>1, <2>1
  <2>4. \A f \in facts' : f.tx < t => ~Mentions(f, events[t].excises)
    BY <1>1, <1>2, <2>1, <2>2 DEF Mentions
  <2> QED  BY <2>1, <2>2, <2>3, <2>4
<1>8. Erased'
  BY <1>1, <1>7 DEF Erased
<1> QED  BY <1>6, <1>8

LEMMA ExciseExcisions ==
    ASSUME IInv, ExcisionsOK, Erased, NEW x \in Ref, Excise(x)
    PROVE  ExcisionsOK' /\ Erased'
<1> PICK B : B = Basis
  OBVIOUS
<1>0. /\ facts' = (facts \ ExcisedRows(x)) \cup {Mark(x)}
      /\ Basis' = B + 1 /\ B \in Nat
      /\ \A t \in 1..B : events'[t] = Redaction(x, t)
      /\ events'[B + 1] = Event({}, {}, Redacts(x), x)
      /\ \A t \in 1..(B + 1) : t \in 1..B \/ t = B + 1
  BY ExciseEffect, ExciseEvent DEF Basis
<1>1. /\ Mark(x).tx = B + 1 /\ Mark(x).a = "fgraph/excised" /\ Mark(x).rx = Null /\ Mark(x).v = x
      /\ \A f \in facts : f.tx \in 1..B /\ f.rx \in 0..B
      /\ x # None
  BY <1>0, Marks, References, RowGrows DEF IInv, StoreOK, RowsOK
<1>2. /\ events'[B + 1].asserted = {} /\ events'[B + 1].retracted = {}
      /\ events'[B + 1].excises = x
  BY <1>0 DEF Event
<1>3. ASSUME NEW t \in 1..B
      PROVE  /\ events'[t].excises = events[t].excises
             /\ events'[t].redacts # {} => events[t].redacts # {}
             /\ events'[t].asserted \subseteq events[t].asserted
             /\ events'[t].retracted \subseteq events[t].retracted
             /\ t \in Redacts(x) => events'[t].asserted = {} /\ events'[t].retracted = {}
  <2>1. events[t] \in EventRecord /\ events'[t] = Redaction(x, t)
    BY <1>0 DEF IInv, StoreOK, EventsOK, Basis
  <2> QED  BY <2>1, RedactedEvent DEF Redaction
<1>4. \A s \in 1..(B + 1) : events'[s].redacts # {} => events'[s].excises # None
  BY <1>0, <1>1, <1>2, <1>3 DEF ExcisionsOK
<1>5. ASSUME NEW s \in 1..(B + 1), events'[s].excises # None
      PROVE  /\ events'[s].asserted = {} /\ events'[s].retracted = {}
             /\ \A f \in facts' : f.rx # s /\ (f.tx = s => f.a = "fgraph/excised")
  <2>1. CASE s = B + 1
    BY <1>0, <1>1, <1>2, <2>1 DEF Null
  <2>2. CASE s \in 1..B
    <3>1. events[s].excises # None
      BY <1>3, <1>5, <2>2
    <3>2. /\ events[s].asserted = {} /\ events[s].retracted = {}
          /\ \A f \in facts : f.rx # s /\ (f.tx = s => f.a = "fgraph/excised")
      BY <2>2, <3>1 DEF ExcisionsOK
    <3>3. events'[s].asserted = {} /\ events'[s].retracted = {}
      BY <1>3, <2>2, <3>2
    <3>4. s # Null
      BY <2>2 DEF Null
    <3> QED  BY <1>0, <1>1, <3>2, <3>3, <3>4
  <2> QED  BY <1>0, <2>1, <2>2
<1>6. \A f \in facts' : f.a = "fgraph/excised" => events'[f.tx].excises = f.v
  BY <1>0, <1>1, <1>2, <1>3 DEF ExcisionsOK
<1>7. ExcisionsOK'
  BY <1>0, <1>4, <1>5, <1>6 DEF ExcisionsOK
<1>8. ASSUME NEW t \in 1..(B + 1), events'[t].excises # None
      PROVE  /\ \A f \in facts' : f.tx < t => ~Mentions(f, events'[t].excises)
             /\ \A s \in 1..(t - 1) :
                   \A k \in events'[s].asserted \cup events'[s].retracted :
                       ~Mentions(k, events'[t].excises)
  <2>1. CASE t \in 1..B
    <3>1. events'[t].excises = events[t].excises
      BY <1>3, <2>1
    <3>2. /\ \A f \in facts : f.tx < t => ~Mentions(f, events[t].excises)
          /\ \A s \in 1..(t - 1) :
                \A k \in events[s].asserted \cup events[s].retracted :
                    ~Mentions(k, events[t].excises)
      BY <1>8, <2>1, <3>1 DEF Erased
    <3>3. \A s \in 1..(t - 1) : s \in 1..B
      BY <1>0, <2>1
    <3>4. ~(Mark(x).tx < t)
      BY <1>0, <1>1, <2>1
    <3> QED  BY <1>0, <1>3, <3>1, <3>2, <3>3, <3>4
  <2>2. CASE t = B + 1
    <3>1. \A f \in facts' : f.tx < t => ~Mentions(f, x)
      BY <1>0, <1>1, <2>2 DEF ExcisedRows
    <3>2. ASSUME NEW s \in 1..B, NEW k \in events'[s].asserted \cup events'[s].retracted
          PROVE  ~Mentions(k, x)
      <4>1. s \notin Redacts(x) /\ k \in events[s].asserted \cup events[s].retracted
        BY <1>3, <3>2
      <4>2. s \notin NamingEvents(x)
        BY <4>1 DEF Redacts
      <4> QED  BY <4>1, <4>2, <3>2 DEF NamingEvents
    <3>3. \A s \in 1..(t - 1) : s \in 1..B
      BY <1>0, <2>2
    <3> QED  BY <1>2, <2>2, <3>1, <3>2, <3>3
  <2> QED  BY <1>0, <2>1, <2>2
<1>9. Erased'
  BY <1>0, <1>8 DEF Erased
<1> QED  BY <1>7, <1>9

-----------------------------------------------------------------------------
(* Every gap in the log is accounted for. *)
ExcisedOnce ==
    \A s, t \in 1..Basis :
        events[s].excises = events[t].excises /\ events[s].excises # None => s = t

Accounted ==
    \A t \in 1..Basis : events[t].retained \/
        \E s \in 1..Basis : /\ events[s].retained /\ t \in events[s].redacts
                            /\ \E f \in facts : f.rx = Null /\ f.e = s /\ f.a = "fgraph/excised"

LEMMA OnceMeans ==
    ASSUME EventsOK
    PROVE  RedactionAuditedOnce <=> (ExcisedOnce => Accounted)
<1>1. DOMAIN events = 1..Basis
  BY DEF EventsOK, Basis
<1> QED  BY <1>1 DEF RedactionAuditedOnce, RedactionAudited, Audited, ExcisedOnce, Accounted, Live

LEMMA CommitAccounts ==
    ASSUME IInv, Commit, ExcisedOnce => Accounted
    PROVE  ExcisedOnce' => Accounted'
<1> PICK B : B = Basis
  OBVIOUS
<1>0. phase = "diff" /\ CommitRows(facts')
  BY CommitEffect DEF Diffed
<1>1. /\ Basis' = B + 1 /\ B \in Nat
      /\ \A t \in 1..B : events'[t] = events[t] /\ t \in 1..(B + 1)
      /\ \A t \in 1..(B + 1) : t \in 1..B \/ t = B + 1
      /\ events'[B + 1].retained
  BY CommitEvent DEF Basis, Event
<1>2. \A f \in facts : f.a = "fgraph/excised" => f \in facts'
  <2>1. \A f \in dropped : f.a \notin AuditAttr
    BY <1>0, WorkingRows DEF IInv, DiffOK, Domain
  <2> QED  BY <1>0, <2>1 DEF CommitRows, AuditAttr
<1>3. ASSUME ExcisedOnce' PROVE ExcisedOnce
  BY <1>1, <1>3 DEF ExcisedOnce
<1>4. ASSUME Accounted PROVE Accounted'
  <2> SUFFICES ASSUME NEW t \in 1..(B + 1), ~events'[t].retained
               PROVE  \E s \in 1..(B + 1) :
                         /\ events'[s].retained /\ t \in events'[s].redacts
                         /\ \E f \in facts' : f.rx = Null /\ f.e = s /\ f.a = "fgraph/excised"
    BY <1>1 DEF Accounted
  <2>1. t \in 1..B /\ ~events[t].retained
    BY <1>1
  <2>2. PICK s \in 1..B : /\ events[s].retained /\ t \in events[s].redacts
                          /\ \E f \in facts : f.rx = Null /\ f.e = s /\ f.a = "fgraph/excised"
    BY <1>4, <2>1 DEF Accounted
  <2> QED  BY <1>1, <1>2, <2>2
<1> QED  BY <1>3, <1>4

LEMMA ExciseAccounts ==
    ASSUME IInv, ExcisionsOK, NEW x \in Ref, Excise(x), ExcisedOnce => Accounted
    PROVE  ExcisedOnce' => Accounted'
<1> PICK B : B = Basis
  OBVIOUS
<1>0. /\ facts' = (facts \ ExcisedRows(x)) \cup {Mark(x)}
      /\ Basis' = B + 1 /\ B \in Nat /\ B + 1 \in 1..(B + 1)
      /\ \A t \in 1..B : events'[t] = Redaction(x, t) /\ t \in 1..(B + 1) /\ t # B + 1
      /\ events'[B + 1] = Event({}, {}, Redacts(x), x)
      /\ \A t \in 1..(B + 1) : t \in 1..B \/ t = B + 1
  BY ExciseEffect, ExciseEvent DEF Basis
<1>1. /\ events'[B + 1].retained /\ events'[B + 1].redacts = Redacts(x)
      /\ events'[B + 1].excises = x /\ x # None
  BY <1>0, References DEF Event
<1>2. ASSUME NEW t \in 1..B
      PROVE  /\ events'[t].excises = events[t].excises
             /\ t \notin Redacts(x) => events'[t] = events[t]
  <2>1. events[t] \in EventRecord /\ events'[t] = Redaction(x, t)
    BY <1>0 DEF IInv, StoreOK, EventsOK, Basis
  <2> QED  BY <2>1, RedactedEvent DEF Redaction
<1> SUFFICES ASSUME ExcisedOnce' PROVE Accounted'
  OBVIOUS
<1>3. \A s \in 1..B : events[s].excises # x
  <2> SUFFICES ASSUME NEW s \in 1..B, events[s].excises = x PROVE FALSE
    OBVIOUS
  <2>1. events'[s].excises = events'[B + 1].excises /\ events'[s].excises # None
    BY <1>1, <1>2
  <2> QED  BY <1>0, <2>1 DEF ExcisedOnce
<1>4. Accounted
  <2>1. ExcisedOnce
    BY <1>0, <1>2 DEF ExcisedOnce
  <2> QED  BY <2>1
<1>5. ASSUME NEW s \in 1..B, events[s].excises # None
      PROVE  s \notin Redacts(x)
  <2>1. \A f \in facts : f.rx # s /\ (f.tx = s => f.a = "fgraph/excised")
        /\ events[s].asserted = {} /\ events[s].retracted = {}
    BY <1>5 DEF ExcisionsOK
  <2>2. s \notin NamingEvents(x)
    BY <2>1, <1>5 DEF NamingEvents, ExcisionsOK
  <2>3. ASSUME NEW f \in facts, f.tx = s, Mentions(f, x) PROVE FALSE
    <3>1. f.a = "fgraph/excised" /\ f.v = events[s].excises
      BY <2>1, <2>3 DEF ExcisionsOK
    <3>2. f \in MarkRow(B)
      <4>1. f.a \in AuditAttr /\ RowOK(f, B)
        BY <3>1 DEF AuditAttr, IInv, StoreOK, RowsOK
      <4>2. f \notin FactRow(B)
        BY <4>1, UserAttrs DEF FactRow
      <4> QED  BY <3>1, <4>1, <4>2 DEF RowOK, UndoneRow
    <3>3. f.e \in Nat
      BY <1>0, <3>2 DEF MarkRow
    <3>4. f.e # x /\ f.a # x
      BY <3>1, <3>3, References DEF AuditAttr
    <3>5. f.v # x
      BY <1>3, <3>1
    <3> QED  BY <2>3, <3>4, <3>5 DEF Mentions
  <2> QED  BY <2>1, <2>2, <2>3 DEF Redacts, ExcisedRows
<1>6. ASSUME NEW t \in 1..(B + 1), ~events'[t].retained
      PROVE  \E s \in 1..(B + 1) :
                /\ events'[s].retained /\ t \in events'[s].redacts
                /\ \E f \in facts' : f.rx = Null /\ f.e = s /\ f.a = "fgraph/excised"
  <2>1. t \in 1..B
    BY <1>0, <1>1, <1>6
  <2>2. CASE t \in Redacts(x)
    <3>1. Mark(x) \in facts' /\ Mark(x).rx = Null /\ Mark(x).e = B + 1
          /\ Mark(x).a = "fgraph/excised"
      BY <1>0, Marks
    <3> QED  BY <1>0, <1>1, <2>2, <3>1
  <2>3. CASE t \notin Redacts(x)
    <3>1. ~events[t].retained
      BY <1>2, <1>6, <2>1, <2>3
    <3>2. PICK s \in 1..B : /\ events[s].retained /\ t \in events[s].redacts
                            /\ \E f \in facts : f.rx = Null /\ f.e = s /\ f.a = "fgraph/excised"
      BY <1>4, <2>1, <3>1 DEF Accounted
    <3>3. PICK f \in facts : f.rx = Null /\ f.e = s /\ f.a = "fgraph/excised"
      BY <3>2
    <3>4. events[s].excises # None
      BY <3>2 DEF ExcisionsOK
    <3>5. events'[s] = events[s] /\ s \notin Redacts(x)
      BY <1>2, <1>5, <3>4
    <3>6. f.tx = s
      <4>1. f.a \in AuditAttr /\ RowOK(f, B)
        BY <3>3 DEF AuditAttr, IInv, StoreOK, RowsOK
      <4>2. f \notin FactRow(B)
        BY <4>1, UserAttrs DEF FactRow
      <4> QED  BY <3>3, <4>1, <4>2 DEF RowOK
    <3>7. f \notin ExcisedRows(x)
      BY <3>5, <3>6 DEF Redacts
    <3>8. f \in facts'
      BY <1>0, <3>7
    <3> QED  BY <1>0, <3>2, <3>3, <3>5, <3>8
  <2> QED  BY <2>2, <2>3
<1> QED  BY <1>0, <1>6 DEF Accounted

LEMMA NextAudit == IInv /\ AuditInv /\ [Next]_vars => AuditInv'
<1> SUFFICES ASSUME IInv, AuditInv, [Next]_vars PROVE AuditInv'
  OBVIOUS
<1>0. IInv' /\ EventsOK /\ EventsOK'
  BY NextIInv DEF IInv, StoreOK
<1>1. CASE UNCHANGED store
  <2>1. ExcisionsOK' /\ Erased'
    BY <1>1 DEF AuditInv, ExcisionsOK, Erased, store, Basis
  <2>2. RedactionAuditedOnce'
    BY <1>1 DEF AuditInv, RedactionAuditedOnce, RedactionAudited, Audited, store
  <2> QED  BY <2>1, <2>2 DEF AuditInv
<1>2. ExcisedOnce => Accounted
  BY <1>0, OnceMeans DEF AuditInv
<1>3. ASSUME ExcisedOnce' => Accounted' PROVE RedactionAuditedOnce'
  <2>1. DOMAIN events' = 1..Basis'
    BY <1>0 DEF EventsOK, Basis
  <2> QED  BY <1>3, <2>1 DEF RedactionAuditedOnce, RedactionAudited, Audited, ExcisedOnce,
                             Accounted, Live
<1>4. CASE Commit
  <2>1. ExcisionsOK' /\ Erased'
    BY <1>4, CommitExcisions DEF AuditInv
  <2>2. ExcisedOnce' => Accounted'
    BY <1>2, <1>4, CommitAccounts
  <2> QED  BY <1>3, <2>1, <2>2 DEF AuditInv
<1>5. CASE \E x \in Ref : Excise(x)
  <2>0. PICK x \in Ref : Excise(x)
    BY <1>5
  <2>1. ExcisionsOK' /\ Erased'
    BY <2>0, ExciseExcisions DEF AuditInv
  <2>2. ExcisedOnce' => Accounted'
    BY <1>2, <2>0, ExciseAccounts DEF AuditInv
  <2> QED  BY <1>3, <2>1, <2>2 DEF AuditInv
<1> QED  BY <1>1, <1>4, <1>5, OnlyTwoWrite

(* An excision is complete, for every history of writes, undos and excisions:
   no row and no retained payload from before it mentions the entity, and
   while no entity is excised twice every payload that is missing is named by
   a retained excision event whose marker is live. *)
THEOREM ExcisionIsComplete == Spec => []ExcisionComplete
<1>1. Init => AuditInv
  BY InitAudit DEF AuditInv
<1>2. IInv /\ AuditInv /\ [Next]_vars => AuditInv'
  BY NextAudit
<1>3. IInv /\ AuditInv => ExcisionComplete
  <2> SUFFICES ASSUME IInv, AuditInv PROVE ExcisionComplete
    OBVIOUS
  <2>1. DOMAIN events = 1..Basis
    BY DEF IInv, StoreOK, EventsOK, Basis
  <2>2. ExciseErases
    BY <2>1 DEF AuditInv, Erased, ExciseErases
  <2> QED  BY <2>2 DEF AuditInv, ExcisionComplete
<1> QED  BY <1>1, <1>2, <1>3, Invariance, PTL DEF Spec

-----------------------------------------------------------------------------
(* What a request demands. *)

(* The operations a cas planned: a retraction of the cell if it holds
   anything, then the assertion of the new value if there is one; no other
   cas of the request has the cell. *)
CasOp(i, c) == plan[i].cas /\ plan[i].e = c.e /\ plan[i].a = c.a
CasRetracts(i, c) == CasOp(i, c) /\ plan[i].op = "retract" /\ plan[i].v = None
CasAsserts(i, c) == CasOp(i, c) /\ plan[i].op = "assert" /\ plan[i].v = c.new
CellHeld(c) == \E f \in Live(facts) : f.e = c.e /\ f.a = c.a

CasOK ==
    /\ cas \subseteq CasSet
    /\ \A c, d \in cas : c.e = d.e /\ c.a = d.a => c = d
    /\ \A i \in DOMAIN plan : plan[i].cas =>
          \E c \in cas : CasRetracts(i, c) \/ CasAsserts(i, c)
    /\ \A c \in cas : c.new # None => \E i \in DOMAIN plan : CasAsserts(i, c)
    /\ \A c \in cas : CellHeld(c) => \E i \in DOMAIN plan : CasRetracts(i, c)
    /\ \A c \in cas : \A i, j \in DOMAIN plan :
          CasAsserts(i, c) /\ CasRetracts(j, c) => j < i

(* The diff loop, seen from an entity retracted whole and from a swapped cell. *)
InCell(w, c) == w.e = c.e /\ w.a = c.a

LeftAlone(j) == \A i \in DOMAIN plan : i > j /\ plan[i].op = "assert" =>
                    plan[i].e # plan[j].e /\ plan[i].v # plan[j].e

EffectsOK ==
    phase = "diff" =>
        /\ ValidateCASIsolation
        /\ \A j \in 1..cursor : plan[j].op = "retract" /\ plan[j].a = None /\ LeftAlone(j) =>
              \A w \in working : w.e # plan[j].e /\ w.v # plan[j].e
        /\ \A c \in cas : c.new \notin Ref =>
              IF \E i \in 1..cursor : CasAsserts(i, c)
              THEN /\ \E w \in working : InCell(w, c) /\ w.v = c.new
                   /\ \A w \in working : InCell(w, c) => w.v = c.new
              ELSE ~CellHeld(c) \/ (\E j \in 1..cursor : CasRetracts(j, c)) =>
                      \A w \in working : ~InCell(w, c)

LEMMA InitRequests == Init => CasOK /\ EffectsOK
BY DEF Init, CasOK, EffectsOK

LEMMA NoneIsNoValue == None \notin Value
BY NamesAssumption, NoneAssumption DEF Value, Ref

(* Appending an operation that is not of a cas. *)
LEMMA PlainCasOK ==
    ASSUME IInv, CasOK, NEW op, ~op.cas, plan' = Append(plan, op), cas' = cas, facts' = facts
    PROVE  CasOK'
<1> PICK n : n = Len(plan)
  OBVIOUS
<1>1. /\ n \in Nat /\ DOMAIN plan = 1..n /\ DOMAIN plan' = 1..(n + 1)
      /\ \A i \in 1..n : plan'[i] = plan[i] /\ i \in 1..(n + 1)
      /\ plan'[n + 1] = op
      /\ \A i \in 1..(n + 1) : i \in 1..n \/ i = n + 1
  BY DEF IInv, PlanOK
<1>2. \A i \in 1..n : \A c : /\ CasRetracts(i, c)' <=> CasRetracts(i, c)
                             /\ CasAsserts(i, c)' <=> CasAsserts(i, c)
  BY <1>1 DEF CasRetracts, CasAsserts, CasOp
<1>3. \A i \in 1..(n + 1) : \A c : CasRetracts(i, c)' \/ CasAsserts(i, c)' => i \in 1..n
  BY <1>1 DEF CasRetracts, CasAsserts, CasOp
<1>4. \A c : CellHeld(c)' <=> CellHeld(c)
  BY DEF CellHeld
<1> QED  BY <1>1, <1>2, <1>3, <1>4 DEF CasOK

LEMMA PlanCASOK ==
    ASSUME IInv, CasOK, NEW in \in load.ops, PlanRequest(in), PlanCAS(in)
    PROVE  CasOK'
<1> PICK n : n = Len(plan)
  OBVIOUS
<1> PICK r : r = Planned("retract", in.e, in.a, None, TRUE)
  OBVIOUS
<1> PICK s : s = Planned("assert", in.e, in.a, in.new, TRUE)
  OBVIOUS
<1> PICK new : new = [e |-> in.e, a |-> in.a, new |-> in.new]
  OBVIOUS
<1>1. in \in CasInput
  <2>1. in \in AssertInput \cup RetractInput \cup CasInput
    BY WorkloadTyped DEF IInv, PlanOK
  <2> QED  BY <2>1 DEF PlanCAS, AssertInput, RetractInput
<1>2. /\ new \in CasSet /\ new.e = in.e /\ new.a = in.a /\ new.new = in.new
      /\ r.cas /\ r.e = in.e /\ r.a = in.a /\ r.op = "retract" /\ r.v = None
      /\ s.cas /\ s.e = in.e /\ s.a = in.a /\ s.op = "assert" /\ s.v = in.new
  BY <1>1 DEF CasInput, CasSet, Planned
<1>3. facts' = facts /\ cas' = cas \cup {new} /\ ~ \E c \in cas : c.e = in.e /\ c.a = in.a
  BY DEF PlanRequest, PlanCAS, store
<1>4. plan \in Seq(PlanOp) /\ n \in Nat /\ DOMAIN plan = 1..n
  BY DEF IInv, PlanOK
<1> PICK m \in {n, n + 1} : m = IF CellHeld(new) THEN n + 1 ELSE n
  OBVIOUS
<1> PICK l \in {m, m + 1} : l = IF in.new # None THEN m + 1 ELSE m
  OBVIOUS
<1>5. /\ DOMAIN plan' = 1..l /\ \A i \in 1..n : plan'[i] = plan[i]
      /\ m = n + 1 => plan'[m] = r
      /\ l = m + 1 => plan'[l] = s
  <2>1. plan' = plan \o (IF CellHeld(new) THEN <<r>> ELSE <<>>)
                     \o (IF in.new # None THEN <<s>> ELSE <<>>)
    <3>1. {f \in Live(facts) : f.e = in.e /\ f.a = in.a} = {} <=> ~CellHeld(new)
      BY <1>2 DEF CellHeld
    <3> QED  BY <3>1 DEF PlanCAS
  <2>2. r \in PlanOp /\ (in.new # None => s \in PlanOp)
    BY <1>1 DEF CasInput, Planned, PlanOp, AssertOp, RetractOp
  <2>3. PICK p : p = plan \o (IF CellHeld(new) THEN <<r>> ELSE <<>>)
    OBVIOUS
  <2>4. /\ p \in Seq(PlanOp) /\ Len(p) = m /\ \A i \in 1..n : p[i] = plan[i]
        /\ m = n + 1 => p[m] = r
    <3>1. CASE CellHeld(new)
      <4>1. p = plan \o <<r>> /\ m = n + 1
        BY <2>3, <3>1
      <4>2. OneMore(plan, r, p)
        BY <1>4, <2>2, <4>1, ConcatTyped
      <4> QED  BY <4>1, <4>2 DEF OneMore
    <3>2. CASE ~CellHeld(new)
      <4>1. p = plan /\ m = n /\ m # n + 1
        BY <1>4, <2>2, <2>3, <3>2, ConcatTyped
      <4> QED  BY <1>4, <4>1
    <3> QED  BY <3>1, <3>2
  <2>5. plan' = p \o (IF in.new # None THEN <<s>> ELSE <<>>)
    BY <2>1, <2>3
  <2>6. /\ plan' \in Seq(PlanOp) /\ Len(plan') = l /\ \A i \in 1..m : plan'[i] = p[i]
        /\ l = m + 1 => plan'[l] = s
    <3>1. CASE in.new # None
      <4>1. plan' = p \o <<s>> /\ l = m + 1 /\ s \in PlanOp
        BY <2>2, <2>5, <3>1
      <4>2. OneMore(p, s, plan')
        BY <2>4, <4>1, ConcatTyped
      <4> QED  BY <2>4, <4>1, <4>2 DEF OneMore
    <3>2. CASE in.new = None
      <4>1. plan' = p /\ l = m /\ l # m + 1
        BY <1>4, <2>2, <2>4, <2>5, <3>2, ConcatTyped
      <4> QED  BY <2>4, <4>1
    <3> QED  BY <3>1, <3>2
  <2>7. \A i \in 1..n : i \in 1..m
    BY <1>4
  <2>8. m = n + 1 => m \in 1..m
    BY <1>4
  <2>9. DOMAIN plan' = 1..l
    BY <2>6
  <2>10. (\A i \in 1..n : plan'[i] = plan[i]) /\ (m = n + 1 => plan'[m] = r)
    BY <2>4, <2>6, <2>7, <2>8
  <2> QED  BY <2>6, <2>9, <2>10
<1>6. /\ \A i \in 1..n : i \in 1..l
      /\ \A i \in 1..l : \/ i \in 1..n
                         \/ i = m /\ m = n + 1 /\ CellHeld(new)
                         \/ i = l /\ l = m + 1 /\ in.new # None
      /\ CellHeld(new) => m = n + 1 /\ m \in 1..l
      /\ in.new # None => l = m + 1 /\ l \in 1..l
      /\ \A i \in 1..n : i < m + 1 /\ i < l + 1
  BY <1>4
<1>7. \A c : CellHeld(c)' <=> CellHeld(c)
  BY <1>3 DEF CellHeld
<1>8. \A i \in 1..n : \A c : /\ CasRetracts(i, c)' <=> CasRetracts(i, c)
                             /\ CasAsserts(i, c)' <=> CasAsserts(i, c)
  BY <1>5 DEF CasRetracts, CasAsserts, CasOp
<1>9. /\ m = n + 1 => CasRetracts(m, new)' /\ \A c : ~CasAsserts(m, c)'
      /\ l = m + 1 => CasAsserts(l, new)' /\ \A c : ~CasRetracts(l, c)'
  BY <1>2, <1>5 DEF CasRetracts, CasAsserts, CasOp
<1>10. \A i \in 1..n : ~CasRetracts(i, new) /\ ~CasAsserts(i, new)
  <2> SUFFICES ASSUME NEW i \in 1..n, CasOp(i, new) PROVE FALSE
    BY DEF CasRetracts, CasAsserts
  <2>1. PICK c \in cas : CasRetracts(i, c) \/ CasAsserts(i, c)
    BY <1>4 DEF CasOK, CasOp
  <2>2. c.e = in.e /\ c.a = in.a
    BY <1>2, <2>1 DEF CasRetracts, CasAsserts, CasOp
  <2> QED  BY <1>3, <2>2
<1>11. \A c \in cas : /\ m = n + 1 => ~CasRetracts(m, c)'
                      /\ l = m + 1 => ~CasAsserts(l, c)'
  <2> TAKE c \in cas
  <2>1. ~(in.e = c.e /\ in.a = c.a)
    BY <1>3
  <2>2. m = n + 1 => ~CasRetracts(m, c)'
    <3> SUFFICES ASSUME m = n + 1, CasRetracts(m, c)' PROVE FALSE
      OBVIOUS
    <3>1. plan'[m] = r
      BY <1>5
    <3>2. plan'[m].e = c.e /\ plan'[m].a = c.a
      BY DEF CasRetracts, CasOp
    <3> QED  BY <1>2, <2>1, <3>1, <3>2
  <2>3. l = m + 1 => ~CasAsserts(l, c)'
    <3> SUFFICES ASSUME l = m + 1, CasAsserts(l, c)' PROVE FALSE
      OBVIOUS
    <3>1. plan'[l] = s
      BY <1>5
    <3>2. plan'[l].e = c.e /\ plan'[l].a = c.a
      BY DEF CasAsserts, CasOp
    <3> QED  BY <1>2, <2>1, <3>1, <3>2
  <2> QED  BY <2>2, <2>3
<1>12. cas' \subseteq CasSet /\ \A c, d \in cas' : c.e = d.e /\ c.a = d.a => c = d
  BY <1>2, <1>3 DEF CasOK
<1>13. \A i \in 1..l : plan'[i].cas => \E c \in cas' : CasRetracts(i, c)' \/ CasAsserts(i, c)'
  <2> SUFFICES ASSUME NEW i \in 1..l, plan'[i].cas
               PROVE  \E c \in cas' : CasRetracts(i, c)' \/ CasAsserts(i, c)'
    OBVIOUS
  <2>1. CASE i \in 1..n
    <3>1. plan[i].cas
      BY <1>5, <2>1
    <3>2. PICK c \in cas : CasRetracts(i, c) \/ CasAsserts(i, c)
      BY <1>4, <2>1, <3>1 DEF CasOK
    <3> QED  BY <1>3, <1>8, <2>1, <3>2
  <2> QED  BY <1>3, <1>6, <1>9, <2>1
<1>14. \A c \in cas' : c.new # None => \E i \in 1..l : CasAsserts(i, c)'
  <2> TAKE c \in cas'
  <2>1. CASE c \in cas
    BY <1>4, <1>6, <1>8, <2>1 DEF CasOK
  <2>2. CASE c = new
    BY <1>2, <1>6, <1>9, <2>2
  <2> QED  BY <1>3, <2>1, <2>2
<1>15. \A c \in cas' : CellHeld(c) => \E i \in 1..l : CasRetracts(i, c)'
  <2> TAKE c \in cas'
  <2>1. CASE c \in cas
    BY <1>4, <1>6, <1>8, <2>1 DEF CasOK
  <2>2. CASE c = new
    BY <1>6, <1>9, <2>2
  <2> QED  BY <1>3, <2>1, <2>2
<1>16. \A c \in cas' : \A i, j \in 1..l : CasAsserts(i, c)' /\ CasRetracts(j, c)' => j < i
  <2> SUFFICES ASSUME NEW c \in cas', NEW i \in 1..l, NEW j \in 1..l,
                      CasAsserts(i, c)', CasRetracts(j, c)'
               PROVE  j < i
    OBVIOUS
  <2>1. CASE c \in cas
    <3>1. i \in 1..n /\ j \in 1..n
      BY <1>6, <1>9, <1>11, <2>1
    <3> QED  BY <1>4, <1>8, <2>1, <3>1 DEF CasOK
  <2>2. CASE c = new
    <3>1. j = m /\ m = n + 1 /\ i = l /\ l = m + 1
      BY <1>6, <1>8, <1>9, <1>10, <2>2
    <3> QED  BY <1>4, <3>1
  <2> QED  BY <1>3, <2>1, <2>2
<1> QED  BY <1>5, <1>7, <1>12, <1>13, <1>14, <1>15, <1>16 DEF CasOK

LEMMA CasUnchanged ==
    ASSUME CasOK, plan' = plan, cas' = cas, facts' = facts
    PROVE  CasOK'
<1>1. \A i, c : /\ CasRetracts(i, c)' <=> CasRetracts(i, c)
                /\ CasAsserts(i, c)' <=> CasAsserts(i, c)
  BY DEF CasRetracts, CasAsserts, CasOp
<1>2. \A c : CellHeld(c)' <=> CellHeld(c)
  BY DEF CellHeld
<1> QED  BY <1>1, <1>2 DEF CasOK

(* What a step of the diff loop does to the working set. *)
LEMMA DiffStepWorking ==
    ASSUME IInv, DiffStep, NEW req, req = plan[cursor + 1]
    PROVE  /\ phase = "diff" /\ phase' = "diff" /\ cursor' = cursor + 1
           /\ cursor + 1 \in DOMAIN plan /\ cursor \in Nat /\ req \in PlanOp
           /\ plan' = plan /\ cas' = cas /\ facts' = facts /\ events' = events
           /\ \A w \in working' : w \in working \/ (req.op = "assert" /\ Triple(w) = Triple(req))
           /\ req.op = "retract" => working' = {w \in working : ~Matches(req, w)}
           /\ req.op = "assert" =>
                 /\ \E w \in working' : Triple(w) = Triple(req)
                 /\ \A w \in working : w.e # req.e \/ w.a # req.a => w \in working'
<1>1. /\ phase = "diff" /\ phase' = "diff" /\ cursor' = cursor + 1
      /\ cursor + 1 \in DOMAIN plan /\ cursor \in Nat /\ req \in PlanOp
      /\ plan' = plan /\ cas' = cas /\ facts' = facts /\ events' = events
  BY DEF DiffStep, IInv, PlanOK, planning, store
<1>2. CASE DiffRetract(req)
  <2>1. req.op = "retract" /\ working' = {w \in working : ~Matches(req, w)}
    BY <1>2 DEF DiffRetract
  <2> QED  BY <1>1, <2>1
<1>3. CASE DiffAssertPresent(req)
  <2>1. /\ req.op = "assert" /\ working' = working
        /\ \E w \in working : Triple(w) = Triple(req)
    BY <1>3 DEF DiffAssertPresent
  <2> QED  BY <1>1, <2>1
<1>4. \A w \in Displaced(req) : w.e = req.e /\ w.a = req.a
  BY DEF Displaced
<1>5. CASE DiffAssertRestore(req)
  <2>1. PICK back \in SUBSET dropped :
           /\ req.op = "assert" /\ back # {} /\ \A f \in back : Triple(f) = Triple(req)
           /\ working' = (working \ Displaced(req)) \cup {Stored(f) : f \in back}
    BY <1>5 DEF DiffAssertRestore, Absent
  <2>2. \A f \in back : Triple(Stored(f)) = Triple(req)
    BY <2>1, Entries
  <2> QED  BY <1>1, <1>4, <2>1, <2>2
<1>6. CASE DiffAssertNew(req)
  <2>1. /\ req.op = "assert"
        /\ working' = (working \ Displaced(req)) \cup {Asserted(cursor + 1)}
    BY <1>6 DEF DiffAssertNew, Absent
  <2>2. Triple(Asserted(cursor + 1)) = Triple(req)
    BY Entries
  <2> QED  BY <1>1, <1>4, <2>1, <2>2
<1> QED  BY <1>2, <1>3, <1>5, <1>6 DEF DiffStep

LEMMA EffectUnchanged ==
    ASSUME plan' = plan, cas' = cas, facts' = facts
    PROVE  /\ \A i, c : CasAsserts(i, c)' <=> CasAsserts(i, c)
           /\ \A i, c : CasRetracts(i, c)' <=> CasRetracts(i, c)
           /\ \A c : CellHeld(c)' <=> CellHeld(c)
           /\ \A j : LeftAlone(j)' <=> LeftAlone(j)
           /\ ValidateCASIsolation' <=> ValidateCASIsolation
<1>1. /\ \A i, c : CasAsserts(i, c)' <=> CasAsserts(i, c)
      /\ \A i, c : CasRetracts(i, c)' <=> CasRetracts(i, c)
  BY DEF CasRetracts, CasAsserts, CasOp
<1>2. \A c : CellHeld(c)' <=> CellHeld(c)
  BY DEF CellHeld
<1>3. \A j : LeftAlone(j)' <=> LeftAlone(j)
  BY DEF LeftAlone
<1>4. ValidateCASIsolation' <=> ValidateCASIsolation
  BY DEF ValidateCASIsolation
<1> QED  BY <1>1, <1>2, <1>3, <1>4

LEMMA ValidateEffects == IInv /\ CasOK /\ Validate => EffectsOK'
<1> SUFFICES ASSUME IInv, CasOK, Validate PROVE EffectsOK'
  OBVIOUS
<1>1. /\ plan' = plan /\ cas' = cas /\ facts' = facts /\ cursor' = 0 /\ ValidateCASIsolation
      /\ working' = {Stored(f) : f \in WorkingFactsForPlan}
  BY DEF Validate, planning, store, IInv, PlanOK
<1>2. \A w \in working' : \E f \in Live(facts) : w.e = f.e /\ w.a = f.a
  <2> SUFFICES ASSUME NEW f \in WorkingFactsForPlan
               PROVE  f \in Live(facts) /\ Stored(f).e = f.e /\ Stored(f).a = f.a
    BY <1>1
  <2> QED  BY WorkingRows, Entries DEF Domain
<1>3. \A c : ~CellHeld(c) => \A w \in working' : ~InCell(w, c)
  BY <1>2 DEF CellHeld, InCell
<1> QED  BY <1>1, <1>3, EffectUnchanged DEF EffectsOK

(* What an operation of the plan may do to a swapped cell. *)
LEMMA CellIsolated ==
    ASSUME IInv, CasOK, ValidateCASIsolation, NEW c \in cas, NEW n \in DOMAIN plan
    PROVE  /\ plan[n].op = "assert" /\ InCell(plan[n], c) => CasAsserts(n, c)
           /\ plan[n].op = "retract" =>
                 \A w : InCell(w, c) /\ Matches(plan[n], w) =>
                     CasRetracts(n, c) \/ w.v \in Ref
<1>1. c.a \in UserAttr /\ c.a # None /\ plan[n] \in PlanOp
  BY UserAttrs DEF CasOK, CasSet, IInv, PlanOK
<1>2. ASSUME InCell(plan[n], c) PROVE CasRetracts(n, c) \/ CasAsserts(n, c)
  <2>1. plan[n].cas
    BY <1>2 DEF ValidateCASIsolation, InCell
  <2>2. PICK d \in cas : CasRetracts(n, d) \/ CasAsserts(n, d)
    BY <2>1 DEF CasOK
  <2>3. d.e = c.e /\ d.a = c.a
    BY <1>2, <2>2 DEF CasRetracts, CasAsserts, CasOp, InCell
  <2>4. d = c
    BY <2>3 DEF CasOK
  <2> QED  BY <2>2, <2>4
<1>3. ASSUME plan[n].op = "retract", NEW w, InCell(w, c), Matches(plan[n], w)
      PROVE  CasRetracts(n, c) \/ w.v \in Ref
  <2>1. CASE plan[n].a = None
    <3>1. ~plan[n].cas
      <4> SUFFICES ASSUME plan[n].cas PROVE FALSE
        OBVIOUS
      <4>1. PICK d \in cas : plan[n].a = d.a
        BY DEF CasOK, CasRetracts, CasAsserts, CasOp
      <4> QED  BY <2>1, <4>1, UserAttrs DEF CasOK, CasSet
    <3>2. plan[n].e # c.e
      BY <1>3, <2>1, <3>1 DEF ValidateCASIsolation
    <3>3. w.v = plan[n].e
      BY <1>3, <2>1, <3>2 DEF Matches, InCell
    <3> QED  BY <1>1, <3>3 DEF PlanOp, AssertOp, RetractOp
  <2>2. CASE plan[n].a # None
    <3>1. InCell(plan[n], c)
      BY <1>3, <2>2 DEF Matches, InCell
    <3> QED  BY <1>2, <1>3, <3>1 DEF CasAsserts
  <2> QED  BY <2>1, <2>2
<1>4. ASSUME plan[n].op = "assert", InCell(plan[n], c) PROVE CasAsserts(n, c)
  BY <1>2, <1>4 DEF CasRetracts
<1> QED  BY <1>3, <1>4

LEMMA DiffStepEffects == IInv /\ CasOK /\ EffectsOK /\ DiffStep => EffectsOK'
<1> SUFFICES ASSUME IInv, CasOK, EffectsOK, DiffStep PROVE EffectsOK'
  OBVIOUS
<1> PICK req : req = plan[cursor + 1]
  OBVIOUS
<1> PICK n : n = cursor + 1
  OBVIOUS
<1>1. /\ phase = "diff" /\ phase' = "diff" /\ cursor' = cursor + 1
      /\ n \in DOMAIN plan /\ cursor \in Nat /\ req \in PlanOp
      /\ plan' = plan /\ cas' = cas /\ facts' = facts
      /\ \A w \in working' : w \in working \/ (req.op = "assert" /\ Triple(w) = Triple(req))
      /\ req.op = "retract" => working' = {w \in working : ~Matches(req, w)}
      /\ req.op = "assert" =>
            /\ \E w \in working' : Triple(w) = Triple(req)
            /\ \A w \in working : w.e # req.e \/ w.a # req.a => w \in working'
  BY DiffStepWorking
<1>2. /\ DOMAIN plan = 1..Len(plan) /\ Len(plan) \in Nat /\ req.op \in {"assert", "retract"}
      /\ \A i \in 1..n : (i \in 1..cursor \/ i = n) /\ i \in DOMAIN plan
      /\ \A i \in 1..cursor : i \in 1..n /\ i < n /\ i \in DOMAIN plan
      /\ n \in 1..n
  BY <1>1 DEF IInv, PlanOK, PlanOp, AssertOp, RetractOp
<1>3. \A w, x : Triple(w) = Triple(x) => w.e = x.e /\ w.a = x.a /\ w.v = x.v
  BY DEF Triple
<1>4. ASSUME NEW j \in 1..n, plan[j].op = "retract", plan[j].a = None, LeftAlone(j),
             NEW w \in working'
      PROVE  w.e # plan[j].e /\ w.v # plan[j].e
  <2>1. CASE j \in 1..cursor
    <3>1. CASE w \in working
      BY <1>1, <1>4, <2>1, <3>1 DEF EffectsOK
    <3>2. CASE req.op = "assert" /\ Triple(w) = Triple(req)
      <4>1. n > j /\ plan[n].op = "assert"
        BY <1>1, <1>2, <2>1, <3>2
      <4> QED  BY <1>1, <1>3, <1>4, <3>2, <4>1 DEF LeftAlone
    <3> QED  BY <1>1, <3>1, <3>2
  <2>2. CASE j = n
    <3>1. ~Matches(req, w)
      BY <1>1, <1>4, <2>2
    <3> QED  BY <1>4, <2>2, <3>1 DEF Matches
  <2> QED  BY <1>2, <2>1, <2>2
<1>5. ASSUME NEW c \in cas, c.new \notin Ref
      PROVE  IF \E i \in 1..n : CasAsserts(i, c)
             THEN /\ \E w \in working' : InCell(w, c) /\ w.v = c.new
                  /\ \A w \in working' : InCell(w, c) => w.v = c.new
             ELSE ~CellHeld(c) \/ (\E j \in 1..n : CasRetracts(j, c)) =>
                     \A w \in working' : ~InCell(w, c)
  <2>1. /\ req.op = "assert" /\ InCell(req, c) => CasAsserts(n, c)
        /\ req.op = "retract" =>
              \A w : InCell(w, c) /\ Matches(req, w) => CasRetracts(n, c) \/ w.v \in Ref
    BY <1>1, CellIsolated DEF EffectsOK
  <2>2. IF \E i \in 1..cursor : CasAsserts(i, c)
        THEN /\ \E w \in working : InCell(w, c) /\ w.v = c.new
             /\ \A w \in working : InCell(w, c) => w.v = c.new
        ELSE ~CellHeld(c) \/ (\E j \in 1..cursor : CasRetracts(j, c)) =>
                \A w \in working : ~InCell(w, c)
    BY <1>1, <1>5 DEF EffectsOK
  <2>3. ASSUME NEW w \in working', InCell(w, c), w \notin working
        PROVE  CasAsserts(n, c) /\ w.v = c.new
    <3>1. req.op = "assert" /\ Triple(w) = Triple(req)
      BY <1>1, <2>3
    <3>2. InCell(req, c) /\ w.v = req.v
      BY <1>3, <2>3, <3>1 DEF InCell
    <3> QED  BY <2>1, <3>1, <3>2 DEF CasAsserts
  <2>4. ASSUME CasAsserts(n, c)
        PROVE  \E w \in working' : InCell(w, c) /\ w.v = c.new
    <3>1. req.op = "assert" /\ req.e = c.e /\ req.a = c.a /\ req.v = c.new
      BY <2>4 DEF CasAsserts, CasOp
    <3>2. PICK w \in working' : Triple(w) = Triple(req)
      BY <1>1, <3>1
    <3> QED  BY <1>3, <3>1, <3>2 DEF InCell
  <2>5. CASE \E i \in 1..cursor : CasAsserts(i, c)
    <3>1. PICK i \in 1..cursor : CasAsserts(i, c)
      BY <2>5
    <3>2. PICK w \in working : InCell(w, c) /\ w.v = c.new
      BY <2>2, <2>5
    <3>3. \A x \in working' : InCell(x, c) => x.v = c.new
      BY <2>2, <2>3, <2>5
    <3>4. ~CasRetracts(n, c)
      <4> SUFFICES ASSUME CasRetracts(n, c) PROVE FALSE
        OBVIOUS
      <4>1. n < i
        BY <1>1, <1>2, <3>1 DEF CasOK
      <4> QED  BY <1>1, <4>1
    <3>5. CASE CasAsserts(n, c)
      BY <1>2, <2>4, <3>3, <3>5
    <3>6. CASE req.op = "retract"
      <4>1. ~Matches(req, w)
        BY <1>5, <2>1, <3>2, <3>4, <3>6
      <4>2. w \in working'
        BY <1>1, <3>6, <4>1
      <4> QED  BY <1>2, <3>1, <3>2, <3>3, <4>2
    <3>7. CASE req.op = "assert" /\ ~CasAsserts(n, c)
      <4>1. w.e # req.e \/ w.a # req.a
        BY <2>1, <3>2, <3>7 DEF InCell
      <4>2. w \in working'
        BY <1>1, <3>7, <4>1
      <4> QED  BY <1>2, <3>1, <3>2, <3>3, <4>2
    <3> QED  BY <1>2, <3>5, <3>6, <3>7
  <2>6. CASE ~(\E i \in 1..cursor : CasAsserts(i, c)) /\ CasAsserts(n, c)
    <3>1. ~CellHeld(c) \/ \E j \in 1..cursor : CasRetracts(j, c)
      <4> SUFFICES ASSUME CellHeld(c) PROVE \E j \in 1..cursor : CasRetracts(j, c)
        OBVIOUS
      <4>1. PICK j \in DOMAIN plan : CasRetracts(j, c)
        BY DEF CasOK
      <4>2. j < n
        BY <1>1, <2>6, <4>1 DEF CasOK
      <4>3. j \in 1..cursor
        BY <1>1, <1>2, <4>2
      <4> QED  BY <4>1, <4>3
    <3>2. \A w \in working : ~InCell(w, c)
      BY <2>2, <2>6, <3>1
    <3> QED  BY <1>2, <2>3, <2>4, <2>6, <3>2
  <2>7. CASE ~(\E i \in 1..cursor : CasAsserts(i, c)) /\ ~CasAsserts(n, c)
    <3>1. ~ \E i \in 1..n : CasAsserts(i, c)
      BY <1>2, <2>7
    <3>2. ASSUME ~CellHeld(c) \/ (\E j \in 1..n : CasRetracts(j, c)),
                 NEW w \in working', InCell(w, c)
          PROVE  FALSE
      <4>1. w \in working
        BY <2>3, <2>7, <3>2
      <4>2. ~(~CellHeld(c) \/ (\E j \in 1..cursor : CasRetracts(j, c)))
        BY <2>2, <2>7, <3>2, <4>1
      <4>3. CasRetracts(n, c)
        BY <1>2, <3>2, <4>2
      <4>4. req.op = "retract" /\ Matches(req, w)
        <5>1. c.a # None
          BY UserAttrs DEF CasOK, CasSet
        <5> QED  BY <3>2, <4>3, <5>1 DEF CasRetracts, CasOp, Matches, InCell
      <4> QED  BY <1>1, <4>4
    <3> QED  BY <3>1, <3>2
  <2> QED  BY <2>5, <2>6, <2>7
<1>6. ValidateCASIsolation
  BY <1>1 DEF EffectsOK
<1>7. cursor' = n
  BY <1>1
<1> QED  BY <1>1, <1>4, <1>5, <1>6, <1>7, EffectUnchanged DEF EffectsOK, InCell

LEMMA EmptyRequests ==
    ASSUME plan' = <<>>, cas' = {}, phase' # "diff"
    PROVE  CasOK' /\ EffectsOK'
BY DEF CasOK, EffectsOK

LEMMA NextRequests ==
    IInv /\ CasOK /\ EffectsOK /\ [Next]_vars => CasOK' /\ EffectsOK'
<1> SUFFICES ASSUME IInv, CasOK, EffectsOK, [Next]_vars PROVE CasOK' /\ EffectsOK'
  OBVIOUS
<1>1. CASE Begin \/ (\E t \in 1..load.maxTx : BeginUndo(t)) \/ (\E c \in load.calls : BeginCall(c))
  <2>1. plan' = plan /\ cas' = cas /\ facts' = facts /\ phase' = "plan"
    BY <1>1 DEF Begin, BeginUndo, BeginCall, planning, store
  <2> QED  BY <2>1, CasUnchanged DEF EffectsOK
<1>2. CASE \E i \in DOMAIN groups : PlanCall(i)
  <2>1. PICK i \in DOMAIN groups : PlanCall(i)
    BY <1>2
  <2> PICK op : op = CHOOSE o \in groups[i] : TRUE
    OBVIOUS
  <2>2. op \in PlainOp
    BY <2>1 DEF PlanCall, IInv, PlanOK
  <2>3. /\ plan' = Append(plan, op) /\ cas' = cas /\ facts' = facts
        /\ phase' = phase /\ phase = "plan"
    BY <2>1 DEF PlanCall, store
  <2>4. ~op.cas
    BY <2>2 DEF PlainOp
  <2> QED  BY <2>3, <2>4, PlainCasOK DEF EffectsOK
<1>3. CASE \E in \in load.ops : PlanRequest(in)
  <2>1. PICK in \in load.ops : PlanRequest(in)
    BY <1>3
  <2>2. phase' # "diff" /\ facts' = facts
    BY <2>1 DEF PlanRequest, store
  <2>3. CASE PlanCAS(in)
    BY <2>1, <2>2, <2>3, PlanCASOK DEF EffectsOK
  <2>4. CASE PlanOperation(in)
    <3> PICK op : op = Planned(in.op, in.e, in.a, in.v, FALSE)
      OBVIOUS
    <3>1. plan' = Append(plan, op) /\ cas' = cas /\ ~op.cas
      BY <2>4 DEF PlanOperation, Planned
    <3> QED  BY <2>2, <3>1, PlainCasOK DEF EffectsOK
  <2> QED  BY <2>1, <2>3, <2>4 DEF PlanRequest
<1>4. CASE \E f \in todo : PlanUndo(f)
  <2>1. PICK f \in todo : PlanUndo(f)
    BY <1>4
  <2>2. PICK kind : plan' = Append(plan, Planned(kind, f.e, f.a, f.v, FALSE))
    BY <2>1 DEF PlanUndo
  <2> PICK op : op = Planned(kind, f.e, f.a, f.v, FALSE)
    OBVIOUS
  <2>3. plan' = Append(plan, op) /\ cas' = cas /\ ~op.cas /\ facts' = facts /\ phase' # "diff"
    BY <2>1, <2>2 DEF PlanUndo, Planned, store
  <2> QED  BY <2>3, PlainCasOK DEF EffectsOK
<1>5. CASE Validate
  <2>1. plan' = plan /\ cas' = cas /\ facts' = facts
    BY <1>5 DEF Validate, planning, store
  <2> QED  BY <1>5, <2>1, CasUnchanged, ValidateEffects
<1>6. CASE DiffStep
  <2>1. plan' = plan /\ cas' = cas /\ facts' = facts
    BY <1>6 DEF DiffStep, planning, store
  <2> QED  BY <1>6, <2>1, CasUnchanged, DiffStepEffects
<1>7. CASE Commit \/ Noop \/ Abort
  BY <1>7, EmptyRequests DEF Commit, Noop, Abort, Discard
<1>8. CASE \E x \in Ref : Excise(x)
  <2>1. plan' = <<>> /\ cas' = {} /\ phase' = "idle"
    BY <1>8 DEF Excise, planning, IInv, PlanOK
  <2> QED  BY <2>1, EmptyRequests
<1>9. CASE UNCHANGED vars
  <2>1. /\ plan' = plan /\ cas' = cas /\ facts' = facts /\ phase' = phase
        /\ cursor' = cursor /\ working' = working
    BY <1>9 DEF vars
  <2> QED  BY <2>1, CasUnchanged, EffectUnchanged DEF EffectsOK, InCell
<1> QED
  BY <1>1, <1>2, <1>3, <1>4, <1>5, <1>6, <1>7, <1>8, <1>9 DEF Next

(* The live rows of a commit are its working set, for the entities the plan
   names. *)
LEMMA CommittedEntries ==
    ASSUME IInv, Commit
    PROVE  /\ \A f \in Domain(Live(facts')) :
                 \/ f \in Domain(Live(facts)) \ WorkingFactsForPlan
                 \/ \E w \in working : Triple(w) = Triple(f)
           /\ \A w \in working : \E f \in Domain(Live(facts')) : Triple(f) = Triple(w)
<1>0. phase = "diff" /\ CommitRows(facts') /\ Basis \in Nat
  BY CommitEffect, CommitEvent DEF Diffed
<1>1. ASSUME NEW f \in Domain(Live(facts')), f \notin Domain(Live(facts)) \ WorkingFactsForPlan
      PROVE  \E w \in working : Triple(w) = Triple(f)
  <2>0. f \in facts' /\ f.rx = Null /\ f.a \notin AuditAttr
    BY DEF Domain, Live
  <2>1. CASE f \in facts \ dropped
    <3>1. f \in WorkingFactsForPlan \ dropped
      BY <1>1, <2>0, <2>1 DEF Domain, Live
    <3>2. Stored(f) \in working
      BY <1>0, <3>1 DEF IInv, DiffOK
    <3> QED  BY <3>2, Entries
  <2>2. CASE f \in Fresh
    <3>1. PICK i \in Final : Triple(f) = Triple(plan[i])
      BY <1>0, <2>2, FreshRows DEF FreshOK
    <3>2. Asserted(i) \in working
      BY <1>0 DEF IInv, DiffOK
    <3> QED  BY <3>1, <3>2, Entries
  <2>3. f \notin UndoAudit(Basis + 1)
    BY <2>0, AuditRows DEF AuditAttr
  <2>4. \A d \in Ended : f # EndedRow(d)
    <3>1. \A d \in Ended : EndedRow(d).rx # Null
      BY <1>0, EndedRows DEF Null
    <3> QED  BY <2>0, <3>1
  <2> QED  BY <1>0, <2>0, <2>1, <2>2, <2>3, <2>4 DEF CommitRows
<1>2. ASSUME NEW w \in working
      PROVE  \E f \in Domain(Live(facts')) : Triple(f) = Triple(w)
  <2>1. CASE \E f \in WorkingFactsForPlan \ dropped : w = Stored(f)
    <3>1. PICK f \in WorkingFactsForPlan \ dropped : w = Stored(f)
      BY <2>1
    <3>2. f \in Domain(Live(facts'))
      BY <1>0, <3>1, WorkingRows DEF CommitRows, Domain, Live
    <3> QED  BY <3>1, <3>2, Entries
  <2>2. CASE \E i \in Final : w = Asserted(i)
    <3>1. PICK i \in Final : w = Asserted(i)
      BY <2>2
    <3>2. PICK f \in Fresh : Triple(f) = Triple(plan[i])
      BY <1>0, FreshRows
    <3>3. f \in facts' /\ f.rx = Null /\ f.a \in UserAttr
      BY <1>0, FreshRows DEF FreshOK, FactRow, CommitRows
    <3>4. f \in Domain(Live(facts'))
      BY <3>3, UserAttrs DEF Domain, Live
    <3> QED  BY <3>1, <3>2, <3>4, Entries
  <2> QED  BY <1>0, <2>1, <2>2 DEF IInv, DiffOK
<1> QED  BY <1>1, <1>2

LEMMA CommitRetracts ==
    ASSUME IInv, EffectsOK, Commit, NEW j \in DOMAIN plan, plan[j].op = "retract",
           plan[j].a = None, LeftAlone(j), NEW f \in Domain(Live(facts'))
    PROVE  f.e # plan[j].e /\ f.v # plan[j].e
<1>0. phase = "diff" /\ j \in 1..cursor
  BY CommitEffect DEF Diffed, IInv, PlanOK
<1>1. \A w \in working : w.e # plan[j].e /\ w.v # plan[j].e
  BY <1>0 DEF EffectsOK
<1>2. CASE f \in Domain(Live(facts)) \ WorkingFactsForPlan
  BY <1>2, WorkingRows
<1>3. CASE \E w \in working : Triple(w) = Triple(f)
  BY <1>1, <1>3 DEF Triple
<1> QED  BY <1>2, <1>3, CommittedEntries

LEMMA CommitSwaps ==
    ASSUME IInv, CasOK, EffectsOK, Commit, NEW c \in cas, c.new \notin Ref
    PROVE  CellAfter(c) = IF c.new = None THEN {} ELSE {c.new}
<1>0. phase = "diff" /\ DOMAIN plan = 1..cursor /\ c \in CasSet /\ c.a \in UserAttr
  BY CommitEffect DEF Diffed, IInv, PlanOK, CasOK, CasSet
<1>1. \A v : v \in CellAfter(c) <=> \E w \in working : InCell(w, c) /\ w.v = v
  <2> TAKE v
  <2>1. ASSUME v \in CellAfter(c) PROVE \E w \in working : InCell(w, c) /\ w.v = v
    <3>1. PICK f \in Live(facts') : f.e = c.e /\ f.a = c.a /\ f.v = v
      BY <2>1 DEF CellAfter
    <3>2. f \in Domain(Live(facts'))
      BY <1>0, <3>1, UserAttrs DEF Domain
    <3>3. f \notin Domain(Live(facts)) \ WorkingFactsForPlan
      <4> SUFFICES ASSUME f \in Domain(Live(facts)) PROVE f \in WorkingFactsForPlan
        OBVIOUS
      <4>1. CellHeld(c)
        BY <3>1 DEF CellHeld, Domain
      <4>2. PICK i \in DOMAIN plan : plan[i].e = c.e
        BY <4>1 DEF CasOK, CasRetracts, CasOp
      <4> QED  BY <3>1, <4>2, WorkingRows
    <3>4. PICK w \in working : Triple(w) = Triple(f)
      BY <3>2, <3>3, CommittedEntries
    <3> QED  BY <3>1, <3>4 DEF Triple, InCell
  <2>2. ASSUME NEW w \in working, InCell(w, c), w.v = v PROVE v \in CellAfter(c)
    <3>1. PICK f \in Domain(Live(facts')) : Triple(f) = Triple(w)
      BY CommittedEntries
    <3> QED  BY <2>2, <3>1 DEF Triple, InCell, Domain, CellAfter
  <2> QED  BY <2>1, <2>2
<1>2. CASE c.new = None
  <2>1. ~ \E i \in 1..cursor : CasAsserts(i, c)
    <3> SUFFICES ASSUME NEW i \in 1..cursor, CasAsserts(i, c) PROVE FALSE
      OBVIOUS
    <3>1. plan[i] \in PlanOp /\ plan[i].op = "assert" /\ plan[i].v = None
      BY <1>0, <1>2 DEF CasAsserts, IInv, PlanOK
    <3> QED  BY <3>1, NoneIsNoValue DEF PlanOp, AssertOp, RetractOp
  <2>2. ~CellHeld(c) \/ \E j \in 1..cursor : CasRetracts(j, c)
    BY <1>0 DEF CasOK
  <2>3. \A w \in working : ~InCell(w, c)
    BY <1>0, <2>1, <2>2 DEF EffectsOK
  <2> QED  BY <1>1, <1>2, <2>3
<1>3. CASE c.new # None
  <2>1. \E i \in 1..cursor : CasAsserts(i, c)
    BY <1>0, <1>3 DEF CasOK
  <2>2. /\ \E w \in working : InCell(w, c) /\ w.v = c.new
        /\ \A w \in working : InCell(w, c) => w.v = c.new
    BY <1>0, <2>1 DEF EffectsOK
  <2> QED  BY <1>1, <1>3, <2>2
<1> QED  BY <1>2, <1>3

(* What a committed request demands holds afterwards, whatever else the
   request does and in whatever order: a swapped cell holds exactly the new
   value, and nothing live mentions an entity retracted whole. *)
THEOREM RequestsHold == Spec => RequestsTakeEffect
<1>1. Init => CasOK /\ EffectsOK
  BY InitRequests
<1>2. IInv /\ CasOK /\ EffectsOK /\ [Next]_vars => CasOK' /\ EffectsOK'
  BY NextRequests
<1>3. ASSUME IInv, [Next]_vars, Len(events') > Len(events)
      PROVE  Commit \/ (plan = <<>> /\ cas = {})
  <2>1. ~UNCHANGED store
    BY <1>3 DEF store, IInv, StoreOK, EventsOK
  <2>2. CASE \E x \in Ref : Excise(x)
    BY <1>3, <2>2 DEF Excise, IInv, PlanOK
  <2> QED  BY <1>3, <2>1, <2>2, OnlyTwoWrite
<1>4. ASSUME IInv, CasOK, EffectsOK, [Next]_vars, Len(events') > Len(events), NEW c \in cas,
             c.new \notin Ref
      PROVE  CellAfter(c) = IF c.new = None THEN {} ELSE {c.new}
  BY <1>3, <1>4, CommitSwaps
<1>5. ASSUME IInv, CasOK, EffectsOK, [Next]_vars, Len(events') > Len(events),
             NEW j \in DOMAIN plan, plan[j].op = "retract", plan[j].a = None,
             \A i \in DOMAIN plan : i > j /\ plan[i].op = "assert" =>
                 plan[i].e # plan[j].e /\ plan[i].v # plan[j].e,
             NEW f \in Domain(Live(facts'))
      PROVE  f.e # plan[j].e /\ f.v # plan[j].e
  <2>1. Commit
    BY <1>3, <1>5
  <2>2. LeftAlone(j)
    BY <1>5 DEF LeftAlone
  <2> QED  BY <1>5, <2>1, <2>2, CommitRetracts
<1>6. IInv /\ CasOK /\ EffectsOK /\ [Next]_vars =>
        [Len(events') > Len(events) =>
            \A c \in cas : c.new \notin Ref =>
                CellAfter(c) = IF c.new = None THEN {} ELSE {c.new}]_vars
  BY <1>4
<1>7. IInv /\ CasOK /\ EffectsOK /\ [Next]_vars =>
        [Len(events') > Len(events) =>
            \A j \in DOMAIN plan :
                /\ plan[j].op = "retract" /\ plan[j].a = None
                /\ \A i \in DOMAIN plan : i > j /\ plan[i].op = "assert" =>
                      plan[i].e # plan[j].e /\ plan[i].v # plan[j].e
                => \A f \in Domain(Live(facts')) : f.e # plan[j].e /\ f.v # plan[j].e]_vars
  BY <1>5
<1>8. Spec => CasWinsScalar
  BY <1>1, <1>2, <1>6, Invariance, PTL DEF Spec, CasWinsScalar
<1>9. Spec => RetractedEntityGone
  BY <1>1, <1>2, <1>7, Invariance, PTL DEF Spec, RetractedEntityGone
<1> QED  BY <1>8, <1>9 DEF RequestsTakeEffect

-----------------------------------------------------------------------------
(* Constraints.  The history of rows: of one triple, and of one declaration,
   no two rows are live at the same time, and no transaction asserts what it
   retracts. *)
Apart(f, g) == \/ f.rx # Null /\ f.rx <= g.tx
               \/ g.rx # Null /\ g.rx <= f.tx

RowsApart ==
    /\ \A f, g \in facts : f # g /\ f.e = g.e /\ f.a = g.a /\ (f.v = g.v \/ f.a \in SchemaAttr)
                           => Apart(f, g)
    /\ \A f, g \in facts : f.rx # Null /\ f.rx = g.tx => Triple(f) # Triple(g)

(* The diff loop.  A row is dropped because an operation retracts it or
   replaces it. *)
DroppedWhy ==
    phase = "diff" => \A d \in dropped : \E j \in 1..cursor :
        \/ plan[j].op = "retract" /\ Matches(plan[j], d)
        \/ plan[j].op = "assert" /\ plan[j].e = d.e /\ plan[j].a = d.a

(* A row stays dropped if no operation asserts it. *)
StaysDropped ==
    phase = "diff" => \A f \in WorkingFactsForPlan :
        /\ \A i \in DOMAIN plan : plan[i].op = "assert" => Triple(plan[i]) # Triple(f)
        /\ \E j \in 1..cursor : plan[j].op = "retract" /\ Matches(plan[j], f)
        => f \in dropped

(* An assertion that no later operation takes back, and that finds no live row,
   stays in the working set; and any assertion, if nothing replaces it. *)
IsMany(a) == SchemaForPlan(facts, plan, a, "fgraph/many") = "true"
Unrivalled(m) ==
    IsMany(plan[m].a) \/ \A j \in DOMAIN plan :
        j > m /\ plan[j].op = "assert" /\ plan[j].e = plan[m].e /\ plan[j].a = plan[m].a
        => plan[j].v = plan[m].v

ActiveStays ==
    phase = "diff" => \A m \in ActivePlanAssertions(plan) : m <= cursor =>
        /\ Triple(plan[m]) \notin Triples(Live(facts)) =>
              \E w \in working : w.ord # 0 /\ Triple(w) = Triple(plan[m])
        /\ Unrivalled(m) => \E w \in working : Triple(w) = Triple(plan[m])

(* What is in a cell that was retracted was asserted afterwards. *)
CellCleared ==
    phase = "diff" => \A j \in 1..cursor :
        plan[j].op = "retract" /\ plan[j].a # None /\ plan[j].v = None =>
            \A w \in working : w.e = plan[j].e /\ w.a = plan[j].a =>
                \E i \in 1..cursor : i > j /\ plan[i].op = "assert" /\ Triple(plan[i]) = Triple(w)

(* One value in a cell and one owner of a value, where that is declared. *)
OneCell ==
    phase = "diff" => \A a \in UserAttr : ~IsMany(a) /\ OneEach(facts, a) =>
        \A w, x \in working : w.a = a /\ x.a = a /\ w.e = x.e => w = x

NewValuesOf(a) ==
    \A i \in DOMAIN plan : plan[i].op = "assert" /\ plan[i].a = a =>
        Triple(plan[i]) \notin Triples(Live(facts))

OneHolder ==
    phase = "diff" => \A a \in UserAttr :
        /\ SchemaForPlan(facts, plan, a, "fgraph/unique") = "true"
        /\ OneOwner(facts, a) /\ NewValuesOf(a)
        => \A w, x \in working : w.a = a /\ x.a = a /\ w.v = x.v => w.e = x.e

DiffKeeps == /\ DroppedWhy /\ StaysDropped /\ ActiveStays /\ CellCleared
             /\ OneCell /\ OneHolder

(* An undo plans the inverse of every row, and drops a newer row only for a
   value it puts back. *)
Undoing(f) == Planned(IF f.rx = undoes THEN "assert" ELSE "retract", f.e, f.a, f.v, FALSE)

UndoPlanned ==
    undoes # Null =>
        /\ call = None /\ groups = <<>> /\ todo \subseteq UndoRows(undoes)
        /\ \A i \in DOMAIN plan : \E f \in UndoRows(undoes) : plan[i] = Undoing(f)
        /\ \A f \in UndoRows(undoes) : f \in todo \/ \E i \in DOMAIN plan : plan[i] = Undoing(f)
        /\ phase = "diff" => todo = {}

UndoDiffed ==
    phase = "diff" /\ undoes # Null =>
        /\ \A f \in dropped : \/ f.tx = undoes
                              \/ \E i \in Final : /\ plan[i].e = f.e /\ plan[i].a = f.a
                                                  /\ plan[i].v # f.v /\ ~IsMany(f.a)
        /\ \A i \in 1..cursor : plan[i].op = "retract" =>
              \A w \in working : Triple(w) # Triple(plan[i])
        /\ undoes = Basis => \A i \in 1..cursor : plan[i].op = "assert" =>
              \E j \in Final : Triple(plan[j]) = Triple(plan[i])

(* A schema call plans its groups in order, and retracts nothing it asserts. *)
CallPlanned ==
    call # None =>
        /\ call \in load.calls /\ undoes = Null
        /\ DOMAIN groups = DOMAIN CallPlan(call)
        /\ \A i \in DOMAIN groups :
              /\ groups[i] \subseteq CallPlan(call)[i]
              /\ \A op \in CallPlan(call)[i] : op \in groups[i] \/ \E p \in DOMAIN plan : plan[p] = op
        /\ \A p \in DOMAIN plan : \E i \in DOMAIN groups :
              plan[p] \in CallPlan(call)[i] /\ \A j \in DOMAIN groups : j < i => groups[j] = {}
        /\ \A p, q \in DOMAIN plan : p < q /\ plan[p].op = "assert" /\ plan[q].op = "retract" =>
              ~Matches(plan[q], plan[p])
        /\ phase = "diff" => \A i \in DOMAIN groups : groups[i] = {}

-----------------------------------------------------------------------------
(* A step of the diff loop, seen from the stored rows. *)
LEMMA RowsOf ==
    ASSUME IInv, phase = "diff", NEW S \in SUBSET working
    PROVE  \A f : f \in Rows(S) <=> f \in WorkingFactsForPlan \ dropped /\ Stored(f) \in S
<1>1. \A w \in S : \/ \E f \in WorkingFactsForPlan \ dropped : w = Stored(f)
                   \/ \E i \in Final : w = Asserted(i)
  BY DEF IInv, DiffOK
<1>2. \A i \in Final : i # 0
  BY DEF IInv, DiffOK, Final, PlanOK
<1> TAKE f
<1>3. ASSUME f \in Rows(S) PROVE f \in WorkingFactsForPlan \ dropped /\ Stored(f) \in S
  <2>1. PICK w \in S : w.ord = 0 /\ w.raw = f
    BY <1>3 DEF Rows
  <2>2. PICK g \in WorkingFactsForPlan \ dropped : w = Stored(g)
    BY <1>1, <1>2, <2>1, Entries
  <2> QED  BY <2>1, <2>2, Entries
<1>4. ASSUME Stored(f) \in S PROVE f \in Rows(S)
  BY <1>4, Entries DEF Rows
<1> QED  BY <1>3, <1>4

(* The four ways a step of the loop can go. *)
Takes(req) ==
    /\ req.op = "retract"
    /\ working' = {w \in working : ~Matches(req, w)}
    /\ \A f : f \in dropped' <=> f \in dropped \/ (f \in WorkingFactsForPlan /\ Matches(req, f))
    /\ Final' = Final \ Orders({w \in working : Matches(req, w)})

Repeats(req) ==
    /\ req.op = "assert"
    /\ \E w \in working : Triple(w) = Triple(req)
    /\ working' = working /\ dropped' = dropped /\ Final' = Final

Vacant(req) ==
    /\ req.op = "assert"
    /\ \A w \in working : Triple(w) # Triple(req)
    /\ \A w \in Displaced(req) : w \in working /\ w.ord = 0 /\ w.e = req.e /\ w.a = req.a

Loses(f, req) == f \in WorkingFactsForPlan \ dropped /\ Stored(f) \in Displaced(req)

Restores(req, b) ==
    /\ Vacant(req)
    /\ b \in dropped /\ Triple(b) = Triple(req)
    /\ working' = (working \ Displaced(req)) \cup {Stored(b)}
    /\ \A f : f \in dropped' <=> f # b /\ (f \in dropped \/ Loses(f, req))
    /\ Final' = Final

Inserts(req) ==
    /\ Vacant(req)
    /\ \A f \in dropped : Triple(f) # Triple(req)
    /\ SchemaForPlan(facts, plan, req.a, "fgraph/unique") = "true" =>
          \A w \in working \ Displaced(req) : w.a = req.a /\ w.v = req.v => w.e = req.e
    /\ working' = (working \ Displaced(req)) \cup {Asserted(cursor + 1)}
    /\ \A f : f \in dropped' <=> f \in dropped \/ Loses(f, req)
    /\ Final' = Final \cup {cursor + 1}

LEMMA MatchesEntry ==
    ASSUME NEW req, NEW f
    PROVE  Matches(req, Stored(f)) <=> Matches(req, f)
BY Entries DEF Matches

LEMMA DiffSteps ==
    ASSUME IInv, DiffStep, NEW req, req = plan[cursor + 1]
    PROVE  Takes(req) \/ Repeats(req) \/ (\E b : Restores(req, b)) \/ Inserts(req)
<1>0. phase = "diff" /\ cursor \in Nat /\ inserted \subseteq 1..cursor /\ canceled \subseteq inserted
  BY DEF DiffStep, IInv, PlanOK, DiffOK
<1>1. CASE DiffRetract(req)
  <2> PICK hit \in SUBSET working : hit = {w \in working : Matches(req, w)}
    OBVIOUS
  <2>1. /\ req.op = "retract" /\ working' = working \ hit
        /\ dropped' = dropped \cup Rows(hit)
        /\ canceled' = canceled \cup Orders(hit) /\ inserted' = inserted
    BY <1>1 DEF DiffRetract
  <2>2. \A f : f \in Rows(hit) <=> f \in WorkingFactsForPlan \ dropped /\ Stored(f) \in hit
    BY <1>0, RowsOf
  <2>3. \A f \in WorkingFactsForPlan \ dropped : Stored(f) \in hit <=> Matches(req, f)
    BY <1>0, MatchesEntry DEF IInv, DiffOK
  <2>4. \A f \in dropped : f \in WorkingFactsForPlan
    BY <1>0 DEF IInv, DiffOK
  <2>5. \A f : f \in dropped' <=> f \in dropped \/ (f \in WorkingFactsForPlan /\ Matches(req, f))
    BY <2>1, <2>2, <2>3, <2>4
  <2>6. Final' = Final \ Orders(hit)
    BY <2>1 DEF Final
  <2> QED  BY <2>1, <2>5, <2>6 DEF Takes
<1>2. CASE DiffAssertPresent(req)
  BY <1>2 DEF DiffAssertPresent, Repeats, Final
<1>3. ASSUME Absent(req)
      PROVE  Vacant(req) /\ Displaced(req) \in SUBSET working
  BY <1>3 DEF Absent, Vacant, Displaced
<1>4. ASSUME Absent(req)
      PROVE  \A f : f \in Rows(Displaced(req)) <=> Loses(f, req)
  BY <1>0, <1>3, <1>4, RowsOf DEF Loses
<1>5. CASE DiffAssertRestore(req)
  <2>1. PICK back \in SUBSET dropped :
           /\ Absent(req) /\ back # {} /\ back = {f \in dropped : Triple(f) = Triple(req)}
           /\ working' = (working \ Displaced(req)) \cup {Stored(f) : f \in back}
           /\ dropped' = (dropped \cup Rows(Displaced(req))) \ back
           /\ inserted' = inserted /\ canceled' = canceled
    BY <1>5 DEF DiffAssertRestore
  <2>2. PICK b \in back : TRUE
    BY <2>1
  <2>3. back = {b}
    <3>1. \A f \in back : f \in Live(facts) /\ Triple(f) = Triple(req)
      BY <1>0, <2>1, WorkingRows DEF IInv, DiffOK, Domain
    <3> QED  BY <2>2, <3>1 DEF IInv, StoreOK, LiveUnique
  <2>4. working' = (working \ Displaced(req)) \cup {Stored(b)}
    BY <2>1, <2>3
  <2>5. \A f : f \in dropped' <=> f # b /\ (f \in dropped \/ Loses(f, req))
    BY <1>4, <2>1, <2>3
  <2>6. Restores(req, b)
    BY <1>3, <2>1, <2>2, <2>4, <2>5 DEF Restores, Final
  <2> QED  BY <2>6
<1>6. CASE DiffAssertNew(req)
  <2>1. /\ Absent(req) /\ \A f \in dropped : Triple(f) # Triple(req)
        /\ SchemaForPlan(facts, plan, req.a, "fgraph/unique") = "true" =>
              \A w \in working \ Displaced(req) : w.a = req.a /\ w.v = req.v => w.e = req.e
        /\ working' = (working \ Displaced(req)) \cup {Asserted(cursor + 1)}
        /\ dropped' = dropped \cup Rows(Displaced(req))
        /\ inserted' = inserted \cup {cursor + 1} /\ canceled' = canceled
    BY <1>6 DEF DiffAssertNew
  <2>2. \A f : f \in dropped' <=> f \in dropped \/ Loses(f, req)
    BY <1>4, <2>1
  <2>3. Final' = Final \cup {cursor + 1}
    <3>1. cursor + 1 \notin canceled
      BY <1>0
    <3> QED  BY <2>1, <3>1 DEF Final
  <2> QED  BY <1>3, <2>1, <2>2, <2>3 DEF Inserts
<1> QED  BY <1>1, <1>2, <1>5, <1>6 DEF DiffStep

(* What a step of the loop leaves alone, and that it goes on by one. *)
LEMMA DiffFrame ==
    ASSUME IInv, DiffStep
    PROVE  /\ phase = "diff" /\ phase' = "diff" /\ cursor' = cursor + 1 /\ cursor \in Nat
           /\ cursor + 1 \in DOMAIN plan /\ plan[cursor + 1] \in PlanOp
           /\ plan' = plan /\ facts' = facts /\ events' = events
           /\ undoes' = undoes /\ call' = call /\ groups' = groups /\ todo' = todo
           /\ WorkingFactsForPlan' = WorkingFactsForPlan
           /\ \A i \in 1..(cursor + 1) : i \in 1..cursor \/ i = cursor + 1
           /\ \A i \in 1..cursor : i \in 1..(cursor + 1)
<1>1. /\ phase = "diff" /\ phase' = "diff" /\ cursor' = cursor + 1 /\ cursor \in Nat
      /\ plan' = plan /\ facts' = facts /\ events' = events
      /\ undoes' = undoes /\ call' = call /\ groups' = groups /\ todo' = todo
  BY DEF DiffStep, IInv, PlanOK, planning, store
<1>2. cursor + 1 \in DOMAIN plan /\ plan[cursor + 1] \in PlanOp
  BY DEF DiffStep, IInv, PlanOK
<1>3. /\ \A i \in 1..(cursor + 1) : i \in 1..cursor \/ i = cursor + 1
      /\ \A i \in 1..cursor : i \in 1..(cursor + 1)
  BY <1>1
<1> QED  BY <1>1, <1>2, <1>3, WorkingUnchanged

LEMMA DroppedWhyStep == IInv /\ DroppedWhy /\ DiffStep => DroppedWhy'
<1> SUFFICES ASSUME IInv, DroppedWhy, DiffStep PROVE DroppedWhy'
  OBVIOUS
<1> PICK n : n = cursor + 1
  OBVIOUS
<1> PICK req : req = plan[n]
  OBVIOUS
<1> DEFINE Why(d, j) == \/ plan[j].op = "retract" /\ Matches(plan[j], d)
                        \/ plan[j].op = "assert" /\ plan[j].e = d.e /\ plan[j].a = d.a
<1>1. /\ phase = "diff" /\ cursor' = n /\ plan' = plan
      /\ \A i \in 1..cursor : i \in 1..n
      /\ n \in 1..n
  BY DiffFrame
<1>2. \A d \in dropped : \E j \in 1..cursor : Why(d, j)
  BY <1>1 DEF DroppedWhy
<1>3. ASSUME NEW d \in dropped', d \notin dropped PROVE Why(d, n)
  <2>1. \A f : Loses(f, req) => (f.e = req.e /\ f.a = req.a) \/ ~Vacant(req)
    BY Entries DEF Loses, Vacant
  <2> QED  BY <1>3, <2>1, DiffSteps DEF Takes, Repeats, Restores, Inserts, Vacant
<1> HIDE DEF Why
<1>4. \A d \in dropped' : \E j \in 1..n : Why(d, j)
  BY <1>1, <1>2, <1>3
<1> QED  BY <1>1, <1>4 DEF DroppedWhy, Why

-----------------------------------------------------------------------------
(* Shapes. *)
LEMMA LiveAfter ==
    ASSUME IInv, Commit
    PROVE  /\ \A f \in Live(facts') : \/ f \in Live(facts) \ dropped
                                      \/ f \in Fresh
                                      \/ f \in UndoAudit(Basis + 1)
           /\ \A f \in Live(facts) \ dropped : f \in Live(facts')
           /\ \A f \in Fresh : f \in Live(facts')
<1>0. phase = "diff" /\ CommitRows(facts') /\ Basis \in Nat
  BY CommitEffect, CommitEvent DEF Diffed
<1>1. ASSUME NEW f \in Live(facts')
      PROVE  f \in Live(facts) \ dropped \/ f \in Fresh \/ f \in UndoAudit(Basis + 1)
  <2>1. f \in facts' /\ f.rx = Null
    BY DEF Live
  <2>2. \A d \in Ended : EndedRow(d).rx # Null
    BY <1>0, EndedRows DEF Null
  <2> QED  BY <1>0, <2>1, <2>2 DEF CommitRows, Live
<1>2. \A f \in Live(facts) \ dropped : f \in Live(facts')
  BY <1>0 DEF CommitRows, Live
<1>3. \A f \in Fresh : f \in Live(facts')
  BY <1>0, FreshRows DEF CommitRows, Live, FreshOK
<1> QED  BY <1>1, <1>2, <1>3

(* A new row is an operation of the plan; the audit fact is about no
   application entity. *)
LEMMA FreshPlanned ==
    ASSUME IInv, phase = "diff", NEW f \in Fresh
    PROVE  \E i \in DOMAIN plan : plan[i].op = "assert" /\ Triple(f) = Triple(plan[i])
                                  /\ f.e = plan[i].e /\ f.a = plan[i].a /\ f.v = plan[i].v
<1>1. PICK i \in Final : Triple(f) = Triple(plan[i])
  BY FreshRows DEF FreshOK
<1>2. i \in DOMAIN plan /\ plan[i].op = "assert"
  BY DEF IInv, DiffOK, Final, PlanOK
<1> QED  BY <1>1, <1>2 DEF Triple

LEMMA AuditEntity ==
    ASSUME IInv, Basis \in Nat, NEW f \in UndoAudit(Basis + 1)
    PROVE  f.e \notin Ref /\ f.a \notin UserAttr
<1>1. f.e = Basis + 1 /\ f.a = "fgraph/undoes"
  BY AuditRows
<1>2. f.e \in Nat
  BY <1>1
<1> QED  BY <1>1, <1>2, References, UserAttrs DEF AuditAttr

LEMMA DroppedDomain ==
    ASSUME IInv, phase = "diff", NEW d \in dropped
    PROVE  d \in Live(facts) /\ d \in WorkingFactsForPlan /\ d.e \in Ref /\ d.a \in UserAttr
<1>1. d \in WorkingFactsForPlan /\ d \in Domain(Live(facts))
  BY WorkingRows DEF IInv, DiffOK
<1>2. d \in FactRow(Basis)
  BY <1>1, DomainRows DEF IInv, StoreOK, EventsOK, RowsOK, Domain, Live, Basis
<1> QED  BY <1>1, <1>2 DEF FactRow, Domain

(* A commit leaves a membership whose member and shape it does not name as it
   was, if what a retracted entity loses are memberships. *)
LEMMA MembershipKept ==
    ASSUME IInv, DroppedWhy, Commit,
           \A i \in DOMAIN plan : plan[i].op = "retract" /\ plan[i].a = None =>
               \A f \in Live(facts) : f.v = plan[i].e => f.a = "fgraph/shape",
           NEW f \in Memberships(facts'), f.e \notin Touched(plan, facts'),
           Violates(facts', f.e, f.v)
    PROVE  f \in Memberships(facts) /\ Violates(facts, f.e, f.v)
<1>0. phase = "diff" /\ Basis \in Nat /\ cursor \in 0..Len(plan) /\ plan \in Seq(PlanOp)
  BY CommitEffect, CommitEvent DEF Diffed, IInv, PlanOK
<1>1. /\ f \in Live(facts') /\ f.a = "fgraph/shape"
      /\ \A i \in DOMAIN plan : plan[i].e # f.e
      /\ \A i \in DOMAIN plan : plan[i].e = f.v =>
            plan[i].a \notin DefinitionAttr /\ ~(plan[i].op = "retract" /\ plan[i].a = None)
  BY DEF Memberships, Touched
<1>2. ASSUME NEW d \in dropped
      PROVE  \/ d.a = "fgraph/shape"
             \/ \E j \in DOMAIN plan : /\ plan[j].e = d.e
                                       /\ \/ plan[j].op = "retract" /\ plan[j].a = None
                                          \/ plan[j].a = d.a
  <2>1. PICK j \in 1..cursor : \/ plan[j].op = "retract" /\ Matches(plan[j], d)
                               \/ plan[j].op = "assert" /\ plan[j].e = d.e /\ plan[j].a = d.a
    BY <1>0 DEF DroppedWhy
  <2>2. j \in DOMAIN plan /\ d \in Live(facts)
    BY <1>0, DroppedDomain
  <2> QED  BY <2>1, <2>2 DEF Matches
<1>3. f \in Live(facts) \ dropped
  <2>1. f.a \in UserAttr
    BY <1>1 DEF UserAttr, ShapeAttr
  <2> QED  BY <1>0, <1>1, <2>1, LiveAfter, FreshPlanned, AuditEntity
<1>4. f.e \in Ref
  <2>1. f.a \notin AuditAttr /\ RowOK(f, Basis)
    BY <1>1, <1>3 DEF AuditAttr, IInv, StoreOK, RowsOK, Live
  <2> QED  BY <1>0, <2>1, DomainRows DEF FactRow
<1>5. Present(facts', f.e) = Present(facts, f.e)
  <2>1. ASSUME NEW g \in Live(facts'), g.e = f.e PROVE g \in Live(facts)
    BY <1>0, <1>1, <1>4, <2>1, LiveAfter, FreshPlanned, AuditEntity
  <2>2. ASSUME NEW g \in Live(facts), g.e = f.e PROVE g \in Live(facts') \/ g.a = "fgraph/shape"
    BY <1>1, <1>2, <2>2, LiveAfter
  <2>3. ASSUME NEW x \in Present(facts', f.e) PROVE x \in Present(facts, f.e)
    BY <2>1 DEF Present
  <2>4. ASSUME NEW x \in Present(facts, f.e) PROVE x \in Present(facts', f.e)
    BY <1>1, <2>2 DEF Present
  <2> QED  BY <2>3, <2>4
<1>6. ASSUME NEW a \in DefinitionAttr
      PROVE  Cell(facts', f.v, a) = Cell(facts, f.v, a)
  <2>0. a \in UserAttr /\ a # "fgraph/shape"
    BY DEF UserAttr, ShapeAttr, DefinitionAttr
  <2>1. ASSUME NEW g \in Live(facts'), g.e = f.v, g.a = a PROVE g \in Live(facts)
    BY <1>0, <1>1, <2>0, <2>1, LiveAfter, FreshPlanned, AuditEntity
  <2>2. ASSUME NEW g \in Live(facts), g.e = f.v, g.a = a PROVE g \in Live(facts')
    BY <1>1, <1>2, <2>0, <2>2, LiveAfter
  <2> QED  BY <2>1, <2>2 DEF Cell
<1>7. ReadShape(facts', f.v) = ReadShape(facts, f.v)
  <2>1. /\ Cell(facts', f.v, "fgraph/shape-closed") = Cell(facts, f.v, "fgraph/shape-closed")
        /\ Cell(facts', f.v, "fgraph/shape-required") = Cell(facts, f.v, "fgraph/shape-required")
        /\ Cell(facts', f.v, "fgraph/shape-allowed") = Cell(facts, f.v, "fgraph/shape-allowed")
    BY <1>6 DEF DefinitionAttr
  <2> QED  BY <2>1 DEF ReadShape
<1> QED  BY <1>1, <1>3, <1>5, <1>7 DEF Memberships, Violates

LEMMA CommitShapes ==
    ASSUME IInv, DroppedWhy, Commit, ShapesHold,
           \A i \in DOMAIN plan : plan[i].op = "retract" /\ plan[i].a = None =>
               \A f \in Live(facts) : f.v = plan[i].e => f.a = "fgraph/shape"
    PROVE  ShapesHold'
<1>1. ShapeIssues(facts', Touched(plan, facts')) = {}
  BY DEF Commit, ShapesValid
<1>2. \A f \in Memberships(facts) : ~Violates(facts, f.e, f.v)
  BY DEF ShapesHold, ShapeIssues
<1>3. ASSUME NEW f \in Memberships(facts'), Violates(facts', f.e, f.v) PROVE FALSE
  <2>1. f.e \notin Touched(plan, facts')
    BY <1>1, <1>3 DEF ShapeIssues
  <2> QED  BY <1>2, <1>3, <2>1, MembershipKept
<1>4. ShapeIssues(facts', {}) = {}
  BY <1>3 DEF ShapeIssues
<1> QED  BY <1>4 DEF ShapesHold

-----------------------------------------------------------------------------
(* The diff loop keeps what DiffKeeps says. *)
LEMMA MatchesTriple ==
    ASSUME NEW req, NEW f, NEW g, Triple(f) = Triple(g)
    PROVE  Matches(req, f) <=> Matches(req, g)
BY DEF Triple, Matches

LEMMA EntryKinds ==
    ASSUME IInv, phase = "diff", NEW w \in working
    PROVE  \/ \E f \in WorkingFactsForPlan \ dropped :
                 w = Stored(f) /\ f \in Live(facts) /\ Triple(w) = Triple(f)
           \/ \E i \in Final : w = Asserted(i) /\ w.ord = i /\ i # 0 /\ i \in DOMAIN plan
                               /\ plan[i].op = "assert" /\ Triple(w) = Triple(plan[i])
<1>1. \/ \E f \in WorkingFactsForPlan \ dropped : w = Stored(f)
      \/ \E i \in Final : w = Asserted(i)
  BY DEF IInv, DiffOK
<1>2. \A i \in Final : i # 0 /\ i \in DOMAIN plan /\ plan[i].op = "assert"
  BY DEF IInv, DiffOK, Final, PlanOK
<1>3. \A f \in WorkingFactsForPlan : f \in Live(facts)
  BY WorkingRows DEF Domain
<1> QED  BY <1>1, <1>2, <1>3, Entries

LEMMA StaysDroppedStep == IInv /\ StaysDropped /\ DiffStep => StaysDropped'
<1> SUFFICES ASSUME IInv, StaysDropped, DiffStep PROVE StaysDropped'
  OBVIOUS
<1> PICK n : n = cursor + 1
  OBVIOUS
<1> PICK req : req = plan[n]
  OBVIOUS
<1>1. /\ phase = "diff" /\ cursor' = n /\ plan' = plan /\ n \in DOMAIN plan
      /\ \A i \in 1..n : i \in 1..cursor \/ i = n
      /\ WorkingFactsForPlan' = WorkingFactsForPlan
  BY DiffFrame
<1>2. ASSUME NEW f \in WorkingFactsForPlan,
             \A i \in DOMAIN plan : plan[i].op = "assert" => Triple(plan[i]) # Triple(f),
             NEW j \in 1..n, plan[j].op = "retract", Matches(plan[j], f)
      PROVE  f \in dropped'
  <2>1. CASE j \in 1..cursor
    <3>1. f \in dropped
      BY <1>1, <1>2, <2>1 DEF StaysDropped
    <3>2. ASSUME NEW b, Restores(req, b) PROVE f # b
      BY <1>1, <1>2, <3>2 DEF Restores, Vacant
    <3> QED  BY <3>1, <3>2, DiffSteps DEF Takes, Repeats, Restores, Inserts
  <2>2. CASE j = n
    BY <1>2, <2>2, DiffSteps DEF Takes, Repeats, Restores, Inserts, Vacant
  <2> QED  BY <1>1, <2>1, <2>2
<1> QED  BY <1>1, <1>2 DEF StaysDropped

LEMMA Stays ==
    ASSUME IInv, DiffStep, NEW m \in ActivePlanAssertions(plan), m <= cursor,
           NEW w \in working, Triple(w) = Triple(plan[m]),
           w.ord # 0 \/ Unrivalled(m)
    PROVE  w \in working'
<1> PICK n : n = cursor + 1
  OBVIOUS
<1> PICK req : req = plan[n]
  OBVIOUS
<1>1. n \in DOMAIN plan /\ cursor \in Nat /\ plan \in Seq(PlanOp) /\ phase = "diff"
  BY DiffFrame DEF IInv, PlanOK
<1>2. m \in DOMAIN plan /\ n > m
  BY <1>1 DEF ActivePlanAssertions
<1>3. CASE Takes(req)
  <2>1. ~Matches(req, plan[m])
    BY <1>1, <1>2, <1>3 DEF ActivePlanAssertions, Takes
  <2>2. ~Matches(req, w)
    BY <2>1, MatchesTriple
  <2> QED  BY <1>3, <2>2 DEF Takes
<1>4. ASSUME Vacant(req) PROVE w \notin Displaced(req)
  <2> SUFFICES ASSUME w \in Displaced(req) PROVE FALSE
    OBVIOUS
  <2>1. w.ord = 0 /\ w.e = req.e /\ w.a = req.a /\ req.op = "assert" /\ Triple(w) # Triple(req)
    BY <1>4 DEF Vacant
  <2>2. ~IsMany(req.a)
    BY DEF Displaced, IsMany
  <2>3. w.e = plan[m].e /\ w.a = plan[m].a /\ w.v = plan[m].v /\ w.v # req.v
    BY <2>1 DEF Triple
  <2> QED  BY <1>1, <1>2, <2>1, <2>2, <2>3 DEF Unrivalled
<1> QED  BY <1>3, <1>4, DiffSteps DEF Repeats, Restores, Inserts

LEMMA ActiveStaysStep == IInv /\ ActiveStays /\ DiffStep => ActiveStays'
<1> SUFFICES ASSUME IInv, ActiveStays, DiffStep PROVE ActiveStays'
  OBVIOUS
<1> PICK n : n = cursor + 1
  OBVIOUS
<1> PICK req : req = plan[n]
  OBVIOUS
<1>1. /\ phase = "diff" /\ cursor' = n /\ plan' = plan /\ facts' = facts
      /\ n \in DOMAIN plan /\ cursor \in Nat /\ plan \in Seq(PlanOp)
  BY DiffFrame DEF IInv, PlanOK
<1>2. \A m : Unrivalled(m)' <=> Unrivalled(m)
  BY <1>1 DEF Unrivalled, IsMany
<1>3. ASSUME NEW m \in ActivePlanAssertions(plan), m <= n
      PROVE  /\ Triple(plan[m]) \notin Triples(Live(facts)) =>
                   \E w \in working' : w.ord # 0 /\ Triple(w) = Triple(plan[m])
             /\ Unrivalled(m) => \E w \in working' : Triple(w) = Triple(plan[m])
  <2>1. CASE m <= cursor
    <3>1. /\ Triple(plan[m]) \notin Triples(Live(facts)) =>
                \E w \in working : w.ord # 0 /\ Triple(w) = Triple(plan[m])
          /\ Unrivalled(m) => \E w \in working : Triple(w) = Triple(plan[m])
      BY <1>1, <2>1 DEF ActiveStays
    <3>2. \A w \in working : Triple(w) = Triple(plan[m]) /\ (w.ord # 0 \/ Unrivalled(m))
                             => w \in working'
      BY <2>1, Stays
    <3> QED  BY <3>1, <3>2
  <2>2. CASE m = n
    <3>0. req.op = "assert"
      BY <2>2 DEF ActivePlanAssertions
    <3>1. CASE Repeats(req)
      <4>1. PICK w \in working : Triple(w) = Triple(req) /\ w \in working'
        BY <3>1 DEF Repeats
      <4>2. w.ord # 0 \/ Triple(req) \in Triples(Live(facts))
        BY <1>1, <4>1, EntryKinds DEF Triples
      <4> QED  BY <2>2, <4>1, <4>2
    <3>2. CASE \E b : Restores(req, b)
      <4>1. PICK b : Restores(req, b)
        BY <3>2
      <4>2. Stored(b) \in working' /\ Triple(Stored(b)) = Triple(req) /\ b \in dropped
            /\ Triple(b) = Triple(req)
        BY <4>1, Entries DEF Restores
      <4>3. Triple(req) \in Triples(Live(facts))
        BY <1>1, <4>2, DroppedDomain DEF Triples
      <4> QED  BY <2>2, <4>2, <4>3
    <3>3. CASE Inserts(req)
      <4>1. Asserted(n) \in working' /\ Triple(Asserted(n)) = Triple(req) /\ Asserted(n).ord = n
        BY <3>3, Entries DEF Inserts
      <4> QED  BY <1>1, <2>2, <4>1
    <3> QED  BY <3>0, <3>1, <3>2, <3>3, DiffSteps DEF Takes
  <2>3. m \in Nat
    BY <1>1 DEF ActivePlanAssertions
  <2> QED  BY <1>1, <1>3, <2>1, <2>2, <2>3
<1> QED  BY <1>1, <1>2, <1>3 DEF ActiveStays

LEMMA CellClearedStep == IInv /\ CellCleared /\ DiffStep => CellCleared'
<1> SUFFICES ASSUME IInv, CellCleared, DiffStep PROVE CellCleared'
  OBVIOUS
<1> PICK n : n = cursor + 1
  OBVIOUS
<1> PICK req : req = plan[n]
  OBVIOUS
<1>1. /\ phase = "diff" /\ cursor' = n /\ plan' = plan /\ cursor \in Nat
      /\ \A i \in 1..n : i \in 1..cursor \/ i = n
      /\ \A i \in 1..cursor : i \in 1..n
      /\ n \in 1..n
  BY DiffFrame
<1>2. ASSUME NEW j \in 1..n, plan[j].op = "retract", plan[j].a # None, plan[j].v = None,
             NEW w \in working', w.e = plan[j].e, w.a = plan[j].a
      PROVE  \E i \in 1..n : i > j /\ plan[i].op = "assert" /\ Triple(plan[i]) = Triple(w)
  <2>0. w \in working \/ (req.op = "assert" /\ Triple(w) = Triple(req))
    BY DiffStepWorking
  <2>1. CASE j \in 1..cursor
    <3>1. CASE w \in working
      BY <1>1, <1>2, <2>1, <3>1 DEF CellCleared
    <3>2. CASE req.op = "assert" /\ Triple(w) = Triple(req)
      BY <1>1, <2>1, <3>2
    <3> QED  BY <2>0, <3>1, <3>2
  <2>2. CASE j = n
    <3>1. working' = {x \in working : ~Matches(req, x)}
      BY <1>2, <2>2, DiffStepWorking
    <3> QED  BY <1>2, <2>2, <3>1 DEF Matches
  <2> QED  BY <1>1, <2>1, <2>2
<1> QED  BY <1>1, <1>2 DEF CellCleared

LEMMA OneCellStep == IInv /\ OneCell /\ DiffStep => OneCell'
<1> SUFFICES ASSUME IInv, OneCell, DiffStep PROVE OneCell'
  OBVIOUS
<1> PICK req : req = plan[cursor + 1]
  OBVIOUS
<1>1. phase = "diff" /\ plan' = plan /\ facts' = facts
  BY DiffFrame
<1>2. \A a : IsMany(a)' <=> IsMany(a)
  BY <1>1 DEF IsMany
<1>3. ASSUME NEW a \in UserAttr, ~IsMany(a), OneEach(facts, a), NEW w \in working', NEW x \in working',
             w.a = a, x.a = a, w.e = x.e
      PROVE  w = x
  <2>1. \A y, z \in working : y.a = a /\ z.a = a /\ y.e = z.e => y = z
    BY <1>1, <1>3 DEF OneCell
  <2>2. ASSUME NEW y, Triple(y) = Triple(req), Vacant(req),
               working' = (working \ Displaced(req)) \cup {y}
        PROVE  w = x
    <3>1. y.e = req.e /\ y.a = req.a
      BY <2>2 DEF Triple
    <3>2. \A z \in working : z.e = req.e /\ z.a = req.a /\ req.a = a => z \in Displaced(req)
      BY <1>3 DEF Displaced, IsMany
    <3> QED  BY <1>3, <2>1, <2>2, <3>1, <3>2
  <2>3. CASE Takes(req) \/ Repeats(req)
    BY <1>3, <2>1, <2>3 DEF Takes, Repeats
  <2>4. CASE \E b : Restores(req, b)
    <3>1. PICK b : Restores(req, b)
      BY <2>4
    <3> QED  BY <2>2, <3>1, Entries DEF Restores
  <2>5. CASE Inserts(req)
    BY <2>2, <2>5, Entries DEF Inserts
  <2> QED  BY <2>3, <2>4, <2>5, DiffSteps
<1> QED  BY <1>1, <1>2, <1>3 DEF OneCell

LEMMA OneHolderStep == IInv /\ OneHolder /\ DiffStep => OneHolder'
<1> SUFFICES ASSUME IInv, OneHolder, DiffStep PROVE OneHolder'
  OBVIOUS
<1> PICK req : req = plan[cursor + 1]
  OBVIOUS
<1>1. phase = "diff" /\ plan' = plan /\ facts' = facts /\ cursor + 1 \in DOMAIN plan
  BY DiffFrame
<1>2. \A a : NewValuesOf(a)' <=> NewValuesOf(a)
  BY <1>1 DEF NewValuesOf
<1>3. ASSUME NEW a \in UserAttr, SchemaForPlan(facts, plan, a, "fgraph/unique") = "true",
             OneOwner(facts, a), NewValuesOf(a), NEW w \in working', NEW x \in working',
             w.a = a, x.a = a, w.v = x.v
      PROVE  w.e = x.e
  <2>1. \A y, z \in working : y.a = a /\ z.a = a /\ y.v = z.v => y.e = z.e
    BY <1>1, <1>3 DEF OneHolder
  <2>2. CASE Takes(req) \/ Repeats(req)
    BY <1>3, <2>1, <2>2 DEF Takes, Repeats
  <2>3. CASE \E b : Restores(req, b)
    <3>1. PICK b : Restores(req, b)
      BY <2>3
    <3>2. Triple(req) \in Triples(Live(facts)) /\ req.op = "assert"
      BY <1>1, <3>1, DroppedDomain DEF Triples, Restores, Vacant
    <3>3. req.a # a
      BY <1>1, <1>3, <3>2 DEF NewValuesOf
    <3>4. Stored(b).a = req.a
      BY <3>1, Entries DEF Restores, Triple
    <3> QED  BY <1>3, <2>1, <3>1, <3>3, <3>4 DEF Restores
  <2>4. CASE Inserts(req)
    <3> PICK y : y = Asserted(cursor + 1)
      OBVIOUS
    <3>1. y.e = req.e /\ y.a = req.a /\ y.v = req.v
          /\ working' = (working \ Displaced(req)) \cup {y}
      BY <2>4, Entries DEF Inserts
    <3>2. req.a = a => \A z \in working \ Displaced(req) : z.a = a /\ z.v = req.v => z.e = req.e
      BY <1>3, <2>4 DEF Inserts
    <3> QED  BY <1>3, <2>1, <3>1, <3>2
  <2> QED  BY <2>2, <2>3, <2>4, DiffSteps
<1> QED  BY <1>1, <1>2, <1>3 DEF OneHolder

LEMMA ValidateKeeps == IInv /\ Validate => DiffKeeps'
<1> SUFFICES ASSUME IInv, Validate PROVE DiffKeeps'
  OBVIOUS
<1>1. /\ plan' = plan /\ facts' = facts /\ cursor' = 0 /\ dropped' = {} /\ plan \in Seq(PlanOp)
      /\ working' = {Stored(f) : f \in WorkingFactsForPlan}
  BY DEF Validate, planning, store, IInv, PlanOK
<1>2. \A w \in working' : \E f \in Live(facts) : w = Stored(f)
  BY <1>1, WorkingRows DEF Domain
<1>3. ASSUME NEW a \in UserAttr, OneEach(facts, a), NEW w \in working', NEW x \in working',
             w.a = a, x.a = a, w.e = x.e
      PROVE  w = x
  <2>1. PICK f \in Live(facts), g \in Live(facts) : w = Stored(f) /\ x = Stored(g)
    BY <1>2
  <2>2. f.a = a /\ g.a = a /\ f.e = g.e
    BY <1>3, <2>1, Entries
  <2>3. Triple(f) = Triple(g)
    BY <1>3, <2>2 DEF OneEach, Triple
  <2> QED  BY <2>1, <2>3 DEF IInv, StoreOK, LiveUnique
<1>4. ASSUME NEW a \in UserAttr, OneOwner(facts, a), NEW w \in working', NEW x \in working',
             w.a = a, x.a = a, w.v = x.v
      PROVE  w.e = x.e
  <2>1. PICK f \in Live(facts), g \in Live(facts) : w = Stored(f) /\ x = Stored(g)
    BY <1>2
  <2>2. f.a = a /\ g.a = a /\ f.v = g.v /\ w.e = f.e /\ x.e = g.e
    BY <1>4, <2>1, Entries
  <2> QED  BY <1>4, <2>2 DEF OneOwner
<1>5. DroppedWhy' /\ StaysDropped' /\ CellCleared'
  BY <1>1 DEF DroppedWhy, StaysDropped, CellCleared
<1>6. ActiveStays'
  BY <1>1 DEF ActiveStays, ActivePlanAssertions
<1>7. OneCell'
  BY <1>1, <1>3 DEF OneCell
<1>8. OneHolder'
  BY <1>1, <1>4 DEF OneHolder
<1> QED  BY <1>5, <1>6, <1>7, <1>8 DEF DiffKeeps

LEMMA DiffStepKeeps == IInv /\ DiffKeeps /\ DiffStep => DiffKeeps'
BY DroppedWhyStep, StaysDroppedStep, ActiveStaysStep, CellClearedStep, OneCellStep, OneHolderStep
   DEF DiffKeeps

LEMMA NoDiffKeeps ==
    ASSUME phase' # "diff"
    PROVE  DiffKeeps'
BY DEF DiffKeeps, DroppedWhy, StaysDropped, ActiveStays, CellCleared, OneCell, OneHolder

LEMMA StutterKeeps == DiffKeeps /\ UNCHANGED vars => DiffKeeps'
<1> SUFFICES ASSUME DiffKeeps, UNCHANGED vars PROVE DiffKeeps'
  OBVIOUS
<1>1. /\ plan' = plan /\ facts' = facts /\ cursor' = cursor /\ dropped' = dropped
      /\ working' = working /\ phase' = phase
  BY DEF vars
<1>2. WorkingFactsForPlan' = WorkingFactsForPlan
  BY <1>1, WorkingUnchanged
<1>3. /\ \A a : IsMany(a)' <=> IsMany(a)
      /\ \A m : Unrivalled(m)' <=> Unrivalled(m)
      /\ \A a : NewValuesOf(a)' <=> NewValuesOf(a)
  BY <1>1 DEF IsMany, Unrivalled, NewValuesOf
<1>4. DroppedWhy' /\ StaysDropped' /\ CellCleared'
  BY <1>1, <1>2 DEF DiffKeeps, DroppedWhy, StaysDropped, CellCleared
<1>5. ActiveStays'
  BY <1>1, <1>3 DEF DiffKeeps, ActiveStays
<1>6. OneCell'
  BY <1>1, <1>3 DEF DiffKeeps, OneCell
<1>7. OneHolder'
  BY <1>1, <1>3 DEF DiffKeeps, OneHolder
<1> QED  BY <1>4, <1>5, <1>6, <1>7 DEF DiffKeeps

-----------------------------------------------------------------------------
(* Declarations hold one value each: nothing can declare a system attribute
   many. *)
LEMMA FlagNotMany ==
    ASSUME IInv, NEW flag \in SchemaAttr
    PROVE  ~IsMany(flag) /\ flag \in UserAttr
<1>1. ~SystemMany(flag, "fgraph/many")
  BY DEF SystemMany, SchemaAttr, Flags
<1>2. \A i \in DOMAIN plan : plan[i].e # flag
  <2> TAKE i \in DOMAIN plan
  <2>1. plan[i] \in PlanOp
    BY DEF IInv, PlanOK
  <2>2. plan[i].e \in Ref
    BY <2>1 DEF PlanOp, AssertOp, RetractOp
  <2> QED  BY <2>2, References
<1>3. Declarations(facts, flag, "fgraph/many") = {}
  <2> SUFFICES ASSUME NEW f \in facts, f.a = "fgraph/many", f.e = flag PROVE FALSE
    BY DEF Declarations, Live
  <2>1. RowOK(f, Basis) /\ Basis \in Nat /\ f.a \notin AuditAttr
    BY DEF IInv, StoreOK, EventsOK, RowsOK, Basis, AuditAttr
  <2>2. f.e \in Ref
    BY <2>1, DomainRows DEF FactRow
  <2> QED  BY <2>2, References
<1>4. {i \in ActivePlanAssertions(plan) : plan[i].e = flag /\ plan[i].a = "fgraph/many"} = {}
  BY <1>2 DEF ActivePlanAssertions
<1>5. {f \in Declarations(facts, flag, "fgraph/many") : ~RawRetracted(plan, f)} = {}
  BY <1>3
<1>6. SchemaForPlan(facts, plan, flag, "fgraph/many") = "unset"
  BY <1>1, <1>4, <1>5 DEF SchemaForPlan, LastDeclared
<1> QED  BY <1>6 DEF IsMany, UserAttr

LEMMA FlagOneEach ==
    ASSUME RowsApart, NEW flag \in SchemaAttr
    PROVE  OneEach(facts, flag)
BY DEF OneEach, RowsApart, Apart, Live

(* A commit keeps one value in the cells of an attribute that is not many. *)
LEMMA CommitOneEach ==
    ASSUME IInv, OneCell, Commit, NEW a \in UserAttr, ~IsMany(a), OneEach(facts, a)
    PROVE  OneEach(facts', a)
<1>0. phase = "diff"
  BY CommitEffect DEF Diffed
<1>1. ASSUME NEW f \in Live(facts'), NEW g \in Live(facts'), f.a = a, g.a = a, f.e = g.e
      PROVE  f.v = g.v
  <2>1. f \in Domain(Live(facts')) /\ g \in Domain(Live(facts'))
    BY <1>1, UserAttrs DEF Domain
  <2>2. ASSUME NEW h \in Domain(Live(facts)) \ WorkingFactsForPlan, NEW w \in working,
               w.e = h.e, w.a = a, h.a = a
        PROVE  w.v = h.v
    <3>1. CASE \E i \in Final : i \in DOMAIN plan /\ Triple(w) = Triple(plan[i])
      <4>1. PICK i \in DOMAIN plan : Triple(w) = Triple(plan[i])
        BY <3>1
      <4>2. h.e = plan[i].e
        BY <2>2, <4>1 DEF Triple
      <4> QED  BY <4>2, WorkingRows
    <3>2. CASE \E d \in Live(facts) : Triple(w) = Triple(d)
      <4>1. PICK d \in Live(facts) : Triple(w) = Triple(d)
        BY <3>2
      <4>2. d.e = h.e /\ d.a = a /\ d.v = w.v /\ h \in Live(facts)
        BY <2>2, <4>1 DEF Triple, Domain
      <4> QED  BY <2>2, <4>2 DEF OneEach
    <3> QED  BY <1>0, <3>1, <3>2, EntryKinds
  <2>3. \A h \in Domain(Live(facts')) : \/ h \in Domain(Live(facts)) \ WorkingFactsForPlan
                                       \/ \E w \in working : Triple(w) = Triple(h)
    BY CommittedEntries
  <2>4. \A w, h : Triple(w) = Triple(h) => w.e = h.e /\ w.a = h.a /\ w.v = h.v
    BY DEF Triple
  <2>5. CASE f \in Domain(Live(facts)) \ WorkingFactsForPlan
             /\ g \in Domain(Live(facts)) \ WorkingFactsForPlan
    BY <1>1, <2>5 DEF OneEach, Domain
  <2>6. CASE /\ f \in Domain(Live(facts)) \ WorkingFactsForPlan
             /\ \E w \in working : Triple(w) = Triple(g)
    BY <1>1, <2>2, <2>4, <2>6
  <2>7. CASE /\ g \in Domain(Live(facts)) \ WorkingFactsForPlan
             /\ \E w \in working : Triple(w) = Triple(f)
    BY <1>1, <2>2, <2>4, <2>7
  <2>8. CASE /\ \E w \in working : Triple(w) = Triple(f)
             /\ \E w \in working : Triple(w) = Triple(g)
    <3>1. PICK w \in working, x \in working : Triple(w) = Triple(f) /\ Triple(x) = Triple(g)
      BY <2>8
    <3>2. w = x
      BY <1>0, <1>1, <2>4, <3>1 DEF OneCell
    <3> QED  BY <2>4, <3>1, <3>2
  <2> QED  BY <2>1, <2>3, <2>5, <2>6, <2>7, <2>8
<1> QED  BY <1>1 DEF OneEach

LEMMA InitApart == Init => RowsApart
<1> SUFFICES ASSUME Init PROVE RowsApart
  OBVIOUS
<1>0. /\ load \in Workloads /\ load.seed \in Seq(TripleSet)
      /\ \A i, j \in DOMAIN load.seed : load.seed[i] = load.seed[j] => i = j
  BY WorkloadTyped DEF Init
<1>1. \A f \in facts : \E i \in DOMAIN load.seed : f = Row(load.seed[i], 2, i)
  BY DEF Init, Genesis
<1>2. ASSUME NEW f \in facts, NEW g \in facts, f # g, f.e = g.e, f.a = g.a,
             f.v = g.v \/ f.a \in SchemaAttr
      PROVE  FALSE
  <2>1. PICK i \in DOMAIN load.seed, j \in DOMAIN load.seed :
           f = Row(load.seed[i], 2, i) /\ g = Row(load.seed[j], 2, j)
    BY <1>1
  <2>2. /\ f.e = load.seed[i].e /\ f.a = load.seed[i].a /\ f.v = load.seed[i].v
        /\ g.e = load.seed[j].e /\ g.a = load.seed[j].a /\ g.v = load.seed[j].v
        /\ i # j
    BY <1>2, <2>1 DEF Row
  <2>3. load.seed[i] \in TripleSet /\ load.seed[j] \in TripleSet
    BY <1>0
  <2>4. f.v # g.v
    <3>1. \A s, t \in TripleSet : s.e = t.e /\ s.a = t.a /\ s.v = t.v => s = t
      BY DEF TripleSet
    <3>2. load.seed[i].e = load.seed[j].e /\ load.seed[i].a = load.seed[j].a
      BY <1>2, <2>2
    <3>3. load.seed[i] # load.seed[j]
      BY <1>0, <2>2
    <3> QED  BY <2>2, <2>3, <3>1, <3>2, <3>3
  <2>5. f.a \in SchemaAttr
    BY <1>2, <2>4
  <2>6. \/ SystemMany(load.seed[i].a, "fgraph/many")
        \/ \E m \in DOMAIN load.seed :
              load.seed[m] = [e |-> load.seed[i].a, a |-> "fgraph/many", v |-> "true"]
    BY <1>0, <1>2, <2>2, WorkloadsAssumption
  <2>7. ~SystemMany(load.seed[i].a, "fgraph/many")
    BY <2>2, <2>5 DEF SystemMany, SchemaAttr, Flags
  <2>8. PICK m \in DOMAIN load.seed :
           load.seed[m] = [e |-> load.seed[i].a, a |-> "fgraph/many", v |-> "true"]
    BY <2>6, <2>7
  <2>9. load.seed[m].e = f.a /\ load.seed[m].e \in Ref
    BY <1>0, <2>2, <2>8 DEF TripleSet
  <2> QED  BY <2>5, <2>9, References
<1>3. \A f \in facts : f.rx = Null
  BY <1>1 DEF Row
<1> QED  BY <1>2, <1>3 DEF RowsApart

LEMMA CommitApart == IInv /\ RowsApart /\ OneCell /\ Commit => RowsApart'
<1> SUFFICES ASSUME IInv, RowsApart, OneCell, Commit PROVE RowsApart'
  OBVIOUS
<1>0. phase = "diff" /\ CommitRows(facts') /\ Basis \in Nat /\ LiveUnique'
  BY CommitEffect, CommitEvent, CommitIInv DEF Diffed, IInv, StoreOK
<1>1. \A flag \in SchemaAttr : OneEach(facts', flag)
  BY FlagNotMany, FlagOneEach, CommitOneEach
<1>2. ASSUME NEW f \in Live(facts'), NEW g \in Live(facts'), f # g, f.e = g.e, f.a = g.a,
             f.v = g.v \/ f.a \in SchemaAttr
      PROVE  FALSE
  <2>1. f.v = g.v
    BY <1>1, <1>2 DEF OneEach
  <2>2. Triple(f) = Triple(g)
    BY <1>2, <2>1 DEF Triple
  <2> QED  BY <1>0, <1>2, <2>2 DEF LiveUnique
(* Every row of the new store that has ended is an old one, as it was or as it
   ends now. *)
<1>3. ASSUME NEW f \in facts', f.rx # Null
      PROVE  \/ f \in facts /\ f.rx \in 1..Basis
             \/ \E d \in Ended : f = EndedRow(d) /\ d \in facts /\ f.rx = Basis + 1 /\ d.rx = Null
                                 /\ f.e = d.e /\ f.a = d.a /\ f.v = d.v /\ f.tx = d.tx
                                 /\ d \in dropped /\ f.tx \in 1..Basis
  <2>1. CASE f \in facts
    BY <1>0, <1>3, <2>1, RowGrows DEF IInv, StoreOK, RowsOK, Null
  <2>2. CASE \E d \in Ended : f = EndedRow(d)
    <3>1. PICK d \in Ended : f = EndedRow(d)
      BY <2>2
    <3>2. d \in facts /\ f.rx = Basis + 1 /\ d.rx = Null /\ d \in dropped
          /\ f.e = d.e /\ f.a = d.a /\ f.v = d.v /\ f.tx = d.tx /\ d \in FactRow(Basis)
      BY <1>0, <3>1, EndedRows DEF Domain, Live
    <3> QED  BY <3>1, <3>2 DEF FactRow
  <2> QED  BY <1>0, <1>3, <2>1, <2>2, FreshRows, AuditRows DEF CommitRows, FreshOK
<1>4. ASSUME NEW f \in facts', f.rx = Null
      PROVE  \/ f \in facts \ dropped /\ f.tx \in 1..Basis
             \/ f.tx = Basis + 1 /\ f \in Fresh
             \/ f.tx = Basis + 1 /\ f \in UndoAudit(Basis + 1)
  <2>1. f \in Live(facts')
    BY <1>4 DEF Live
  <2> QED  BY <1>0, <2>1, LiveAfter, FreshRows, AuditRows, RowGrows
              DEF FreshOK, IInv, StoreOK, RowsOK, Live
<1>5. ASSUME NEW f \in facts', NEW g \in facts', f # g, f.e = g.e, f.a = g.a,
             f.v = g.v \/ f.a \in SchemaAttr, f.rx # Null
      PROVE  Apart(f, g)
  <2>1. PICK d \in facts : /\ f.e = d.e /\ f.a = d.a /\ f.v = d.v /\ f.tx = d.tx
                           /\ f.rx <= Basis + 1
                           /\ f.rx = d.rx \/ (d.rx = Null /\ f.rx = Basis + 1 /\ f = EndedRow(d))
                           /\ f = d \/ (d.rx = Null /\ f = EndedRow(d) /\ d \in dropped)
    BY <1>0, <1>3, <1>5
  <2>2. CASE g.tx = Basis + 1
    BY <1>5, <2>1, <2>2 DEF Apart
  <2>3. CASE g.tx # Basis + 1
    <3>1. PICK h \in facts : /\ g.e = h.e /\ g.a = h.a /\ g.v = h.v /\ g.tx = h.tx
                             /\ g = h \/ (h.rx = Null /\ g = EndedRow(h) /\ h \in dropped
                                          /\ g.rx = Basis + 1)
      BY <1>3, <1>4, <2>3
    <3>2. d # h
      <4> SUFFICES ASSUME d = h PROVE FALSE
        OBVIOUS
      <4>1. CASE f = d
        BY <1>5, <2>1, <3>1, <4>1
      <4>2. CASE f # d
        <5>1. d.rx = Null /\ f = EndedRow(d) /\ d \in dropped
          BY <2>1, <4>2
        <5>2. g = d
          BY <1>5, <3>1, <5>1
        <5> QED  BY <1>4, <2>3, <5>1, <5>2
      <4> QED  BY <4>1, <4>2
    <3>3. Apart(d, h)
      BY <1>5, <2>1, <3>1, <3>2 DEF RowsApart
    <3> QED  BY <1>5, <2>1, <3>1, <3>3 DEF Apart
  <2> QED  BY <2>2, <2>3
<1>6. ASSUME NEW f \in facts', NEW g \in facts', f # g, f.e = g.e, f.a = g.a,
             f.v = g.v \/ f.a \in SchemaAttr
      PROVE  Apart(f, g)
  <2>1. CASE f.rx # Null
    BY <1>5, <1>6, <2>1
  <2>2. CASE g.rx # Null
    BY <1>5, <1>6, <2>2 DEF Apart
  <2>3. CASE f.rx = Null /\ g.rx = Null
    BY <1>2, <1>6, <2>3 DEF Live
  <2> QED  BY <2>1, <2>2, <2>3
<1>7. ASSUME NEW f \in facts', NEW g \in facts', f.rx # Null, f.rx = g.tx, Triple(f) = Triple(g)
      PROVE  FALSE
  <2>1. CASE f \in facts /\ f.rx \in 1..Basis
    <3>1. g.tx # Basis + 1
      BY <1>0, <1>7, <2>1
    <3>2. PICK h \in facts : g.tx = h.tx /\ Triple(g) = Triple(h)
      BY <1>3, <1>4, <3>1 DEF Triple
    <3> QED  BY <1>7, <2>1, <3>2 DEF RowsApart
  <2>2. CASE f.rx = Basis + 1 /\ \E d \in dropped : Triple(f) = Triple(d)
    <3>0. g.tx = Basis + 1 /\ g.tx \notin 1..Basis
      BY <1>0, <1>7, <2>2
    <3>1. g.rx = Null
      <4>1. \A h \in facts : h.tx \in 1..Basis
        BY <1>0, RowGrows DEF IInv, StoreOK, RowsOK
      <4> QED  BY <1>3, <3>0, <4>1
    <3>2. g \in Fresh \/ g \in UndoAudit(Basis + 1)
      BY <1>4, <3>0, <3>1
    <3>3. PICK d \in dropped : Triple(f) = Triple(d)
      BY <2>2
    <3>4. CASE g \in Fresh
      <4>1. PICK i \in Final : Triple(g) = Triple(plan[i])
        BY <1>0, <3>4, FreshRows DEF FreshOK
      <4> QED  BY <1>0, <1>7, <3>3, <4>1 DEF IInv, DiffOK
    <3>5. CASE g \in UndoAudit(Basis + 1)
      <4>1. g.e \notin Ref /\ d.e \in Ref
        BY <1>0, <3>5, AuditEntity, DroppedDomain
      <4> QED  BY <1>7, <3>3, <4>1 DEF Triple
    <3> QED  BY <3>2, <3>4, <3>5
  <2> QED  BY <1>3, <1>7, <2>1, <2>2 DEF Triple
<1> QED  BY <1>6, <1>7 DEF RowsApart

LEMMA ExciseApart ==
    ASSUME IInv, RowsApart, NEW x \in Ref, Excise(x)
    PROVE  RowsApart'
<1>1. facts' = (facts \ ExcisedRows(x)) \cup {Mark(x)} /\ Basis \in Nat
  BY ExciseEffect DEF IInv, StoreOK, EventsOK, Basis
<1>2. Mark(x).e = Basis + 1 /\ Mark(x).tx = Basis + 1 /\ Mark(x).rx = Null
  BY DEF Mark, AuditRow, Row
<1>3. \A f \in facts : f.e # Basis + 1 /\ f.rx # Basis + 1
  <2> TAKE f \in facts
  <2>1. RowOK(f, Basis)
    BY DEF IInv, StoreOK, RowsOK
  <2>2. f.e \in Ref \/ f.e \in 1..Basis
    BY <2>1 DEF RowOK, FactRow, MarkRow, UndoneRow
  <2>3. f.rx \in 0..Basis
    BY <1>1, <2>1, RowGrows
  <2> QED  BY <1>1, <2>2, <2>3, References
<1>4. \A f \in facts' : f \in facts \/ f = Mark(x)
  BY <1>1
<1>5. Null # Basis + 1
  BY <1>1 DEF Null
<1> HIDE DEF Mark
<1> QED  BY <1>2, <1>3, <1>4, <1>5 DEF RowsApart

-----------------------------------------------------------------------------
(* What a declaration says, when there is at most one. *)
Sole(rows, flag) ==
    \A f \in Live(rows) : f.a = flag =>
        /\ f.tx \in Nat /\ f.ord \in Nat
        /\ \A g \in Live(rows) : g.a = flag /\ g.e = f.e => g = f

LEMMA SoleRows ==
    ASSUME NEW rows, NEW n \in Nat, \A f \in rows : RowOK(f, n),
           \A f, g \in rows : f # g /\ f.e = g.e /\ f.a = g.a /\ (f.v = g.v \/ f.a \in SchemaAttr)
                              => Apart(f, g)
    PROVE  \A flag \in SchemaAttr : Sole(rows, flag)
<1>1. \A f \in rows : f.tx \in Nat /\ f.ord \in Nat
  BY RowGrows
<1>2. \A f, g \in Live(rows) : ~Apart(f, g)
  BY DEF Apart, Live
<1> QED  BY <1>1, <1>2 DEF Sole, Live

LEMMA SoleFacts ==
    ASSUME IInv, RowsApart, NEW flag \in SchemaAttr
    PROVE  Sole(facts, flag)
<1>1. /\ Basis \in Nat /\ \A f \in facts : RowOK(f, Basis)
      /\ \A f, g \in facts : f # g /\ f.e = g.e /\ f.a = g.a /\ (f.v = g.v \/ f.a \in SchemaAttr)
                             => Apart(f, g)
  BY DEF IInv, StoreOK, EventsOK, RowsOK, Basis, RowsApart
<1> QED  BY <1>1, SoleRows

LEMMA SoleAfter ==
    ASSUME IInv, RowsApart, OneCell, Commit, NEW flag \in SchemaAttr
    PROVE  Sole(facts', flag)
<1>1. RowsApart' /\ IInv'
  BY CommitApart, CommitIInv
<1>2. /\ Basis' \in Nat /\ \A f \in facts' : RowOK(f, Basis')
      /\ \A f, g \in facts' : f # g /\ f.e = g.e /\ f.a = g.a /\ (f.v = g.v \/ f.a \in SchemaAttr)
                             => Apart(f, g)
  BY <1>1 DEF IInv, StoreOK, EventsOK, RowsOK, Basis, RowsApart
<1> QED  BY <1>2, SoleRows

LEMMA SoleLast ==
    ASSUME NEW f, f.tx \in Nat, f.ord \in Nat
    PROVE  LastDeclared({f}) = f.v
<1>1. \A g \in {f} : ~Before(f, g)
  BY DEF Before
<1>2. (CHOOSE h \in {f} : \A g \in {f} : ~Before(h, g)) = f
  BY <1>1
<1> QED  BY <1>2 DEF LastDeclared

LEMMA SoleDeclaration ==
    ASSUME NEW rows, NEW attr, NEW flag, ~SystemMany(attr, flag), Sole(rows, flag),
           NEW f \in Live(rows), f.a = flag, f.e = attr
    PROVE  SchemaFor(rows, attr, flag) = f.v
<1>1. Declarations(rows, attr, flag) = {f} /\ f.tx \in Nat /\ f.ord \in Nat
  BY DEF Declarations, Sole
<1> QED  BY <1>1, SoleLast DEF SchemaFor

LEMMA DeclarationFound ==
    ASSUME NEW rows, NEW attr, NEW flag, ~SystemMany(attr, flag), Sole(rows, flag),
           SchemaFor(rows, attr, flag) # "unset"
    PROVE  \E f \in Live(rows) : f.a = flag /\ f.e = attr /\ f.v = SchemaFor(rows, attr, flag)
<1>1. PICK f \in Live(rows) : f.a = flag /\ f.e = attr
  <2>1. Declarations(rows, attr, flag) # {}
    BY DEF SchemaFor, LastDeclared
  <2> QED  BY <2>1 DEF Declarations
<1> QED  BY <1>1, SoleDeclaration

(* What the plan will declare: the value of a planned assertion, or else of the
   stored row that no operation retracts. *)
Declaring(attr, flag) ==
    {m \in ActivePlanAssertions(plan) : plan[m].e = attr /\ plan[m].a = flag}

LEMMA PlannedLast ==
    ASSUME IInv, NEW attr, NEW flag, ~SystemMany(attr, flag), Declaring(attr, flag) # {}
    PROVE  \E m \in Declaring(attr, flag) : SchemaForPlan(facts, plan, attr, flag) = plan[m].v
<1> PICK P : P = Declaring(attr, flag)
  OBVIOUS
<1>0. plan \in Seq(PlanOp) /\ Len(plan) \in Nat /\ \A i \in DOMAIN plan : i \in 0..Len(plan)
  BY DEF IInv, PlanOK
<1>1. P \in SUBSET (0..Len(plan))
  BY <1>0 DEF ActivePlanAssertions, Declaring
<1>2. SchemaForPlan(facts, plan, attr, flag) = plan[CHOOSE i \in P : \A j \in P : j <= i].v
  BY DEF SchemaForPlan, Declaring
<1>3. \E i \in P : \A j \in P : j <= i
  BY <1>0, <1>1, GreatestNumber
<1>4. (CHOOSE i \in P : \A j \in P : j <= i) \in P
  BY <1>3
<1> QED  BY <1>2, <1>4

LEMMA StoredLast ==
    ASSUME IInv, RowsApart, NEW attr, NEW flag \in SchemaAttr, ~SystemMany(attr, flag),
           Declaring(attr, flag) = {}, NEW f \in Live(facts), f.a = flag, f.e = attr,
           ~RawRetracted(plan, f)
    PROVE  SchemaForPlan(facts, plan, attr, flag) = f.v
<1>1. Sole(facts, flag)
  BY SoleFacts
<1>2. {g \in Declarations(facts, attr, flag) : ~RawRetracted(plan, g)} = {f}
  BY <1>1 DEF Declarations, Sole
<1>3. f.tx \in Nat /\ f.ord \in Nat
  BY <1>1 DEF Sole
<1> QED  BY <1>2, <1>3, SoleLast DEF SchemaForPlan, Declaring

LEMMA PlannedValue ==
    ASSUME IInv, RowsApart, NEW attr, NEW flag \in SchemaAttr, ~SystemMany(attr, flag),
           SchemaForPlan(facts, plan, attr, flag) # "unset"
    PROVE  \/ \E m \in Declaring(attr, flag) :
                 plan[m].v = SchemaForPlan(facts, plan, attr, flag)
           \/ \E f \in Live(facts) : /\ f.a = flag /\ f.e = attr
                                     /\ f.v = SchemaForPlan(facts, plan, attr, flag)
<1>1. CASE Declaring(attr, flag) # {}
  BY <1>1, PlannedLast
<1>2. CASE Declaring(attr, flag) = {}
  <2> DEFINE S == {f \in Declarations(facts, attr, flag) : ~RawRetracted(plan, f)}
  <2>1. SchemaForPlan(facts, plan, attr, flag) = LastDeclared(S)
    BY <1>2 DEF SchemaForPlan, Declaring
  <2>2. PICK f : f \in S
    BY <2>1 DEF LastDeclared
  <2>3. f \in Live(facts) /\ f.a = flag /\ f.e = attr /\ ~RawRetracted(plan, f)
    BY <2>2 DEF Declarations
  <2>4. f.v = SchemaForPlan(facts, plan, attr, flag)
    BY <1>2, <2>3, StoredLast
  <2> QED  BY <2>3, <2>4
<1> QED  BY <1>1, <1>2

(* An active assertion of what was not live is live after the commit. *)
LEMMA ActiveCommits ==
    ASSUME IInv, ActiveStays, Commit, NEW m \in ActivePlanAssertions(plan),
           Triple(plan[m]) \notin Triples(Live(facts))
    PROVE  \E f \in Live(facts') : f.e = plan[m].e /\ f.a = plan[m].a /\ f.v = plan[m].v
<1>1. phase = "diff" /\ m <= cursor
  BY CommitEffect DEF Diffed, ActivePlanAssertions, IInv, PlanOK
<1>2. PICK w \in working : Triple(w) = Triple(plan[m])
  BY <1>1 DEF ActiveStays
<1>3. PICK f \in Domain(Live(facts')) : Triple(f) = Triple(w)
  BY CommittedEntries
<1> QED  BY <1>2, <1>3 DEF Triple, Domain

LEMMA CommitCardinality ==
    ASSUME IInv, RowsApart, DiffKeeps, Commit, NEW a \in Attr,
           SchemaFor(facts, a, "fgraph/many") # "true",
           SchemaFor(facts', a, "fgraph/many") # "true", OneEach(facts, a)
    PROVE  OneEach(facts', a)
<1>0. /\ "fgraph/many" \in SchemaAttr /\ a \in UserAttr /\ OneCell /\ ActiveStays
      /\ ~SystemMany(a, "fgraph/many")
  <2>1. a \in Ref /\ a \notin ShapeAttr
    BY NamesAssumption DEF Ref
  <2> QED  BY <2>1 DEF SchemaAttr, Flags, UserAttr, DiffKeeps, SystemMany, ShapeAttr, DefinitionAttr
<1>1. \A f \in Live(facts) : f.a = "fgraph/many" /\ f.e = a => f.v # "true"
  BY <1>0, SoleFacts, SoleDeclaration
<1>2. \A f \in Live(facts') : f.a = "fgraph/many" /\ f.e = a => f.v # "true"
  <2>1. Sole(facts', "fgraph/many")
    BY <1>0, SoleAfter
  <2> QED  BY <1>0, <2>1, SoleDeclaration
<1>3. ~IsMany(a)
  <2> SUFFICES ASSUME SchemaForPlan(facts, plan, a, "fgraph/many") = "true" PROVE FALSE
    BY DEF IsMany
  <2>1. PICK m \in ActivePlanAssertions(plan) :
           plan[m].e = a /\ plan[m].a = "fgraph/many" /\ plan[m].v = "true"
    BY <1>0, <1>1, PlannedValue DEF Declaring
  <2>2. Triple(plan[m]) \notin Triples(Live(facts))
    BY <1>1, <2>1 DEF Triples, Triple
  <2> QED  BY <1>0, <1>2, <2>1, <2>2, ActiveCommits
<1> QED  BY <1>0, <1>3, CommitOneEach

LEMMA CommitUnique ==
    ASSUME IInv, RowsApart, DiffKeeps, Commit, NEW a \in Attr,
           SchemaFor(facts, a, "fgraph/unique") = "true", OneOwner(facts, a),
           SchemaFor(facts', a, "fgraph/unique") = "true",
           \A i \in DOMAIN plan : plan[i].op = "assert" =>
               Triple(plan[i]) \notin Triples(Live(facts))
    PROVE  OneOwner(facts', a)
<1>0. /\ "fgraph/unique" \in SchemaAttr /\ a \in UserAttr /\ OneHolder /\ ActiveStays /\ OneCell
      /\ StaysDropped /\ phase = "diff" /\ DOMAIN plan = 1..cursor
      /\ ~SystemMany(a, "fgraph/unique")
  BY CommitEffect
     DEF SchemaAttr, Flags, UserAttr, DiffKeeps, SystemMany, Diffed, IInv, PlanOK
<1>1. Sole(facts, "fgraph/unique") /\ Sole(facts', "fgraph/unique")
  BY <1>0, SoleFacts, SoleAfter
<1>2. PICK d \in Live(facts) : d.a = "fgraph/unique" /\ d.e = a /\ d.v = "true"
  BY <1>0, <1>1, DeclarationFound
<1>3. PICK c \in Live(facts') : c.a = "fgraph/unique" /\ c.e = a /\ c.v = "true"
  BY <1>0, <1>1, DeclarationFound
<1>4. c = d /\ d \notin dropped
  <2>1. c \notin Fresh
    <3> SUFFICES ASSUME c \in Fresh PROVE FALSE
      OBVIOUS
    <3>1. PICK i \in DOMAIN plan : plan[i].op = "assert" /\ Triple(c) = Triple(plan[i])
      BY <1>0, FreshPlanned
    <3>2. Triple(c) = Triple(d)
      BY <1>2, <1>3 DEF Triple
    <3> QED  BY <3>1, <3>2 DEF Triples
  <2>2. c \notin UndoAudit(Basis + 1)
    BY <1>3, AuditRows
  <2>3. c \in Live(facts) \ dropped
    BY <2>1, <2>2, LiveAfter
  <2> QED  BY <1>1, <1>2, <1>3, <2>3 DEF Sole
<1>5. ~ \E m \in ActivePlanAssertions(plan) : plan[m].e = a /\ plan[m].a = "fgraph/unique"
  <2> SUFFICES ASSUME NEW m \in ActivePlanAssertions(plan), plan[m].e = a,
                      plan[m].a = "fgraph/unique"
               PROVE  FALSE
    OBVIOUS
  <2>1. Triple(plan[m]) \notin Triples(Live(facts))
    BY DEF ActivePlanAssertions
  <2>2. PICK f \in Live(facts') : f.e = a /\ f.a = "fgraph/unique" /\ f.v = plan[m].v
    BY <1>0, <2>1, ActiveCommits
  <2>3. f = d
    BY <1>1, <1>3, <1>4, <2>2 DEF Sole
  <2>4. Triple(plan[m]) = Triple(d)
    BY <2>2, <2>3 DEF Triple
  <2> QED  BY <2>1, <2>4 DEF Triples
<1>6. ~RawRetracted(plan, d)
  <2> SUFFICES ASSUME NEW j \in DOMAIN plan, plan[j].op = "retract", Matches(plan[j], d)
               PROVE  FALSE
    BY DEF RawRetracted
  <2>1. d \in WorkingFactsForPlan
    <3>1. d \in Domain(Live(facts))
      BY <1>2 DEF Domain, AuditAttr
    <3> QED  BY <3>1, WorkingRows DEF Matches
  <2>2. \A i \in DOMAIN plan : plan[i].op = "assert" => Triple(plan[i]) # Triple(d)
    BY DEF Triples
  <2> QED  BY <1>0, <1>4, <2>1, <2>2 DEF StaysDropped
<1>7. SchemaForPlan(facts, plan, a, "fgraph/unique") = "true"
  <2>1. Declaring(a, "fgraph/unique") = {}
    BY <1>5 DEF Declaring
  <2> QED  BY <1>0, <1>2, <1>6, <2>1, StoredLast
<1>8. \A w, x \in working : w.a = a /\ x.a = a /\ w.v = x.v => w.e = x.e
  BY <1>0, <1>7 DEF OneHolder, NewValuesOf
<1>9. ASSUME NEW f \in Live(facts'), NEW g \in Live(facts'), f.a = a, g.a = a, f.v = g.v
      PROVE  f.e = g.e
  <2>1. f \in Domain(Live(facts')) /\ g \in Domain(Live(facts'))
    BY <1>0, <1>9, UserAttrs DEF Domain
  <2>2. ASSUME NEW h \in Domain(Live(facts)) \ WorkingFactsForPlan, NEW w \in working,
               w.v = h.v, w.a = a, h.a = a
        PROVE  w.e = h.e
    <3>1. CASE \E i \in Final : /\ i \in DOMAIN plan /\ plan[i].op = "assert"
                                /\ Triple(w) = Triple(plan[i])
      <4>1. PICK i \in DOMAIN plan : plan[i].op = "assert" /\ Triple(w) = Triple(plan[i])
        BY <3>1
      <4>2. h.a = plan[i].a /\ h.v = plan[i].v /\ plan[i].a = a
        BY <2>2, <4>1 DEF Triple
      <4> QED  BY <1>7, <2>2, <4>1, <4>2 DEF WorkingFactsForPlan
    <3>2. CASE \E e \in Live(facts) : Triple(w) = Triple(e)
      <4>1. PICK e \in Live(facts) : Triple(w) = Triple(e)
        BY <3>2
      <4>2. e.e = w.e /\ e.a = a /\ e.v = h.v /\ h \in Live(facts)
        BY <2>2, <4>1 DEF Triple, Domain
      <4> QED  BY <2>2, <4>2 DEF OneOwner
    <3> QED  BY <1>0, <3>1, <3>2, EntryKinds
  <2>3. \A h \in Domain(Live(facts')) : \/ h \in Domain(Live(facts)) \ WorkingFactsForPlan
                                       \/ \E w \in working : Triple(w) = Triple(h)
    BY CommittedEntries
  <2>4. \A w, h : Triple(w) = Triple(h) => w.e = h.e /\ w.a = h.a /\ w.v = h.v
    BY DEF Triple
  <2>5. CASE f \in Domain(Live(facts)) \ WorkingFactsForPlan
             /\ g \in Domain(Live(facts)) \ WorkingFactsForPlan
    BY <1>9, <2>5 DEF OneOwner, Domain
  <2>6. CASE /\ f \in Domain(Live(facts)) \ WorkingFactsForPlan
             /\ \E w \in working : Triple(w) = Triple(g)
    BY <1>9, <2>2, <2>4, <2>6
  <2>7. CASE /\ g \in Domain(Live(facts)) \ WorkingFactsForPlan
             /\ \E w \in working : Triple(w) = Triple(f)
    BY <1>9, <2>2, <2>4, <2>7
  <2>8. CASE /\ \E w \in working : Triple(w) = Triple(f)
             /\ \E w \in working : Triple(w) = Triple(g)
    <3>1. PICK w \in working, x \in working : Triple(w) = Triple(f) /\ Triple(x) = Triple(g)
      BY <2>8
    <3>2. w.e = x.e
      BY <1>8, <1>9, <2>4, <3>1
    <3> QED  BY <2>4, <3>1, <3>2
  <2> QED  BY <2>1, <2>3, <2>5, <2>6, <2>7, <2>8
<1> QED  BY <1>9 DEF OneOwner

LEMMA ApartUnchanged ==
    ASSUME RowsApart, facts' = facts
    PROVE  RowsApart'
BY DEF RowsApart

LEMMA NextKeeps ==
    IInv /\ RowsApart /\ DiffKeeps /\ [Next]_vars => RowsApart' /\ DiffKeeps'
<1> SUFFICES ASSUME IInv, RowsApart, DiffKeeps, [Next]_vars PROVE RowsApart' /\ DiffKeeps'
  OBVIOUS
<1>1. CASE Commit
  BY <1>1, CommitApart, NoDiffKeeps DEF Commit, Discard, DiffKeeps
<1>2. CASE \E x \in Ref : Excise(x)
  <2>1. phase' # "diff"
    BY <1>2 DEF Excise
  <2> QED  BY <1>2, <2>1, ExciseApart, NoDiffKeeps
<1>3. CASE UNCHANGED store
  <2>1. RowsApart'
    BY <1>3, ApartUnchanged DEF store
  <2>2. CASE DiffStep
    BY <2>1, <2>2, DiffStepKeeps
  <2>3. CASE Validate
    BY <2>1, <2>3, ValidateKeeps
  <2>4. CASE UNCHANGED vars
    BY <2>1, <2>4, StutterKeeps
  <2>5. CASE Next /\ ~DiffStep /\ ~Validate /\ ~Commit /\ ~ \E x \in Ref : Excise(x)
    <3>1. phase' # "diff"
      BY <2>5 DEF Next, Begin, BeginUndo, BeginCall, PlanCall, PlanRequest, PlanUndo,
                  Noop, Abort, Discard
    <3> QED  BY <2>1, <3>1, NoDiffKeeps
  <2> QED  BY <1>1, <1>2, <2>2, <2>3, <2>4, <2>5
<1> QED  BY <1>1, <1>2, <1>3, OnlyTwoWrite

(* Rows of every triple and of every declaration are live one after the other,
   and the diff loop keeps cells, owners and active assertions. *)
THEOREM HistoryApart == Spec => [](RowsApart /\ DiffKeeps)
<1>1. Init => RowsApart /\ DiffKeeps
  <2>1. Init => DiffKeeps
    BY DEF Init, DiffKeeps, DroppedWhy, StaysDropped, ActiveStays, CellCleared, OneCell, OneHolder
  <2> QED  BY <2>1, InitApart
<1>2. IInv /\ (RowsApart /\ DiffKeeps) /\ [Next]_vars => (RowsApart /\ DiffKeeps)'
  BY NextKeeps
<1> QED  BY <1>1, <1>2, Invariance, PTL DEF Spec

LEMMA ExciseLive ==
    ASSUME IInv, NEW x \in Ref, Excise(x), NEW a \in Attr, NEW f \in Live(facts'), f.a = a
    PROVE  f \in Live(facts)
<1>1. facts' = (facts \ ExcisedRows(x)) \cup {Mark(x)}
  BY ExciseEffect
<1>2. Mark(x).a = "fgraph/excised"
  BY DEF Mark, AuditRow, Row
<1>3. a # "fgraph/excised"
  BY References DEF Ref, AuditAttr
<1> QED  BY <1>1, <1>2, <1>3 DEF Live

(* A transaction keeps the constraints its attributes declare, whatever order
   its operations come in and whatever the store holds: one value in a cell of
   an attribute that was and stays cardinality one, one owner of a unique
   value. *)
THEOREM ConstraintsHold == Spec => ConstraintsKept
<1>1. ASSUME IInv, RowsApart, DiffKeeps, [Next]_vars, facts' # facts, NEW a \in Attr,
             SchemaFor(facts, a, "fgraph/many") # "true",
             SchemaFor(facts', a, "fgraph/many") # "true", OneEach(facts, a)
      PROVE  OneEach(facts', a)
  <2>1. CASE Commit
    BY <1>1, <2>1, CommitCardinality
  <2>2. CASE \E x \in Ref : Excise(x)
    <3>1. \A f \in Live(facts') : f.a = a => f \in Live(facts)
      BY <1>1, <2>2, ExciseLive
    <3> QED  BY <1>1, <3>1 DEF OneEach
  <2> QED  BY <1>1, <2>1, <2>2, OnlyTwoWrite DEF store
<1>2. ASSUME IInv, RowsApart, DiffKeeps, [Next]_vars, facts' # facts, NEW a \in Attr,
             SchemaFor(facts, a, "fgraph/unique") = "true", OneOwner(facts, a),
             SchemaFor(facts', a, "fgraph/unique") = "true",
             \A i \in DOMAIN plan : plan[i].op = "assert" =>
                 Triple(plan[i]) \notin Triples(Live(facts))
      PROVE  OneOwner(facts', a)
  <2>1. CASE Commit
    BY <1>2, <2>1, CommitUnique
  <2>2. CASE \E x \in Ref : Excise(x)
    <3>1. \A f \in Live(facts') : f.a = a => f \in Live(facts)
      BY <1>2, <2>2, ExciseLive
    <3> QED  BY <1>2, <3>1 DEF OneOwner
  <2> QED  BY <1>2, <2>1, <2>2, OnlyTwoWrite DEF store
<1>3. IInv /\ (RowsApart /\ DiffKeeps) /\ [Next]_vars =>
        [facts' # facts => \A a \in Attr :
            /\ SchemaFor(facts, a, "fgraph/many") # "true"
            /\ SchemaFor(facts', a, "fgraph/many") # "true"
            /\ OneEach(facts, a)
            => OneEach(facts', a)]_vars
  BY <1>1
<1>4. IInv /\ (RowsApart /\ DiffKeeps) /\ [Next]_vars =>
        [facts' # facts => \A a \in Attr :
            /\ SchemaFor(facts, a, "fgraph/unique") = "true"
            /\ OneOwner(facts, a)
            /\ SchemaFor(facts', a, "fgraph/unique") = "true"
            /\ \A i \in DOMAIN plan : plan[i].op = "assert" =>
                   Triple(plan[i]) \notin Triples(Live(facts))
            => OneOwner(facts', a)]_vars
  BY <1>2
<1>5. Spec => CardinalityKept
  BY <1>3, Invariance, HistoryApart, PTL DEF Spec, CardinalityKept
<1>6. Spec => UniqueKept
  BY <1>4, Invariance, HistoryApart, PTL DEF Spec, UniqueKept
<1> QED  BY <1>5, <1>6 DEF ConstraintsKept

(* A transaction keeps every member in its shape, whether it changes the member
   or the shape: validateTouchedShapes looks at enough, unless a whole entity
   goes that others refer to with more than a membership. *)
THEOREM MembersStayInShape == Spec => ShapesKept
<1>1. ASSUME IInv, RowsApart, DiffKeeps, [Next]_vars, Len(events') > Len(events),
             NewExcision = None, ShapesHold,
             \A i \in DOMAIN plan : plan[i].op = "retract" /\ plan[i].a = None =>
                 \A f \in Live(facts) : f.v = plan[i].e => f.a = "fgraph/shape"
      PROVE  ShapesHold'
  <2>1. ~UNCHANGED store
    BY <1>1 DEF store, IInv, StoreOK, EventsOK
  <2>2. ASSUME NEW x \in Ref, Excise(x) PROVE FALSE
    <3>1. /\ Len(events') = Basis + 1 /\ Basis \in Nat
          /\ events'[Basis + 1] = Event({}, {}, Redacts(x), x)
      BY <1>1, <2>2, ExciseEvent
    <3>2. NewExcision = x
      BY <3>1 DEF NewExcision, Event, Basis
    <3> QED  BY <1>1, <3>2, References
  <2>3. Commit
    BY <1>1, <2>1, <2>2, OnlyTwoWrite
  <2> QED  BY <1>1, <2>3, CommitShapes DEF DiffKeeps
<1>2. IInv /\ (RowsApart /\ DiffKeeps) /\ [Next]_vars =>
        [/\ Len(events') > Len(events) /\ NewExcision = None
         /\ ShapesHold
         /\ \A i \in DOMAIN plan : plan[i].op = "retract" /\ plan[i].a = None =>
                \A f \in Live(facts) : f.v = plan[i].e => f.a = "fgraph/shape"
         => ShapesHold']_vars
  BY <1>1
<1> QED  BY <1>2, Invariance, HistoryApart, PTL DEF Spec, ShapesKept

-----------------------------------------------------------------------------
(* Undo. *)
LEMMA InitUndo == Init => UndoPlanned /\ UndoDiffed
BY DEF Init, UndoPlanned, UndoDiffed

LEMMA NextUndoPlanned == IInv /\ UndoPlanned /\ [Next]_vars => UndoPlanned'
<1> SUFFICES ASSUME IInv, UndoPlanned, [Next]_vars PROVE UndoPlanned'
  OBVIOUS
<1>1. CASE undoes' = Null
  BY <1>1 DEF UndoPlanned
<1>2. CASE \E t \in 1..load.maxTx : BeginUndo(t)
  <2>1. PICK t : BeginUndo(t)
    BY <1>2
  <2>2. /\ phase = "idle" /\ phase' = "plan" /\ undoes' = t /\ todo' = UndoRows(t)
        /\ facts' = facts /\ plan' = plan /\ call' = call /\ groups' = groups
    BY <2>1 DEF BeginUndo, store
  <2>3. plan = <<>> /\ call = None /\ groups = <<>>
    BY <2>2 DEF IInv, PlanOK
  <2>4. UndoRows(undoes)' = UndoRows(t)
    BY <2>2 DEF UndoRows
  <2> QED  BY <2>2, <2>3, <2>4 DEF UndoPlanned
<1>3. CASE \E f \in todo : PlanUndo(f)
  <2>1. PICK f \in todo : PlanUndo(f)
    BY <1>3
  <2> PICK op : op = Undoing(f)
    OBVIOUS
  <2>2. /\ phase' = "plan" /\ undoes' = undoes /\ undoes # Null /\ todo' = todo \ {f}
        /\ facts' = facts /\ plan' = Append(plan, op) /\ call' = call /\ groups' = groups
        /\ plan \in Seq(PlanOp)
    BY <2>1 DEF PlanUndo, store, Undoing, IInv, PlanOK
  <2>3. op \in PlanOp
    <3>1. RowOK(f, Basis) /\ f.a \notin AuditAttr /\ Basis \in Nat
      BY DEF IInv, PlanOK, StoreOK, EventsOK, RowsOK, Domain, Basis
    <3>2. f \in FactRow(Basis)
      BY <3>1, DomainRows
    <3> QED  BY <3>2 DEF FactRow, Undoing, Planned, PlanOp, AssertOp, RetractOp
  <2>4. /\ \A g : Undoing(g)' = Undoing(g)
        /\ UndoRows(undoes)' = UndoRows(undoes)
    BY <2>2 DEF Undoing, UndoRows
  <2>5. /\ \A i \in DOMAIN plan' : (i \in DOMAIN plan /\ plan'[i] = plan[i]) \/ plan'[i] = op
        /\ \A i \in DOMAIN plan : i \in DOMAIN plan' /\ plan'[i] = plan[i]
        /\ \E i \in DOMAIN plan' : plan'[i] = op
    BY <2>2, <2>3
  <2>6. /\ call = None /\ groups = <<>> /\ todo \subseteq UndoRows(undoes)
        /\ \A i \in DOMAIN plan : \E g \in UndoRows(undoes) : plan[i] = Undoing(g)
        /\ \A g \in UndoRows(undoes) : g \in todo \/ \E i \in DOMAIN plan : plan[i] = Undoing(g)
    BY <2>2 DEF UndoPlanned
  <2>7. \A i \in DOMAIN plan' : \E g \in UndoRows(undoes) : plan'[i] = Undoing(g)
    BY <2>5, <2>6
  <2>8. \A g \in UndoRows(undoes) : g \in todo' \/ \E i \in DOMAIN plan' : plan'[i] = Undoing(g)
    BY <2>2, <2>5, <2>6
  <2> QED  BY <2>2, <2>4, <2>6, <2>7, <2>8 DEF UndoPlanned
<1>4. CASE /\ UNCHANGED <<facts, undoes, todo, plan, call, groups>>
           /\ phase' = "diff" => phase = "diff" \/ todo = {}
  <2>1. /\ \A g : Undoing(g)' = Undoing(g)
        /\ UndoRows(undoes)' = UndoRows(undoes)
    BY <1>4 DEF Undoing, UndoRows
  <2> QED  BY <1>4, <2>1 DEF UndoPlanned
<1>5. CASE Begin \/ Validate \/ DiffStep \/ UNCHANGED vars
  <2>1. /\ UNCHANGED <<facts, undoes, todo, plan, call, groups>>
        /\ phase' = "diff" => phase = "diff" \/ todo = {}
    BY <1>5 DEF Begin, Validate, DiffStep, planning, store, vars
  <2> QED  BY <1>4, <2>1
<1>6. CASE \/ \E c \in load.calls : BeginCall(c)
           \/ \E in \in load.ops : PlanRequest(in)
           \/ Commit \/ Noop \/ Abort
           \/ \E x \in Ref : Excise(x)
  <2>1. undoes' = Null
    BY <1>6 DEF BeginCall, PlanRequest, Commit, Noop, Abort, Discard, Excise, planning, IInv, PlanOK
  <2> QED  BY <1>1, <2>1
<1>7. CASE \E i \in DOMAIN groups : PlanCall(i)
  <2>1. undoes' = undoes /\ groups # <<>>
    BY <1>7 DEF PlanCall
  <2>2. undoes = Null
    BY <2>1 DEF UndoPlanned
  <2> QED  BY <1>1, <2>1, <2>2
<1> QED  BY <1>2, <1>3, <1>5, <1>6, <1>7 DEF Next

(* The plan of an undo: it asserts what the undone transaction ended and
   retracts what it asserted, and these are different facts. *)
Ends(r) == r \in facts /\ r.rx = undoes
Began(s) == s \in Live(facts) /\ s.tx = undoes

LEMMA UndoOps ==
    ASSUME IInv, UndoPlanned, undoes # Null, NEW i \in DOMAIN plan
    PROVE  \/ plan[i].op = "assert" /\ \E r : Ends(r) /\ Triple(plan[i]) = Triple(r)
           \/ /\ plan[i].op = "retract" /\ plan[i].a # None /\ plan[i].v # None
              /\ \E s : Began(s) /\ Triple(plan[i]) = Triple(s)
<1>1. PICK f \in UndoRows(undoes) : plan[i] = Undoing(f)
  BY DEF UndoPlanned
<1>2. Triple(plan[i]) = Triple(f) /\ plan[i].a = f.a /\ plan[i].v = f.v
  BY <1>1 DEF Undoing, Planned, Triple
<1>3. CASE f.rx = undoes
  BY <1>1, <1>2, <1>3 DEF Undoing, Planned, UndoRows, Ends
<1>4. CASE f.rx # undoes
  <2>1. f.tx = undoes /\ f.a \notin AuditAttr /\ f.rx = Null /\ f \in facts
    BY <1>4 DEF UndoRows
  <2>2. RowOK(f, Basis) /\ Basis \in Nat
    BY <2>1 DEF IInv, StoreOK, EventsOK, RowsOK, Basis
  <2>3. f.a \in UserAttr /\ f.v \in Value
    BY <2>1, <2>2, DomainRows DEF FactRow
  <2>4. f.a # None /\ f.v # None
    BY <2>3, UserAttrs, NoneIsNoValue
  <2>5. plan[i].op = "retract"
    BY <1>1, <1>4 DEF Undoing, Planned
  <2> QED  BY <1>2, <2>1, <2>4, <2>5 DEF Began, Live
<1> QED  BY <1>3, <1>4

LEMMA UndoDisjoint ==
    ASSUME RowsApart, undoes # Null, NEW r, NEW s, Ends(r), Began(s)
    PROVE  Triple(r) # Triple(s)
BY DEF RowsApart, Ends, Began, Live

LEMMA ExactMatch ==
    ASSUME NEW req, NEW f, req.a # None, req.v # None
    PROVE  Matches(req, f) <=> Triple(req) = Triple(f)
BY DEF Matches, Triple

(* No live row repeats what the latest transaction ended. *)
LEMMA EndedNotLive ==
    ASSUME IInv, RowsApart, undoes # Null, undoes = Basis, NEW r, Ends(r), NEW f \in Live(facts)
    PROVE  Triple(f) # Triple(r)
<1> SUFFICES ASSUME Triple(f) = Triple(r) PROVE FALSE
  OBVIOUS
<1>1. f \in facts /\ f.rx = Null /\ r \in facts /\ r.rx = Basis /\ Basis # Null
  BY DEF Live, Ends
<1>2. f.e = r.e /\ f.a = r.a /\ f.v = r.v /\ f # r
  BY <1>1 DEF Triple
<1>3. Apart(f, r)
  BY <1>1, <1>2 DEF RowsApart
<1>4. Basis <= f.tx
  BY <1>1, <1>3 DEF Apart
<1>5. f.tx \in 1..Basis /\ Basis \in Nat
  BY <1>1, RowGrows DEF IInv, StoreOK, EventsOK, RowsOK, Basis
<1>6. f.tx = Basis
  BY <1>4, <1>5
<1> QED  BY <1>1, <1>6 DEF RowsApart

LEMMA DiffStepUndo == IInv /\ RowsApart /\ UndoPlanned /\ UndoDiffed /\ DiffStep => UndoDiffed'
<1> SUFFICES ASSUME IInv, RowsApart, UndoPlanned, UndoDiffed, DiffStep, undoes # Null
             PROVE  UndoDiffed'
  BY DiffFrame DEF UndoDiffed
<1> PICK n : n = cursor + 1
  OBVIOUS
<1> PICK req : req = plan[n]
  OBVIOUS
<1>1. /\ phase = "diff" /\ cursor' = n /\ plan' = plan /\ facts' = facts /\ undoes' = undoes
      /\ n \in DOMAIN plan /\ cursor \in Nat /\ n # 0 /\ Basis' = Basis
      /\ \A i \in 1..n : i \in 1..cursor \/ i = n
      /\ \A i \in 1..cursor : i \in DOMAIN plan
  BY DiffFrame DEF Basis, IInv, PlanOK
<1>2. \A a : IsMany(a)' <=> IsMany(a)
  BY <1>1 DEF IsMany
<1> DEFINE Replaced(f, i) == /\ plan[i].e = f.e /\ plan[i].a = f.a
                             /\ plan[i].v # f.v /\ ~IsMany(f.a)
<1>3. /\ \A f \in dropped : f.tx = undoes \/ \E i \in Final : Replaced(f, i)
      /\ \A i \in 1..cursor : plan[i].op = "retract" =>
            \A w \in working : Triple(w) # Triple(plan[i])
      /\ undoes = Basis => \A i \in 1..cursor : plan[i].op = "assert" =>
            \E j \in Final : Triple(plan[j]) = Triple(plan[i])
  BY <1>1 DEF UndoDiffed
<1>4. ASSUME /\ \A f \in dropped' : f.tx = undoes \/ \E i \in Final' : Replaced(f, i)
             /\ \A i \in 1..n : plan[i].op = "retract" =>
                   \A w \in working' : Triple(w) # Triple(plan[i])
             /\ undoes = Basis => \A i \in 1..n : plan[i].op = "assert" =>
                   \E j \in Final' : Triple(plan[j]) = Triple(plan[i])
      PROVE  UndoDiffed'
  BY <1>1, <1>2, <1>4 DEF UndoDiffed
<1>5. \A i \in Final : i \in DOMAIN plan /\ plan[i].op = "assert" /\ i # 0
  BY <1>1 DEF IInv, DiffOK, Final, PlanOK
(* Whatever is asserted differs from whatever is retracted. *)
<1>6. ASSUME NEW i \in DOMAIN plan, NEW j \in DOMAIN plan, plan[i].op = "assert",
             plan[j].op = "retract"
      PROVE  Triple(plan[i]) # Triple(plan[j])
  <2>1. PICK r : Ends(r) /\ Triple(plan[i]) = Triple(r)
    BY <1>6, UndoOps
  <2>2. PICK s : Began(s) /\ Triple(plan[j]) = Triple(s)
    BY <1>6, UndoOps
  <2> QED  BY <2>1, <2>2, UndoDisjoint
<1> HIDE DEF Replaced
<1>7. CASE Takes(req)
  <2>1. req.op = "retract" /\ req.a # None /\ req.v # None
    BY <1>1, <1>7, UndoOps DEF Takes
  <2>2. PICK s : Began(s) /\ Triple(req) = Triple(s)
    BY <1>1, <2>1, UndoOps
  <2>3. ASSUME NEW f \in dropped', f \notin dropped PROVE f.tx = undoes
    <3>1. f \in WorkingFactsForPlan /\ Triple(f) = Triple(s)
      BY <1>7, <2>1, <2>2, <2>3, ExactMatch DEF Takes
    <3>2. f \in Live(facts) /\ s \in Live(facts) /\ s.tx = undoes
      BY <2>2, <3>1, WorkingRows DEF Domain, Began
    <3> QED  BY <3>1, <3>2 DEF IInv, StoreOK, LiveUnique
  <2>4. Orders({w \in working : Matches(req, w)}) = {}
    <3> SUFFICES ASSUME NEW w \in working, Matches(req, w), w.ord # 0 PROVE FALSE
      BY DEF Orders
    <3>1. Triple(w) = Triple(req)
      BY <2>1, ExactMatch
    <3>2. PICK i \in Final : Triple(w) = Triple(plan[i])
      BY <1>1, EntryKinds, Entries
    <3> QED  BY <1>1, <1>5, <1>6, <2>1, <3>1, <3>2
  <2>5. Final' = Final
    BY <1>7, <2>4 DEF Takes
  <2>6. \A w \in working' : w \in working /\ Triple(w) # Triple(req)
    BY <1>7, <2>1, ExactMatch DEF Takes
  <2>7. \A f \in dropped' : f.tx = undoes \/ \E i \in Final' : Replaced(f, i)
    BY <1>3, <2>3, <2>5
  <2>8. \A i \in 1..n : plan[i].op = "retract" => \A w \in working' : Triple(w) # Triple(plan[i])
    BY <1>1, <1>3, <2>6
  <2>9. undoes = Basis => \A i \in 1..n : plan[i].op = "assert" =>
           \E j \in Final' : Triple(plan[j]) = Triple(plan[i])
    BY <1>1, <1>3, <2>1, <2>5
  <2> QED  BY <1>4, <2>7, <2>8, <2>9
<1>8. ASSUME req.op = "assert", \A w \in working' : w \in working \/ Triple(w) = Triple(req)
      PROVE  \A i \in 1..n : plan[i].op = "retract" => \A w \in working' : Triple(w) # Triple(plan[i])
  <2> SUFFICES ASSUME NEW i \in 1..n, plan[i].op = "retract", NEW w \in working'
               PROVE  Triple(w) # Triple(plan[i])
    OBVIOUS
  <2>1. i \in 1..cursor /\ i \in DOMAIN plan
    BY <1>1, <1>8
  <2> QED  BY <1>1, <1>3, <1>6, <1>8, <2>1
<1>9. CASE Repeats(req)
  <2>1. req.op = "assert" /\ working' = working /\ dropped' = dropped /\ Final' = Final
    BY <1>9 DEF Repeats
  <2>2. ASSUME undoes = Basis PROVE \E j \in Final : Triple(plan[j]) = Triple(req)
    <3>1. PICK w \in working : Triple(w) = Triple(req)
      BY <1>9 DEF Repeats
    <3>2. PICK r : Ends(r) /\ Triple(req) = Triple(r)
      BY <1>1, <2>1, UndoOps
    <3>3. \A f \in Live(facts) : Triple(f) # Triple(w)
      BY <2>2, <3>1, <3>2, EndedNotLive
    <3> QED  BY <1>1, <3>1, <3>3, EntryKinds
  <2>3. undoes = Basis => \A i \in 1..n : plan[i].op = "assert" =>
           \E j \in Final' : Triple(plan[j]) = Triple(plan[i])
    BY <1>1, <1>3, <2>1, <2>2
  <2>4. \A f \in dropped' : f.tx = undoes \/ \E i \in Final' : Replaced(f, i)
    BY <1>3, <2>1
  <2> QED  BY <1>4, <1>8, <2>1, <2>3, <2>4
<1>10. ASSUME NEW b, Restores(req, b) PROVE FALSE
  <2>1. b \in dropped /\ Triple(b) = Triple(req) /\ Vacant(req) /\ req.op = "assert"
    BY <1>10 DEF Restores, Vacant
  <2>2. PICK r : Ends(r) /\ Triple(req) = Triple(r)
    BY <1>1, <2>1, UndoOps
  <2>3. b.tx # undoes
    BY <1>1, <2>1, <2>2, UndoDisjoint, DroppedDomain DEF Began
  <2>4. PICK i \in Final : Replaced(b, i)
    BY <1>3, <2>1, <2>3
  <2>5. Asserted(i) \in working /\ Asserted(i).ord # 0
    BY <1>1, <1>5, Entries DEF IInv, DiffOK
  <2>6. Asserted(i).e = req.e /\ Asserted(i).a = req.a /\ ~IsMany(req.a)
    BY <2>1, <2>4, Entries DEF Replaced, Triple
  <2>7. Asserted(i) \in Displaced(req)
    BY <2>5, <2>6 DEF Displaced, IsMany
  <2> QED  BY <2>1, <2>5, <2>7 DEF Vacant
<1>11. CASE Inserts(req)
  <2>1. /\ req.op = "assert" /\ Vacant(req) /\ Final' = Final \cup {n}
        /\ working' = (working \ Displaced(req)) \cup {Asserted(n)}
        /\ \A f : f \in dropped' <=> f \in dropped \/ Loses(f, req)
    BY <1>11 DEF Inserts, Vacant
  <2>2. ASSUME NEW f, Loses(f, req) PROVE Replaced(f, n)
    <3>1. Stored(f) \in Displaced(req) /\ Stored(f) \in working
      BY <2>1, <2>2 DEF Loses, Vacant
    <3>2. Stored(f).e = req.e /\ Stored(f).a = req.a /\ Triple(Stored(f)) # Triple(req)
      BY <2>1, <3>1 DEF Vacant
    <3>3. f.e = req.e /\ f.a = req.a /\ f.v # req.v
      BY <3>2, Entries DEF Triple
    <3>4. ~IsMany(req.a)
      BY <3>1 DEF Displaced, IsMany
    <3> QED  BY <3>3, <3>4 DEF Replaced
  <2>3. \A f \in dropped' : f.tx = undoes \/ \E i \in Final' : Replaced(f, i)
    BY <1>3, <2>1, <2>2
  <2>4. \A w \in working' : w \in working \/ Triple(w) = Triple(req)
    BY <2>1, Entries
  <2>5. undoes = Basis => \A i \in 1..n : plan[i].op = "assert" =>
           \E j \in Final' : Triple(plan[j]) = Triple(plan[i])
    BY <1>1, <1>3, <2>1
  <2> QED  BY <1>4, <1>8, <2>1, <2>3, <2>4, <2>5
<1> QED  BY <1>7, <1>9, <1>10, <1>11, DiffSteps

LEMMA NextUndoDiffed ==
    IInv /\ RowsApart /\ UndoPlanned /\ UndoDiffed /\ [Next]_vars => UndoDiffed'
<1> SUFFICES ASSUME IInv, RowsApart, UndoPlanned, UndoDiffed, [Next]_vars PROVE UndoDiffed'
  OBVIOUS
<1>1. CASE DiffStep
  BY <1>1, DiffStepUndo
<1>2. CASE Validate
  <2>1. cursor' = 0 /\ dropped' = {}
    BY <1>2 DEF Validate, IInv, PlanOK
  <2> QED  BY <2>1 DEF UndoDiffed
<1>3. CASE UNCHANGED vars
  <2>1. /\ plan' = plan /\ facts' = facts /\ cursor' = cursor /\ dropped' = dropped
        /\ working' = working /\ phase' = phase /\ undoes' = undoes /\ Final' = Final
        /\ Basis' = Basis
    BY <1>3 DEF vars, Final, Basis
  <2>2. \A a : IsMany(a)' <=> IsMany(a)
    BY <2>1 DEF IsMany
  <2> QED  BY <2>1, <2>2 DEF UndoDiffed
<1>4. CASE Next /\ ~DiffStep /\ ~Validate
  <2>1. phase' # "diff"
    BY <1>4 DEF Next, Begin, BeginUndo, BeginCall, PlanCall, PlanRequest, PlanUndo,
                Noop, Abort, Discard, Commit, Excise
  <2> QED  BY <2>1 DEF UndoDiffed
<1> QED  BY <1>1, <1>2, <1>3, <1>4

(* The live rows as of t. *)
View(rows, t) == {[f EXCEPT !.rx = Null] : f \in AsOf(rows, t)}

(* What undo of the latest transaction sees of the state before it. *)
Earlier == AsOf(facts, Basis - 1)

LEMMA EarlierRows ==
    ASSUME IInv, NEW r
    PROVE  r \in Earlier <=> r \in facts /\ r.tx < Basis /\ (r.rx = Null \/ r.rx = Basis)
<1>1. Basis \in Nat
  BY DEF IInv, StoreOK, EventsOK, Basis
<1>2. r \in facts => r.tx \in 1..Basis /\ r.rx \in 0..Basis
  BY <1>1, RowGrows DEF IInv, StoreOK, RowsOK
<1> QED  BY <1>1, <1>2 DEF Earlier, AsOf, Null

LEMMA EndsEarlier ==
    ASSUME IInv, undoes # Null, undoes = Basis, NEW r, Ends(r)
    PROVE  r \in Earlier /\ r.a \notin AuditAttr
<1>1. r \in facts /\ r.rx = Basis /\ r.rx # Null /\ RowOK(r, Basis) /\ Basis \in Nat
  BY DEF Ends, IInv, StoreOK, EventsOK, RowsOK, Basis
<1>2. r \in FactRow(Basis) /\ r.rx > r.tx
  BY <1>1 DEF RowOK, MarkRow, UndoneRow
<1>3. r.tx < Basis
  BY <1>1, <1>2 DEF FactRow
<1>4. r.a \notin AuditAttr
  BY <1>2, UserAttrs DEF FactRow
<1> QED  BY <1>1, <1>3, <1>4, EarlierRows

LEMMA EarlierSole ==
    ASSUME IInv, RowsApart, NEW r \in Earlier, NEW s \in Earlier,
           r.e = s.e, r.a = s.a, r.a \in SchemaAttr
    PROVE  r = s
<1>1. /\ r \in facts /\ r.tx < Basis /\ (r.rx = Null \/ r.rx = Basis)
      /\ s \in facts /\ s.tx < Basis /\ (s.rx = Null \/ s.rx = Basis)
  BY EarlierRows
<1>2. r.tx \in Nat /\ s.tx \in Nat /\ Basis \in Nat
  <2>1. Basis \in Nat /\ RowOK(r, Basis) /\ RowOK(s, Basis)
    BY <1>1 DEF IInv, StoreOK, EventsOK, RowsOK, Basis
  <2> QED  BY <2>1, RowGrows
<1>3. ~Apart(r, s)
  BY <1>1, <1>2 DEF Apart
<1> QED  BY <1>1, <1>3 DEF RowsApart

Then(r) == [r EXCEPT !.rx = Null]

LEMMA ThenRow ==
    ASSUME IInv, NEW r \in facts
    PROVE  /\ Then(r).e = r.e /\ Then(r).a = r.a /\ Then(r).v = r.v /\ Then(r).tx = r.tx
           /\ Then(r).ord = r.ord /\ Then(r).rx = Null /\ Triple(Then(r)) = Triple(r)
<1>1. RowOK(r, Basis)
  BY DEF IInv, StoreOK, RowsOK
<1> QED  BY <1>1 DEF Then, RowOK, FactRow, MarkRow, UndoneRow, Triple

LEMMA ViewRows ==
    /\ View(facts, Basis - 1) = {Then(r) : r \in Earlier}
    /\ Earlier \subseteq facts
BY DEF View, Then, Earlier, AsOf

LEMMA ViewSole ==
    ASSUME IInv, RowsApart, NEW flag \in SchemaAttr
    PROVE  Sole(View(facts, Basis - 1), flag)
<1> PICK V : V = View(facts, Basis - 1)
  OBVIOUS
<1>1. \A f \in V : \E r \in Earlier : f = Then(r)
  BY ViewRows
<1>2. \A r \in Earlier : r \in facts /\ r.tx \in Nat /\ r.ord \in Nat
  BY EarlierRows, RowGrows DEF IInv, StoreOK, EventsOK, RowsOK, Basis
<1>3. ASSUME NEW f \in V, f.a = flag
      PROVE  f.tx \in Nat /\ f.ord \in Nat /\ \A g \in V : g.a = flag /\ g.e = f.e => g = f
  <2>1. PICK r \in Earlier : f = Then(r)
    BY <1>1
  <2>2. f.tx \in Nat /\ f.ord \in Nat /\ r.a = flag /\ r.e = f.e
    BY <1>2, <1>3, <2>1, ThenRow
  <2>3. ASSUME NEW g \in V, g.a = flag, g.e = f.e PROVE g = f
    <3>1. PICK s \in Earlier : g = Then(s)
      BY <1>1
    <3>2. s.a = flag /\ s.e = g.e
      BY <1>2, <2>3, <3>1, ThenRow
    <3>3. r = s
      BY <2>2, <2>3, <3>2, EarlierSole
    <3> QED  BY <2>1, <3>1, <3>3
  <2> QED  BY <2>2, <2>3
<1> QED  BY <1>3 DEF Sole, Live

(* What was declared many before the undone transaction is so for the undo. *)
LEMMA UndoMany ==
    ASSUME IInv, RowsApart, UndoPlanned, phase = "diff", undoes # Null, undoes = Basis, NEW a,
           SchemaFor(View(facts, Basis - 1), a, "fgraph/many") = "true"
    PROVE  IsMany(a)
<1> PICK flag : flag = "fgraph/many"
  OBVIOUS
<1>0. flag \in SchemaAttr /\ todo = {}
  BY DEF SchemaAttr, Flags, UndoPlanned
<1>1. CASE SystemMany(a, flag)
  BY <1>1 DEF IsMany, SchemaForPlan
<1>2. CASE ~SystemMany(a, flag)
  <2>1. PICK f \in Live(View(facts, Basis - 1)) : f.a = flag /\ f.e = a /\ f.v = "true"
    <3>1. Sole(View(facts, Basis - 1), flag)
      BY <1>0, ViewSole
    <3>2. SchemaFor(View(facts, Basis - 1), a, flag) # "unset"
      OBVIOUS
    <3> QED  BY <1>2, <3>1, <3>2, DeclarationFound
  <2>2. PICK r \in Earlier : f = Then(r)
    BY <2>1, ViewRows DEF Live
  <2>3. /\ r \in facts /\ r.tx < Basis /\ (r.rx = Null \/ r.rx = Basis)
        /\ r.a = flag /\ r.e = a /\ r.v = "true"
    BY <2>1, <2>2, EarlierRows, ThenRow
  <2>4. ASSUME NEW m \in Declaring(a, flag)
        PROVE  \E q : Ends(q) /\ Triple(plan[m]) = Triple(q) /\ q = r
    <3>1. m \in DOMAIN plan /\ plan[m].op = "assert" /\ plan[m].e = a /\ plan[m].a = flag
      BY DEF Declaring, ActivePlanAssertions
    <3>2. PICK q : Ends(q) /\ Triple(plan[m]) = Triple(q)
      BY <3>1, UndoOps
    <3>3. q \in Earlier /\ q.e = a /\ q.a = flag
      BY <3>1, <3>2, EndsEarlier DEF Triple
    <3> QED  BY <1>0, <2>2, <2>3, <3>2, <3>3, EarlierSole
  <2>5. ASSUME NEW j \in DOMAIN plan, plan[j].op = "retract", NEW k, Triple(k) = Triple(r),
               Matches(plan[j], k)
        PROVE  \E s : Began(s) /\ Triple(s) = Triple(r)
    <3>1. PICK s : Began(s) /\ Triple(plan[j]) = Triple(s) /\ plan[j].a # None /\ plan[j].v # None
      BY <2>5, UndoOps
    <3> QED  BY <2>5, <3>1, ExactMatch
  <2>6. CASE r.rx = Basis
    <3>1. Ends(r) /\ r \in UndoRows(undoes)
      BY <2>3, <2>6 DEF Ends, UndoRows
    <3>2. PICK i \in DOMAIN plan : plan[i] = Undoing(r)
      BY <1>0, <3>1 DEF UndoPlanned
    <3>3. plan[i].op = "assert" /\ plan[i].e = a /\ plan[i].a = flag /\ Triple(plan[i]) = Triple(r)
      BY <2>3, <2>6, <3>2 DEF Undoing, Planned, Triple
    <3>4. \A j \in DOMAIN plan : plan[j].op = "retract" => ~Matches(plan[j], plan[i])
      BY <2>5, <3>1, <3>3, UndoDisjoint
    <3>5. i \in Declaring(a, flag)
      BY <3>3, <3>4 DEF Declaring, ActivePlanAssertions
    <3>6. PICK m \in Declaring(a, flag) : SchemaForPlan(facts, plan, a, flag) = plan[m].v
      BY <1>2, <3>5, PlannedLast
    <3> QED  BY <2>3, <2>4, <3>6 DEF IsMany, Triple
  <2>7. CASE r.rx = Null
    <3>1. r \in Live(facts) /\ ~Ends(r)
      BY <2>3, <2>7 DEF Live, Ends
    <3>2. Declaring(a, flag) = {}
      BY <2>4, <3>1
    <3>3. ~RawRetracted(plan, r)
      <4> SUFFICES ASSUME NEW j \in DOMAIN plan, plan[j].op = "retract", Matches(plan[j], r)
                   PROVE  FALSE
        BY DEF RawRetracted
      <4>1. PICK s : Began(s) /\ Triple(s) = Triple(r)
        BY <2>5
      <4>2. s = r
        BY <3>1, <4>1 DEF IInv, StoreOK, LiveUnique, Began
      <4> QED  BY <2>3, <4>1, <4>2 DEF Began, IInv, StoreOK, EventsOK, Basis
    <3>4. SchemaForPlan(facts, plan, a, flag) = r.v
      BY <1>0, <1>2, <2>3, <3>1, <3>2, <3>3, StoredLast
    <3> QED  BY <2>3, <3>4 DEF IsMany
  <2> QED  BY <2>3, <2>6, <2>7
<1> QED  BY <1>1, <1>2

LEMMA CommitUndoKeeps ==
    ASSUME IInv, UndoDiffed, Commit, undoes # Null, NEW f \in Live(facts), f.tx > undoes,
           f \notin facts'
    PROVE  \E g \in Live(facts') : /\ g.tx = Len(events')
                                   /\ g.e = f.e /\ g.a = f.a /\ g.v # f.v
<1>1. phase = "diff" /\ CommitRows(facts') /\ Len(events') = Basis + 1
  BY CommitEffect, CommitEvent DEF Diffed
<1>2. f \in dropped
  BY <1>1 DEF CommitRows, Live
<1>3. f.tx # undoes
  BY DEF IInv, PlanOK
<1>4. PICK i \in Final : plan[i].e = f.e /\ plan[i].a = f.a /\ plan[i].v # f.v
  BY <1>1, <1>2, <1>3 DEF UndoDiffed
<1>5. PICK g \in Fresh : Triple(g) = Triple(plan[i])
  BY <1>1, FreshRows
<1>6. g.tx = Basis + 1 /\ g \in Live(facts')
  BY <1>1, FreshRows, LiveAfter DEF FreshOK
<1> QED  BY <1>1, <1>4, <1>5, <1>6 DEF Triple

(* What is live after the undo of the latest transaction was live before it. *)
LEMMA UndoneWasThere ==
    ASSUME IInv, UndoPlanned, UndoDiffed, Commit, undoes # Null, undoes = Basis,
           NEW f \in Domain(Live(facts'))
    PROVE  \E r \in Earlier : r.a \notin AuditAttr /\ Triple(r) = Triple(f)
<1>0. /\ phase = "diff" /\ DOMAIN plan = 1..cursor /\ Basis \in Nat /\ todo = {}
      /\ f \in Live(facts') /\ f.a \notin AuditAttr
  BY CommitEffect, CommitEvent DEF Diffed, IInv, PlanOK, Domain, UndoPlanned
<1>1. CASE f \in Live(facts) \ dropped
  <2>1. f.tx \in 1..Basis /\ f \in facts /\ f.rx = Null
    BY <1>0, <1>1, RowGrows DEF IInv, StoreOK, RowsOK, Live
  <2>2. f.tx # Basis
    <3> SUFFICES ASSUME f.tx = Basis PROVE FALSE
      OBVIOUS
    <3>1. f \in UndoRows(undoes)
      BY <1>0, <2>1 DEF UndoRows
    <3>2. PICK i \in DOMAIN plan : plan[i] = Undoing(f)
      BY <1>0, <3>1 DEF UndoPlanned
    <3>3. plan[i].op = "retract" /\ plan[i].e = f.e /\ Triple(plan[i]) = Triple(f)
      BY <2>1, <3>2 DEF Undoing, Planned, Triple
    <3>4. \A w \in working : Triple(w) # Triple(f)
      BY <1>0, <3>3 DEF UndoDiffed
    <3>5. f \in WorkingFactsForPlan
      BY <1>0, <1>1, <3>3 DEF WorkingFactsForPlan, Domain
    <3>6. Stored(f) \in working
      BY <1>0, <1>1, <3>5 DEF IInv, DiffOK
    <3> QED  BY <3>4, <3>6, Entries
  <2>3. f \in Earlier
    BY <1>0, <2>1, <2>2, EarlierRows
  <2> QED  BY <1>0, <2>3
<1>2. CASE f \in Fresh
  <2>1. PICK i \in DOMAIN plan : plan[i].op = "assert" /\ Triple(f) = Triple(plan[i])
    BY <1>0, <1>2, FreshPlanned
  <2>2. PICK r : Ends(r) /\ Triple(plan[i]) = Triple(r)
    BY <2>1, UndoOps
  <2> QED  BY <2>1, <2>2, EndsEarlier
<1>3. f \notin UndoAudit(Basis + 1)
  BY <1>0, AuditRows DEF AuditAttr
<1> QED  BY <1>0, <1>1, <1>2, <1>3, LiveAfter

(* And the other way round, where the cells were as declared. *)
LEMMA UndoneComesBack ==
    ASSUME IInv, RowsApart, UndoPlanned, UndoDiffed, Commit, undoes # Null, undoes = Basis,
           NEW r \in Earlier, r.a \notin AuditAttr, Respects(View(facts, Basis - 1), r.a)
    PROVE  \E f \in Live(facts') : Triple(f) = Triple(r)
<1>0. /\ phase = "diff" /\ DOMAIN plan = 1..cursor /\ Basis \in Nat /\ todo = {}
      /\ r \in facts /\ r.tx < Basis /\ (r.rx = Null \/ r.rx = Basis) /\ r.tx \in Nat
  <2>1. r \in facts /\ r.tx < Basis /\ (r.rx = Null \/ r.rx = Basis)
    BY EarlierRows
  <2>2. phase = "diff" /\ DOMAIN plan = 1..cursor /\ Basis \in Nat
    BY CommitEffect, CommitEvent DEF Diffed, IInv, PlanOK
  <2>3. r.tx \in Nat
    BY <2>1, <2>2, RowGrows DEF IInv, StoreOK, RowsOK
  <2> QED  BY <2>1, <2>2, <2>3 DEF UndoPlanned
<1>1. CASE r.rx = Basis
  <2>1. r \in UndoRows(undoes)
    BY <1>0, <1>1 DEF UndoRows
  <2>2. PICK i \in DOMAIN plan : plan[i] = Undoing(r)
    BY <1>0, <2>1 DEF UndoPlanned
  <2>3. plan[i].op = "assert" /\ Triple(plan[i]) = Triple(r)
    BY <1>1, <2>2 DEF Undoing, Planned, Triple
  <2>4. PICK j \in Final : Triple(plan[j]) = Triple(plan[i])
    BY <1>0, <2>3 DEF UndoDiffed
  <2>5. PICK f \in Fresh : Triple(f) = Triple(plan[j])
    BY <1>0, FreshRows
  <2> QED  BY <2>3, <2>4, <2>5, LiveAfter
<1>2. CASE r.rx = Null /\ r \notin dropped
  BY <1>0, <1>2, LiveAfter DEF Live
<1>3. CASE r.rx = Null /\ r \in dropped
  <2>1. r.tx # undoes
    BY <1>0
  <2>2. PICK i \in Final : /\ plan[i].e = r.e /\ plan[i].a = r.a
                           /\ plan[i].v # r.v /\ ~IsMany(r.a)
    BY <1>0, <1>3, <2>1 DEF UndoDiffed
  <2>3. i \in DOMAIN plan /\ plan[i].op = "assert"
    BY <1>0 DEF IInv, DiffOK, Final
  <2>4. PICK q : Ends(q) /\ Triple(plan[i]) = Triple(q)
    BY <2>3, UndoOps
  <2>5. q \in Earlier /\ q \in facts /\ q.e = r.e /\ q.a = r.a /\ q.v # r.v
    BY <2>2, <2>4, EndsEarlier DEF Triple, Ends
  <2>6. /\ Then(q) \in Live(View(facts, Basis - 1)) /\ Then(r) \in Live(View(facts, Basis - 1))
        /\ Then(q).e = Then(r).e /\ Then(q).a = r.a /\ Then(r).a = r.a /\ Then(q).v # Then(r).v
    BY <1>0, <2>5, ViewRows, ThenRow DEF Live
  <2>7. ~OneEach(View(facts, Basis - 1), r.a)
    BY <2>6 DEF OneEach
  <2> QED  BY <1>0, <2>2, <2>7, UndoMany DEF Respects
<1> QED  BY <1>0, <1>1, <1>2, <1>3

(* What is left of the state before the latest transaction: every row that was
   live then is a row still, live or ended by that transaction, or was
   destroyed; and there is nothing else from before. *)
Until(f) == [f EXCEPT !.rx = Basis]

PriorOK ==
    /\ \A f \in facts : f.tx < Basis /\ (f.rx = Null \/ f.rx = Basis) => Then(f) \in prior
    /\ \A f \in Live(prior) : f \in facts \/ Until(f) \in facts \/ Destroyed(f)
    /\ \A f \in prior : RowOK(f, Basis - 1)
    /\ \A flag \in SchemaAttr : Sole(prior, flag)
    /\ events[Basis].excises # None =>
          \A f \in facts : f.tx < Basis => ~Mentions(f, events[Basis].excises)

LEMMA InitPrior == Init => PriorOK
<1> SUFFICES ASSUME Init PROVE PriorOK
  OBVIOUS
<1> DEFINE T == {load.seed[i] : i \in DOMAIN load.seed}
<1>1. /\ events = <<Event({}, {}, {}, None), Event(T, {}, {}, None)>> /\ prior = {}
      /\ facts = {Row(load.seed[i], 2, i) : i \in DOMAIN load.seed}
  BY DEF Init, Genesis
<1> HIDE DEF T
<1>2. Basis = 2 /\ events[Basis].excises = None
  BY <1>1 DEF Basis, Event
<1>3. \A f \in facts : f.tx = 2
  BY <1>1 DEF Row
<1>4. \A f \in facts : ~(f.tx < Basis)
  BY <1>2, <1>3
<1> QED  BY <1>1, <1>2, <1>4 DEF PriorOK, Sole, Live

LEMMA CommitPrior ==
    ASSUME IInv, RowsApart, Commit
    PROVE  PriorOK'
<1> PICK B : B = Basis
  OBVIOUS
<1>0. /\ phase = "diff" /\ CommitRows(facts') /\ B \in Nat /\ Basis' = B + 1 /\ prior' = facts
      /\ events'[B + 1].excises = None
  BY CommitEffect, CommitEvent DEF Diffed, Basis, Commit, Event
<1>1. \A f \in facts : RowOK(f, B) /\ f.tx \in 1..B /\ f.rx \in 0..B
  BY <1>0, RowGrows DEF IInv, StoreOK, RowsOK
<1>2. ASSUME NEW f \in facts', f.tx < B + 1, f.rx = Null \/ f.rx = B + 1
      PROVE  Then(f) \in facts
  <2>1. CASE f \in facts
    <3>1. f.rx = Null /\ RowOK(f, B)
      BY <1>0, <1>1, <1>2, <2>1
    <3>2. Then(f) = f
      BY <3>1 DEF Then, RowOK, FactRow, MarkRow, UndoneRow
    <3> QED  BY <2>1, <3>2
  <2>2. CASE \E d \in Ended : f = EndedRow(d)
    <3>1. PICK d \in Ended : f = EndedRow(d)
      BY <2>2
    <3>2. d \in FactRow(B) /\ d \in facts /\ d.rx = Null
      BY <1>0, <3>1, EndedRows DEF Domain, Live
    <3>3. Then(f) = d
      BY <3>1, <3>2 DEF Then, EndedRow, FactRow
    <3> QED  BY <3>2, <3>3
  <2>3. f \notin Fresh /\ f \notin UndoAudit(B + 1)
    BY <1>0, <1>2, FreshRows, AuditRows DEF FreshOK
  <2> QED  BY <1>0, <2>1, <2>2, <2>3 DEF CommitRows
<1>3. ASSUME NEW f \in Live(facts)
      PROVE  f \in facts' \/ Until(f)' \in facts' \/ Destroyed(f)'
  <2>0. f \in facts /\ f.rx = Null
    BY DEF Live
  <2>1. CASE f \notin dropped
    BY <1>0, <2>0, <2>1 DEF CommitRows
  <2>2. CASE f \in Ended
    BY <1>0, <2>2 DEF CommitRows, Until, EndedRow
  <2>3. CASE f \in dropped \ Ended
    <3>1. PICK g \in Live(facts) \cup Fresh :
             g.a = "fgraph/nohistory" /\ g.e = f.a /\ g.v = "true"
      BY <1>0, <2>3, DeletedIsDeclared
    <3>2. g \in Live(prior') \cup Live(facts')
      BY <1>0, <3>1, LiveAfter
    <3> QED  BY <3>1, <3>2 DEF Destroyed, Historic
  <2> QED  BY <2>1, <2>2, <2>3
<1>4. \A flag \in SchemaAttr : Sole(facts, flag)
  BY SoleFacts
<1>5. \A f \in facts : RowOK(f, Basis' - 1)
  BY <1>0, <1>1
<1>6. \A f \in facts' : f.tx < Basis' /\ (f.rx = Null \/ f.rx = Basis') => Then(f) \in prior'
  BY <1>0, <1>2
<1>7. \A f \in Live(prior') : f \in facts' \/ Until(f)' \in facts' \/ Destroyed(f)'
  BY <1>0, <1>3
<1>8. events'[Basis'].excises = None
  BY <1>0
<1> QED  BY <1>0, <1>4, <1>5, <1>6, <1>7, <1>8 DEF PriorOK

LEMMA ExcisePrior ==
    ASSUME IInv, RowsApart, NEW x \in Ref, Excise(x)
    PROVE  PriorOK'
<1> PICK B : B = Basis
  OBVIOUS
<1>0. /\ facts' = (facts \ ExcisedRows(x)) \cup {Mark(x)} /\ prior' = facts
      /\ B \in Nat /\ Basis' = B + 1 /\ events'[B + 1].excises = x /\ x # None
  <2>1. facts' = (facts \ ExcisedRows(x)) \cup {Mark(x)} /\ prior' = facts
    BY ExciseEffect DEF Excise
  <2>2. /\ Len(events') = B + 1 /\ B \in Nat
        /\ events'[B + 1] = Event({}, {}, Redacts(x), x)
    BY ExciseEvent
  <2>3. x # None
    BY References
  <2> QED  BY <2>1, <2>2, <2>3 DEF Basis, Event
<1>1. \A f \in facts : RowOK(f, B) /\ f.tx \in 1..B /\ f.rx \in 0..B
  BY <1>0, RowGrows DEF IInv, StoreOK, RowsOK
<1>2. Mark(x).tx = B + 1
  BY Marks
<1>3. ASSUME NEW f \in facts', f.tx < B + 1, f.rx = Null \/ f.rx = B + 1
      PROVE  Then(f) \in facts
  <2>1. f \in facts /\ RowOK(f, B) /\ f.rx = Null
    <3>1. f # Mark(x)
      BY <1>0, <1>2, <1>3
    <3> QED  BY <1>0, <1>1, <1>3, <3>1
  <2>2. Then(f) = f
    BY <2>1 DEF Then, RowOK, FactRow, MarkRow, UndoneRow
  <2> QED  BY <2>1, <2>2
<1>4. ASSUME NEW f \in Live(facts) PROVE f \in facts' \/ Destroyed(f)'
  BY <1>0 DEF Live, ExcisedRows, Destroyed
<1>5. ASSUME NEW f \in facts', f.tx < B + 1 PROVE ~Mentions(f, x)
  <2>1. f # Mark(x)
    BY <1>0, <1>2, <1>5
  <2> QED  BY <1>0, <2>1 DEF ExcisedRows
<1>6. \A flag \in SchemaAttr : Sole(facts, flag)
  BY SoleFacts
<1>7. \A f \in facts : RowOK(f, Basis' - 1)
  BY <1>0, <1>1
<1>8. \A f \in facts' : f.tx < Basis' /\ (f.rx = Null \/ f.rx = Basis') => Then(f) \in prior'
  BY <1>0, <1>3
<1>9. \A f \in Live(prior') : f \in facts' \/ Until(f)' \in facts' \/ Destroyed(f)'
  BY <1>0, <1>4
<1> QED  BY <1>0, <1>5, <1>6, <1>7, <1>8, <1>9 DEF PriorOK

LEMMA NextPrior == IInv /\ RowsApart /\ PriorOK /\ [Next]_vars => PriorOK'
<1> SUFFICES ASSUME IInv, RowsApart, PriorOK, [Next]_vars PROVE PriorOK'
  OBVIOUS
<1>1. CASE UNCHANGED store
  BY <1>1 DEF PriorOK, store, Basis, Until, Destroyed
<1> QED  BY <1>1, CommitPrior, ExcisePrior, OnlyTwoWrite

(* The rows that were live before the latest transaction are those seen from
   now and those it destroyed. *)
LEMMA SeenOrDestroyed ==
    ASSUME IInv, PriorOK
    PROVE  /\ View(facts, Basis - 1) \subseteq Live(prior)
           /\ \A f \in Live(prior) : f \in View(facts, Basis - 1) \/ Destroyed(f)
<1>0. Basis \in Nat /\ Basis >= 1
  BY DEF IInv, StoreOK, EventsOK, Basis
<1>1. ASSUME NEW r \in Earlier PROVE Then(r) \in Live(prior)
  <2>1. r \in facts /\ r.tx < Basis /\ (r.rx = Null \/ r.rx = Basis)
    BY EarlierRows
  <2>2. Then(r) \in prior /\ Then(r).rx = Null
    BY <2>1, ThenRow DEF PriorOK
  <2> QED  BY <2>2 DEF Live
<1>2. ASSUME NEW f \in Live(prior), ~Destroyed(f) PROVE f \in View(facts, Basis - 1)
  <2>1. f.rx = Null /\ RowOK(f, Basis - 1) /\ (f \in facts \/ Until(f) \in facts)
    BY <1>2 DEF PriorOK, Live
  <2>2. f.tx < Basis
    <3>1. PICK n \in Nat : n = Basis - 1
      BY <1>0
    <3>2. f.tx \in 1..n
      BY <2>1, <3>1, RowGrows
    <3> QED  BY <1>0, <3>1, <3>2
  <2>3. CASE f \in facts
    <3>1. f \in Earlier
      BY <2>1, <2>2, <2>3, EarlierRows
    <3>2. Then(f) = f
      BY <2>1 DEF Then, RowOK, FactRow, MarkRow, UndoneRow
    <3> QED  BY <3>1, <3>2, ViewRows
  <2>4. CASE Until(f) \in facts
    <3>1. Until(f).tx = f.tx /\ Until(f).rx = Basis /\ Then(Until(f)) = f
      BY <2>1 DEF Until, Then, RowOK, FactRow, MarkRow, UndoneRow
    <3>2. Until(f) \in Earlier
      BY <2>2, <2>4, <3>1, EarlierRows
    <3> QED  BY <3>1, <3>2, ViewRows
  <2> QED  BY <2>1, <2>3, <2>4
<1> QED  BY <1>1, <1>2, ViewRows

(* Cells that were as declared before the latest transaction are so as seen
   from now: it can have destroyed the declaration only with the attribute
   itself, and then nothing is left of its cells. *)
LEMMA RespectsSeen ==
    ASSUME IInv, RowsApart, PriorOK, NEW a, Respects(Live(prior), a)
    PROVE  Respects(View(facts, Basis - 1), a)
<1> PICK old, new, flag : old = View(facts, Basis - 1) /\ new = Live(prior) /\ flag = "fgraph/many"
  OBVIOUS
<1>0. flag \in SchemaAttr /\ old \subseteq new /\ \A f \in new : f \in old \/ Destroyed(f)
  BY SeenOrDestroyed DEF SchemaAttr, Flags
<1>1. CASE OneEach(new, a)
  BY <1>0, <1>1 DEF OneEach, Respects, Live
<1>2. CASE SystemMany(a, flag)
  BY <1>2 DEF Respects, SchemaFor
<1>3. CASE SchemaFor(new, a, flag) = "true" /\ ~SystemMany(a, flag)
  <2>1. Sole(new, flag)
    BY <1>0 DEF PriorOK, Sole, Live
  <2>2. PICK g \in Live(new) : g.a = flag /\ g.e = a /\ g.v = "true"
    <3>1. SchemaFor(new, a, flag) # "unset"
      BY <1>3
    <3> QED  BY <1>3, <2>1, <3>1, DeclarationFound
  <2>3. g \in new /\ g.rx = Null
    BY <2>2 DEF Live
  <2>4. CASE g \in old
    <3>1. Sole(old, flag) /\ g \in Live(old)
      BY <1>0, <2>3, <2>4, ViewSole DEF Live
    <3>2. SchemaFor(old, a, flag) = "true"
      BY <1>3, <2>2, <3>1, SoleDeclaration
    <3> QED  BY <3>2 DEF Respects
  <2>5. CASE Destroyed(g)
    <3>1. \A f \in Live(prior) \cup Live(facts) : f.a = "fgraph/nohistory" => f.e \in Ref
      <4>1. \A f \in Live(prior) \cup Live(facts) : \E n : RowOK(f, n)
        BY DEF PriorOK, IInv, StoreOK, RowsOK, Live
      <4> QED  BY <4>1 DEF RowOK, FactRow, MarkRow, UndoneRow
    <3>2. Historic(Live(prior) \cup Live(facts), g.a)
      BY <1>0, <2>2, <3>1, NamesAssumption DEF Historic
    <3> PICK x : x = events[Basis].excises
      OBVIOUS
    <3>3. x # None /\ Mentions(g, x)
      BY <2>5, <3>2 DEF Destroyed
    <3>4. x \in Ref
      <4>1. events \in Seq(EventRecord) /\ Basis \in Nat /\ Basis >= 1 /\ Basis = Len(events)
        BY DEF IInv, StoreOK, EventsOK, Basis
      <4>2. events[Basis] \in EventRecord
        BY <4>1
      <4> QED  BY <3>3, <4>2 DEF EventRecord
    <3>5. x = a
      BY <1>0, <2>2, <3>3, <3>4, NamesAssumption DEF Mentions, Setting
    <3>6. ASSUME NEW f \in old PROVE f.a # a
      <4>1. PICK r \in Earlier : f = Then(r)
        BY ViewRows
      <4>2. r \in facts /\ r.tx < Basis /\ r.a = f.a
        BY <4>1, EarlierRows, ThenRow
      <4>3. ~Mentions(r, x)
        BY <3>3, <4>2 DEF PriorOK
      <4> QED  BY <3>5, <4>2, <4>3 DEF Mentions
    <3>7. OneEach(old, a)
      BY <3>6 DEF OneEach, Live
    <3> QED  BY <3>7 DEF Respects
  <2> QED  BY <1>0, <2>3, <2>4, <2>5
<1> QED  BY <1>1, <1>2, <1>3 DEF Respects

LEMMA CommitUndoRestores ==
    ASSUME IInv, RowsApart, PriorOK, UndoPlanned, UndoDiffed, Commit,
           undoes # Null, undoes = Basis, NEW before, before = Live(prior)
    PROVE  /\ Triples(Domain(Live(facts'))) \subseteq Triples(Domain(before))
           /\ \A k \in Triples(Domain(before)) :
                 Respects(before, k.a) /\ ~Destroyed(k) => k \in Triples(Domain(Live(facts')))
<1> PICK old : old = View(facts, Basis - 1)
  OBVIOUS
<1>0. old \subseteq before /\ \A f \in before : f \in old \/ Destroyed(f)
  BY SeenOrDestroyed
<1>1. ASSUME NEW k \in Triples(Domain(Live(facts'))) PROVE k \in Triples(Domain(before))
  <2>1. PICK f \in Domain(Live(facts')) : k = Triple(f)
    BY DEF Triples
  <2>2. PICK r \in Earlier : r.a \notin AuditAttr /\ Triple(r) = Triple(f)
    BY UndoneWasThere
  <2>3. Then(r) \in old /\ Then(r).a = r.a /\ Triple(Then(r)) = Triple(r)
    BY ViewRows, ThenRow
  <2> QED  BY <1>0, <2>1, <2>2, <2>3 DEF Triples, Domain
<1>2. ASSUME NEW k \in Triples(Domain(before)), Respects(before, k.a), ~Destroyed(k)
      PROVE  k \in Triples(Domain(Live(facts')))
  <2>1. PICK g \in before : k = Triple(g) /\ g.a \notin AuditAttr
    BY DEF Triples, Domain
  <2>2. g \in old /\ k.a = g.a
    <3>1. k.e = g.e /\ k.a = g.a /\ k.v = g.v
      BY <2>1 DEF Triple
    <3>2. ~Destroyed(g)
      BY <1>2, <3>1 DEF Destroyed, Mentions
    <3> QED  BY <1>0, <3>1, <3>2
  <2>3. PICK r \in Earlier : g = Then(r)
    BY <2>2, ViewRows
  <2>4. r.a = g.a /\ Triple(r) = k
    BY <2>1, <2>3, ViewRows, ThenRow
  <2>5. Respects(old, r.a)
    BY <1>2, <2>2, <2>4, RespectsSeen
  <2>6. PICK f \in Live(facts') : Triple(f) = Triple(r)
    BY <2>1, <2>4, <2>5, UndoneComesBack
  <2>7. f.a \notin AuditAttr
    BY <2>1, <2>4, <2>6 DEF Triple
  <2> QED  BY <2>4, <2>6, <2>7 DEF Triples, Domain
<1> QED  BY <1>1, <1>2

LEMMA UndoCommits ==
    ASSUME IInv, [Next]_vars, Len(events') > Len(events), undoes # Null
    PROVE  Commit
<1>1. ~UNCHANGED store
  BY DEF store, IInv, StoreOK, EventsOK
<1>2. ~ \E x \in Ref : Excise(x)
  BY DEF Excise, IInv, PlanOK
<1> QED  BY <1>1, <1>2, OnlyTwoWrite

(* Undo is exact but for what is gone, whatever was written before: the undo of
   the latest transaction leaves nothing live that was not live before it, and
   brings back every fact that was, in cells as then declared, except values
   of nohistory attributes and what an excision erased, whose rows that
   transaction deleted; and no undo retracts a newer fact except to put back
   another value of its cell. *)
THEOREM UndoIsExact == Spec => UndoExact
<1>1. Spec => [](UndoPlanned /\ UndoDiffed /\ PriorOK)
  <2>1. IInv /\ RowsApart /\ (UndoPlanned /\ UndoDiffed /\ PriorOK) /\ [Next]_vars
          => (UndoPlanned /\ UndoDiffed /\ PriorOK)'
    BY NextUndoPlanned, NextUndoDiffed, NextPrior
  <2> QED  BY <2>1, InitUndo, InitPrior, Invariance, HistoryApart, PTL DEF Spec
<1>2. IInv /\ RowsApart /\ (UndoPlanned /\ UndoDiffed /\ PriorOK) /\ [Next]_vars =>
        [Len(events') > Len(events) /\ undoes = Basis =>
            LET before == Live(prior)
                after == Triples(Domain(Live(facts')))
            IN  /\ after \subseteq Triples(Domain(before))
                /\ \A k \in Triples(Domain(before)) :
                      Respects(before, k.a) /\ ~Destroyed(k) => k \in after]_vars
  <2> SUFFICES ASSUME IInv, RowsApart, UndoPlanned, UndoDiffed, PriorOK, [Next]_vars,
                      Len(events') > Len(events), undoes = Basis,
                      NEW before, before = Live(prior)
               PROVE  /\ Triples(Domain(Live(facts'))) \subseteq Triples(Domain(before))
                      /\ \A k \in Triples(Domain(before)) :
                            Respects(before, k.a) /\ ~Destroyed(k)
                              => k \in Triples(Domain(Live(facts')))
    OBVIOUS
  <2>1. undoes # Null
    BY DEF IInv, StoreOK, EventsOK, Basis, Null
  <2> QED  BY <2>1, UndoCommits, CommitUndoRestores
<1>3. IInv /\ RowsApart /\ (UndoPlanned /\ UndoDiffed /\ PriorOK) /\ [Next]_vars =>
        [Len(events') > Len(events) /\ undoes # Null =>
            \A f \in Live(facts) : f.tx > undoes /\ f \notin facts' =>
                \E g \in Live(facts') : /\ g.tx = Len(events')
                                        /\ g.e = f.e /\ g.a = f.a /\ g.v # f.v]_vars
  BY UndoCommits, CommitUndoKeeps
<1>4. Spec => UndoRestores
  BY <1>1, <1>2, Invariance, HistoryApart, PTL DEF Spec, UndoRestores
<1>5. Spec => UndoKeepsLater
  BY <1>1, <1>3, Invariance, HistoryApart, PTL DEF Spec, UndoKeepsLater
<1> QED  BY <1>4, <1>5 DEF UndoExact

-----------------------------------------------------------------------------
(* Schema calls.  The groups of operations a call plans. *)
LEMMA OpFields ==
    ASSUME NEW o, NEW e, NEW a, NEW v
    PROVE  /\ Op(o, e, a, v).op = o /\ Op(o, e, a, v).e = e
           /\ Op(o, e, a, v).a = a /\ Op(o, e, a, v).v = v
BY DEF Op

LEMMA DefineShapeOps ==
    ASSUME NEW s, NEW shape, NEW op \in DefineShape(s, shape)
    PROVE  /\ shape # NoShape /\ op.op = "assert" /\ op.e = s /\ op.a \in DefinitionAttr
           /\ op.a = "fgraph/shape-closed" => op.v = shape.closed
           /\ op.a = "fgraph/shape-required" => op.v \in shape.required
           /\ op.a = "fgraph/shape-allowed" => op.v \in shape.allowed
BY DEF DefineShape, Op, DefinitionAttr

DeclareGroup(attr, patch) ==
    {Op("assert", attr, flag, patch[flag]) : flag \in {flag \in SchemaAttr : patch[flag] # "unset"}}

InstallGroups(G, attrs, shapes, m) ==
    /\ G = <<G[1], G[2], G[3], G[4]>>
    /\ G[1] = UNION {RetractCells(a, SchemaAttr) : a \in attrs}
    /\ G[2] = UNION {DeclareGroup(a, m.declared[a]) : a \in attrs}
    /\ G[3] = UNION {RetractCells(s, DefinitionAttr) : s \in shapes}
    /\ G[4] = UNION {DefineShape(s, m.shapes[s]) : s \in shapes}

LEMMA InstallIsGroups ==
    ASSUME NEW attrs, NEW shapes, NEW m
    PROVE  InstallGroups(Install(attrs, shapes, m), attrs, shapes, m)
<1> DEFINE A == UNION {RetractCells(a, SchemaAttr) : a \in attrs}
           B == UNION {DeclareGroup(a, m.declared[a]) : a \in attrs}
           C == UNION {RetractCells(s, DefinitionAttr) : s \in shapes}
           D == UNION {DefineShape(s, m.shapes[s]) : s \in shapes}
<1>1. Install(attrs, shapes, m) = <<A, B, C, D>>
  BY DEF Install, DeclareGroup
<1> HIDE DEF A, B, C, D
<1>2. InstallGroups(<<A, B, C, D>>, attrs, shapes, m)
  <2>1. <<A, B, C, D>>[1] = A /\ <<A, B, C, D>>[2] = B /\ <<A, B, C, D>>[3] = C
        /\ <<A, B, C, D>>[4] = D
    OBVIOUS
  <2> QED  BY <2>1 DEF InstallGroups, A, B, C, D
<1> QED  BY <1>1, <1>2

(* The operations of a group have one kind. *)
OpsOf(group, kind, attrs) == \A op \in group : op.op = kind /\ op.a \in attrs

LEMMA GroupKinds ==
    /\ \A es, attrs : OpsOf(UNION {RetractCells(e, attrs) : e \in es}, "retract", attrs)
    /\ \A e, attrs : OpsOf(RetractCells(e, attrs), "retract", attrs)
    /\ \A attr, patch : OpsOf(DeclareGroup(attr, patch), "assert", SchemaAttr)
    /\ \A s, shape : OpsOf(DefineShape(s, shape), "assert", DefinitionAttr)
<1>1. \A e, attrs : OpsOf(RetractCells(e, attrs), "retract", attrs)
  BY OpFields DEF RetractCells, OpsOf
<1>2. \A attr, patch : OpsOf(DeclareGroup(attr, patch), "assert", SchemaAttr)
  BY OpFields DEF DeclareGroup, OpsOf
<1>3. \A s, shape : OpsOf(DefineShape(s, shape), "assert", DefinitionAttr)
  BY DefineShapeOps DEF OpsOf
<1>4. \A es, attrs : OpsOf(UNION {RetractCells(e, attrs) : e \in es}, "retract", attrs)
  BY <1>1 DEF OpsOf
<1> QED  BY <1>1, <1>2, <1>3, <1>4

(* No operation of a group retracts what its own or an earlier one asserts. *)
Compatible(g, h) == \A x \in g, y \in h : x.op = "assert" /\ y.op = "retract" => ~Matches(y, x)
Ordered(G) == \A k, i \in DOMAIN G : k <= i => Compatible(G[k], G[i])

LEMMA CompatibleKinds ==
    /\ \A g, h, X : OpsOf(h, "assert", X) => Compatible(g, h)
    /\ \A g, h, X : OpsOf(g, "retract", X) => Compatible(g, h)
    /\ \A g, h : OpsOf(g, "assert", SchemaAttr) /\ OpsOf(h, "retract", DefinitionAttr)
                 => Compatible(g, h)
<1>1. \A a \in DefinitionAttr : a # None /\ a \notin SchemaAttr
  <2>1. \A a \in DefinitionAttr : a \in UserAttr
    BY DEF UserAttr, ShapeAttr
  <2> QED  BY <2>1, UserAttrs DEF DefinitionAttr, SchemaAttr, Flags
<1> QED  BY <1>1 DEF OpsOf, Compatible, Matches

LEMMA CallGroups ==
    ASSUME NEW c \in DeclareCall \cup ShapeCall \cup ManifestCall
    PROVE  /\ c \in DeclareCall => c.kind = "declare" /\ CallPlan(c) = <<DeclareGroup(c.attr, c.patch)>>
           /\ c \in ShapeCall => c.kind = "shape" /\ CallPlan(c) =
                 <<RetractCells(c.shape, DefinitionAttr), DefineShape(c.shape, Normalized(c.definition))>>
           /\ c \in ManifestCall => c.kind = "manifest" /\ CallPlan(c) =
                 SchemaReplacementOperations(ManifestOf(facts), NormalizeSchemaManifest(c.manifest))
<1>1. c \in DeclareCall => c.kind = "declare" /\ CallPlan(c) = <<DeclareGroup(c.attr, c.patch)>>
  BY DEF CallPlan, DeclareCall, DeclareOperations, DeclareGroup
<1>2. c \in ShapeCall => c.kind = "shape" /\ CallPlan(c) =
         <<RetractCells(c.shape, DefinitionAttr), DefineShape(c.shape, Normalized(c.definition))>>
  BY DEF CallPlan, ShapeCall, ShapeOperations
<1>3. c \in ManifestCall => c.kind = "manifest" /\ CallPlan(c) =
         SchemaReplacementOperations(ManifestOf(facts), NormalizeSchemaManifest(c.manifest))
  BY DEF CallPlan, ManifestCall
<1> QED  BY <1>1, <1>2, <1>3

LEMMA CallOrdered ==
    ASSUME NEW c \in DeclareCall \cup ShapeCall \cup ManifestCall
    PROVE  Ordered(CallPlan(c))
<1>1. CASE c \in DeclareCall
  <2> PICK A : A = DeclareGroup(c.attr, c.patch)
    OBVIOUS
  <2>1. CallPlan(c) = <<A>> /\ Compatible(A, A)
    BY <1>1, CallGroups, GroupKinds, CompatibleKinds
  <2> QED  BY <2>1 DEF Ordered
<1>2. CASE c \in ShapeCall
  <2> PICK A : A = RetractCells(c.shape, DefinitionAttr)
    OBVIOUS
  <2> PICK B : B = DefineShape(c.shape, Normalized(c.definition))
    OBVIOUS
  <2>1. CallPlan(c) = <<A, B>>
    BY <1>2, CallGroups
  <2>2. Compatible(A, A) /\ Compatible(A, B) /\ Compatible(B, B)
    BY GroupKinds, CompatibleKinds
  <2> QED  BY <2>1, <2>2 DEF Ordered
<1>3. CASE c \in ManifestCall
  <2> PICK m : m = NormalizeSchemaManifest(c.manifest)
    OBVIOUS
  <2>1. PICK attrs, shapes : CallPlan(c) = Install(attrs, shapes, m)
    BY <1>3, CallGroups DEF SchemaReplacementOperations
  <2> PICK G : G = CallPlan(c)
    OBVIOUS
  <2>2. InstallGroups(G, attrs, shapes, m)
    BY <2>1, InstallIsGroups
  <2>3. /\ OpsOf(G[1], "retract", SchemaAttr) /\ OpsOf(G[2], "assert", SchemaAttr)
        /\ OpsOf(G[3], "retract", DefinitionAttr) /\ OpsOf(G[4], "assert", DefinitionAttr)
    <3>1. /\ OpsOf(UNION {RetractCells(a, SchemaAttr) : a \in attrs}, "retract", SchemaAttr)
          /\ OpsOf(UNION {RetractCells(s, DefinitionAttr) : s \in shapes}, "retract", DefinitionAttr)
      BY GroupKinds
    <3>2. OpsOf(UNION {DeclareGroup(a, m.declared[a]) : a \in attrs}, "assert", SchemaAttr)
      <4>1. \A a : OpsOf(DeclareGroup(a, m.declared[a]), "assert", SchemaAttr)
        BY GroupKinds
      <4> QED  BY <4>1 DEF OpsOf
    <3>3. OpsOf(UNION {DefineShape(s, m.shapes[s]) : s \in shapes}, "assert", DefinitionAttr)
      <4>1. \A s : OpsOf(DefineShape(s, m.shapes[s]), "assert", DefinitionAttr)
        BY GroupKinds
      <4> QED  BY <4>1 DEF OpsOf
    <3> QED  BY <2>2, <3>1, <3>2, <3>3 DEF InstallGroups
  <2>4. /\ \A i \in 1..4 : Compatible(G[1], G[i]) /\ Compatible(G[3], G[i])
        /\ Compatible(G[2], G[2]) /\ Compatible(G[2], G[3]) /\ Compatible(G[2], G[4])
        /\ Compatible(G[4], G[4])
    BY <2>3, CompatibleKinds
  <2>5. DOMAIN G = 1..4
    <3>1. PICK w, x, y, z : G = <<w, x, y, z>>
      BY <2>2 DEF InstallGroups
    <3>2. DOMAIN <<w, x, y, z>> = 1..4
      OBVIOUS
    <3> QED  BY <3>1, <3>2
  <2> QED  BY <2>4, <2>5 DEF Ordered
<1> QED  BY <1>1, <1>2, <1>3

LEMMA InitCallPlanned == Init => CallPlanned
BY DEF Init, CallPlanned

LEMMA BeginCallPlanned ==
    ASSUME IInv, NEW c \in load.calls, BeginCall(c)
    PROVE  CallPlanned'
<1> PICK G : G = CallPlan(c)
  OBVIOUS
<1>1. /\ phase = "idle" /\ phase' = "plan" /\ call' = c /\ groups' = G /\ facts' = facts
      /\ load' = load /\ plan' = plan /\ undoes' = undoes
  BY DEF BeginCall, store
<1>2. plan = <<>> /\ undoes = Null
  BY <1>1 DEF IInv, PlanOK
<1>3. CallPlan(call)' = G
  BY <1>1 DEF CallPlan
<1> HIDE DEF CallPlan
<1> QED  BY <1>1, <1>2, <1>3 DEF CallPlanned

LEMMA PlanCallPlanned ==
    ASSUME IInv, CallPlanned, call # None, NEW i \in DOMAIN groups, PlanCall(i)
    PROVE  CallPlanned'
<1> PICK G : G = CallPlan(call)
  OBVIOUS
<1> PICK op : op = CHOOSE o \in groups[i] : TRUE
  OBVIOUS
<1> PICK H : H = groups'
  OBVIOUS
<1>1. /\ phase' = "plan" /\ call' = call /\ facts' = facts /\ load' = load /\ undoes' = undoes
      /\ plan' = Append(plan, op) /\ H = [groups EXCEPT ![i] = @ \ {op}]
      /\ \A j \in 1..(i - 1) : groups[j] = {}
      /\ op \in groups[i]
  BY DEF PlanCall, store
<1>2. CallPlan(call)' = G
  BY <1>1 DEF CallPlan
<1>3. /\ plan \in Seq(PlanOp) /\ groups \in Seq(SUBSET PlainOp) /\ op \in PlanOp
      /\ load.calls \subseteq DeclareCall \cup ShapeCall \cup ManifestCall
  BY <1>1, WorkloadTyped DEF IInv, PlanOK, PlainOp
<1>4. /\ call \in load.calls /\ undoes = Null
      /\ DOMAIN groups = DOMAIN G
      /\ \A k \in DOMAIN groups : /\ groups[k] \subseteq G[k]
                                  /\ \A o \in G[k] : o \in groups[k] \/ \E p \in DOMAIN plan : plan[p] = o
      /\ \A p \in DOMAIN plan : \E k \in DOMAIN groups :
            plan[p] \in G[k] /\ \A j \in DOMAIN groups : j < k => groups[j] = {}
      /\ \A p, q \in DOMAIN plan : p < q /\ plan[p].op = "assert" /\ plan[q].op = "retract" =>
            ~Matches(plan[q], plan[p])
  BY DEF CallPlanned
<1>5. /\ DOMAIN H = DOMAIN groups /\ H[i] = groups[i] \ {op}
      /\ \A k \in DOMAIN groups : k # i => H[k] = groups[k]
      /\ \A k \in DOMAIN groups : k \in Nat /\ H[k] \subseteq groups[k]
      /\ \A k \in DOMAIN groups : k < i => groups[k] = {}
  <2>1. DOMAIN groups = 1..Len(groups) /\ Len(groups) \in Nat
    BY <1>3
  <2>2. \A k \in DOMAIN groups : k < i => k \in 1..(i - 1)
    BY <2>1
  <2>3. \A k \in DOMAIN groups : k < i => groups[k] = {}
    BY <1>1, <2>2
  <2>4. /\ DOMAIN H = DOMAIN groups /\ H[i] = groups[i] \ {op}
        /\ \A k \in DOMAIN groups : k # i => H[k] = groups[k]
    BY <1>1
  <2>5. \A k \in DOMAIN groups : k \in Nat
    BY <2>1
  <2> QED  BY <2>3, <2>4, <2>5
<1>6. /\ \A p \in DOMAIN plan' : (p \in DOMAIN plan /\ plan'[p] = plan[p])
                                 \/ (p = Len(plan) + 1 /\ plan'[p] = op)
      /\ \A p \in DOMAIN plan : p \in DOMAIN plan' /\ plan'[p] = plan[p] /\ p \in 1..Len(plan)
      /\ \E p \in DOMAIN plan' : plan'[p] = op
      /\ Len(plan) \in Nat
  BY <1>1, <1>3
<1>7. ASSUME NEW k \in DOMAIN groups
      PROVE  /\ H[k] \subseteq G[k]
             /\ \A o \in G[k] : o \in H[k] \/ \E p \in DOMAIN plan' : plan'[p] = o
  <2>1. H[k] \subseteq G[k]
    BY <1>4, <1>5
  <2>2. ASSUME NEW o \in G[k], o \notin H[k] PROVE \E p \in DOMAIN plan' : plan'[p] = o
    <3>1. o = op \/ \E p \in DOMAIN plan : plan[p] = o
      BY <1>4, <1>5, <2>2
    <3> QED  BY <1>6, <3>1
  <2> QED  BY <2>1, <2>2
<1>8. ASSUME NEW p \in DOMAIN plan'
      PROVE  \E k \in DOMAIN groups :
                plan'[p] \in G[k] /\ \A j \in DOMAIN groups : j < k => H[j] = {}
  <2>1. CASE p \in DOMAIN plan /\ plan'[p] = plan[p]
    <3>1. PICK k \in DOMAIN groups :
             plan[p] \in G[k] /\ \A j \in DOMAIN groups : j < k => groups[j] = {}
      BY <1>4, <2>1
    <3>2. \A j \in DOMAIN groups : j < k => H[j] = {}
      BY <1>5, <3>1
    <3> QED  BY <2>1, <3>1, <3>2
  <2>2. CASE plan'[p] = op
    <3>1. op \in G[i]
      BY <1>1, <1>4
    <3>2. \A j \in DOMAIN groups : j < i => H[j] = {}
      BY <1>5
    <3> QED  BY <2>2, <3>1, <3>2
  <2> QED  BY <1>6, <2>1, <2>2
<1>9. ASSUME NEW p \in DOMAIN plan', NEW q \in DOMAIN plan', p < q,
             plan'[p].op = "assert", plan'[q].op = "retract"
      PROVE  ~Matches(plan'[q], plan'[p])
  <2>1. CASE q \in DOMAIN plan /\ plan'[q] = plan[q]
    <3>1. p \in DOMAIN plan /\ plan'[p] = plan[p]
      BY <1>6, <1>9, <2>1
    <3> QED  BY <1>4, <1>9, <2>1, <3>1
  <2>2. CASE q = Len(plan) + 1 /\ plan'[q] = op
    <3>1. p \in DOMAIN plan /\ plan'[p] = plan[p]
      BY <1>6, <1>9, <2>2
    <3>2. PICK k \in DOMAIN groups :
             plan[p] \in G[k] /\ \A j \in DOMAIN groups : j < k => groups[j] = {}
      BY <1>4, <3>1
    <3>3. k <= i
      BY <1>1, <1>5, <3>2
    <3>4. Ordered(G)
      BY <1>3, <1>4, CallOrdered
    <3>5. op \in G[i] /\ i \in DOMAIN G /\ k \in DOMAIN G
      BY <1>1, <1>4
    <3>6. Compatible(G[k], G[i])
      BY <3>3, <3>4, <3>5 DEF Ordered
    <3> QED  BY <1>9, <2>2, <3>1, <3>2, <3>5, <3>6 DEF Compatible
  <2> QED  BY <1>6, <2>1, <2>2
<1>10. /\ \A k \in DOMAIN H :
             /\ H[k] \subseteq G[k]
             /\ \A o \in G[k] : o \in H[k] \/ \E p \in DOMAIN plan' : plan'[p] = o
       /\ \A p \in DOMAIN plan' : \E k \in DOMAIN H :
             plan'[p] \in G[k] /\ \A j \in DOMAIN H : j < k => H[j] = {}
  BY <1>5, <1>7, <1>8
<1>11. groups' = H /\ DOMAIN H = DOMAIN G
  BY <1>4, <1>5
<1> QED  BY <1>1, <1>2, <1>4, <1>9, <1>10, <1>11 DEF CallPlanned

LEMMA NextCallPlanned == IInv /\ CallPlanned /\ [Next]_vars => CallPlanned'
<1> SUFFICES ASSUME IInv, CallPlanned, [Next]_vars PROVE CallPlanned'
  OBVIOUS
<1>1. CASE call' = None
  BY <1>1 DEF CallPlanned
<1>2. CASE \E c \in load.calls : BeginCall(c)
  BY <1>2, BeginCallPlanned
<1>3. CASE \E i \in DOMAIN groups : PlanCall(i)
  <2>1. call' = call
    BY <1>3 DEF PlanCall
  <2> QED  BY <1>1, <1>3, <2>1, PlanCallPlanned
<1>4. CASE /\ UNCHANGED <<facts, load, undoes, plan, call, groups>>
           /\ phase' = "diff" => phase = "diff" \/ \A i \in DOMAIN groups : groups[i] = {}
  <2>1. CallPlan(call)' = CallPlan(call)
    BY <1>4 DEF CallPlan
  <2> QED  BY <1>4, <2>1 DEF CallPlanned
<1>5. CASE Validate \/ DiffStep \/ UNCHANGED vars
  <2>1. /\ UNCHANGED <<facts, load, undoes, plan, call, groups>>
        /\ phase' = "diff" => phase = "diff" \/ \A i \in DOMAIN groups : groups[i] = {}
    BY <1>5 DEF Validate, DiffStep, planning, store, vars
  <2> QED  BY <1>4, <2>1
<1>6. CASE \/ Begin
           \/ \E t \in 1..load.maxTx : BeginUndo(t)
           \/ \E in \in load.ops : PlanRequest(in)
           \/ Commit \/ Noop \/ Abort
           \/ \E x \in Ref : Excise(x)
  <2>1. call' = None
    BY <1>6 DEF Begin, BeginUndo, PlanRequest, Commit, Noop, Abort, Discard, Excise, planning,
                IInv, PlanOK
  <2> QED  BY <1>1, <2>1
<1>7. CASE \E f \in todo : PlanUndo(f)
  <2>1. call' = call /\ undoes # Null
    BY <1>7 DEF PlanUndo
  <2>2. call = None
    BY <2>1 DEF CallPlanned
  <2> QED  BY <1>1, <2>1, <2>2
<1> QED  BY <1>2, <1>3, <1>5, <1>6, <1>7 DEF Next

(* The cells once the diff is written. *)
LEMMA ResultRows ==
    ASSUME IInv, phase = "diff"
    PROVE  /\ \A f : f \in Result <=> f \in Domain(Live(facts)) \ dropped \/ f \in Fresh
           /\ \A f \in Result : f.rx = Null /\ f.tx \in Nat /\ f.ord \in Nat
           /\ Live(Result) = Result
<1>1. \A f : f \in Result <=> f \in Domain(Live(facts)) \ dropped \/ f \in Fresh
  BY DEF Result, Fresh
<1>2. \A f \in Domain(Live(facts)) : f.rx = Null /\ f.tx \in Nat /\ f.ord \in Nat
  BY RowGrows DEF IInv, StoreOK, EventsOK, RowsOK, Basis, Domain, Live
<1>3. \A f \in Fresh : f.rx = Null /\ f.tx \in Nat /\ f.ord \in Nat
  BY FreshRows DEF FreshOK, FactRow, IInv, StoreOK, EventsOK, Basis
<1>4. \A f \in Result : f.rx = Null /\ f.tx \in Nat /\ f.ord \in Nat
  BY <1>1, <1>2, <1>3
<1> QED  BY <1>1, <1>4 DEF Live

(* Cell holds exactly the values V, each in one row. *)
CellHolds(cell, V) ==
    /\ \A f \in cell : f.v \in V /\ f.tx \in Nat /\ f.ord \in Nat
    /\ \A v \in V : \E f \in cell : f.v = v
    /\ \A f, g \in cell : f.v = g.v => f = g

LEMMA HeldValue ==
    ASSUME NEW cell, NEW v, CellHolds(cell, {v})
    PROVE  LastDeclared(cell) = v
<1>1. PICK f \in cell : f.v = v /\ f.tx \in Nat /\ f.ord \in Nat
  BY DEF CellHolds
<1>2. cell = {f}
  BY <1>1 DEF CellHolds
<1> QED  BY <1>1, <1>2, SoleLast

LEMMA HeldNothing ==
    ASSUME NEW cell, CellHolds(cell, {})
    PROVE  cell = {} /\ LastDeclared(cell) = "unset"
BY DEF CellHolds, LastDeclared

LEMMA HeldValues ==
    ASSUME NEW cell, NEW V, CellHolds(cell, V)
    PROVE  {f.v : f \in cell} = V
BY DEF CellHolds

(* Of an entity the plan names, a cell is the working set's. *)
LEMMA ResultCell ==
    ASSUME IInv, phase = "diff", NEW e, NEW a \in UserAttr, NEW n \in DOMAIN plan, plan[n].e = e,
           NEW V, \A w \in working : w.e = e /\ w.a = a => w.v \in V,
           \A v \in V : \E w \in working : w.e = e /\ w.a = a /\ w.v = v
    PROVE  CellHolds(Cell(Result, e, a), V)
<1>0. /\ \A f \in WorkingFactsForPlan \ dropped : Stored(f) \in working
      /\ \A i \in Final : Asserted(i) \in working
      /\ \A w, x \in working : Triple(w) = Triple(x) => w = x
  BY DEF IInv, DiffOK
<1>1. ASSUME NEW f \in Cell(Result, e, a)
      PROVE  \E w \in working : /\ w.e = e /\ w.a = a /\ w.v = f.v /\ Triple(w) = Triple(f)
                                /\ \/ w = Stored(f)
                                   \/ f \in Fresh /\ \E i \in Final : w = Asserted(i)
  <2>0. f \in Result /\ f.e = e /\ f.a = a
    BY ResultRows DEF Cell
  <2>1. CASE f \in Domain(Live(facts)) \ dropped
    <3>1. f \in WorkingFactsForPlan \ dropped
      BY <2>0, <2>1, WorkingRows
    <3> QED  BY <1>0, <2>0, <3>1, Entries
  <2>2. CASE f \in Fresh
    <3>1. PICK i \in Final : Triple(f) = Triple(plan[i])
      BY <2>2, FreshRows DEF FreshOK
    <3>2. plan[i].e = e /\ plan[i].a = a /\ plan[i].v = f.v
      BY <2>0, <3>1 DEF Triple
    <3> QED  BY <1>0, <2>2, <3>1, <3>2, Entries
  <2> QED  BY <2>0, <2>1, <2>2, ResultRows
<1>2. \A f \in Cell(Result, e, a) : f.v \in V /\ f.tx \in Nat /\ f.ord \in Nat
  BY <1>1, ResultRows DEF Cell
<1>3. ASSUME NEW v \in V PROVE \E f \in Cell(Result, e, a) : f.v = v
  <2>1. PICK w \in working : w.e = e /\ w.a = a /\ w.v = v
    OBVIOUS
  <2>2. CASE \E f \in WorkingFactsForPlan \ dropped : w = Stored(f)
    <3>1. PICK f \in WorkingFactsForPlan \ dropped : w = Stored(f)
      BY <2>2
    <3>2. f \in Result /\ f.e = e /\ f.a = a /\ f.v = v
      BY <2>1, <3>1, WorkingRows, ResultRows, Entries
    <3> QED  BY <3>2, ResultRows DEF Cell
  <2>3. CASE \E i \in Final : w = Asserted(i)
    <3>1. PICK i \in Final : w = Asserted(i)
      BY <2>3
    <3>2. PICK f \in Fresh : Triple(f) = Triple(plan[i])
      BY FreshRows
    <3>3. f \in Result /\ f.e = e /\ f.a = a /\ f.v = v
      BY <2>1, <3>1, <3>2, ResultRows, Entries DEF Triple
    <3> QED  BY <3>3, ResultRows DEF Cell
  <2> QED  BY <2>2, <2>3 DEF IInv, DiffOK
<1>4. ASSUME NEW f \in Cell(Result, e, a), NEW g \in Cell(Result, e, a), f.v = g.v PROVE f = g
  <2>1. Triple(f) = Triple(g)
    BY <1>4 DEF Cell, Triple
  <2>2. PICK w \in working : /\ Triple(w) = Triple(f)
                             /\ w = Stored(f) \/ (f \in Fresh /\ \E i \in Final : w = Asserted(i))
    BY <1>1
  <2>3. PICK x \in working : /\ Triple(x) = Triple(g)
                             /\ x = Stored(g) \/ (g \in Fresh /\ \E i \in Final : x = Asserted(i))
    BY <1>1
  <2>4. w = x
    BY <1>0, <2>1, <2>2, <2>3
  <2>5. \A i \in Final : i # 0
    BY DEF IInv, DiffOK, Final, PlanOK
  <2>6. \A i \in Final : Asserted(i) # Stored(f) /\ Asserted(i) # Stored(g)
    BY <2>5, Entries
  <2>7. CASE w = Stored(f) /\ x = Stored(g)
    <3>1. Stored(f).raw = f /\ Stored(g).raw = g
      BY Entries
    <3> QED  BY <2>4, <2>7, <3>1
  <2>8. CASE f \in Fresh /\ g \in Fresh
    BY <2>1, <2>8, FreshRows
  <2> QED  BY <2>2, <2>3, <2>4, <2>6, <2>7, <2>8
<1> QED  BY <1>2, <1>3, <1>4 DEF CellHolds

(* A cell the plan does not name stays as it was. *)
LEMMA ElsewhereSame ==
    ASSUME IInv, DroppedWhy, phase = "diff", NEW e, NEW a \in UserAttr,
           \A i \in DOMAIN plan : plan[i].a # None /\ ~(plan[i].e = e /\ plan[i].a = a)
    PROVE  Cell(Result, e, a) = Cell(facts, e, a)
<1>1. ASSUME NEW f \in Cell(Result, e, a) PROVE f \in Cell(facts, e, a)
  <2>1. f \in Result /\ f.e = e /\ f.a = a
    BY ResultRows DEF Cell
  <2>2. f \notin Fresh
    BY <2>1, FreshPlanned
  <2>3. f \in Live(facts)
    BY <2>1, <2>2, ResultRows DEF Domain
  <2> QED  BY <2>1, <2>3 DEF Cell
<1>2. ASSUME NEW f \in Cell(facts, e, a) PROVE f \in Cell(Result, e, a)
  <2>1. f \in Domain(Live(facts)) /\ f.e = e /\ f.a = a
    BY UserAttrs DEF Cell, Domain
  <2>2. f \notin dropped
    <3> SUFFICES ASSUME f \in dropped PROVE FALSE
      OBVIOUS
    <3>1. PICK j \in 1..cursor : \/ plan[j].op = "retract" /\ Matches(plan[j], f)
                                 \/ plan[j].op = "assert" /\ plan[j].e = f.e /\ plan[j].a = f.a
      BY DEF DroppedWhy
    <3>2. j \in DOMAIN plan
      BY DEF IInv, PlanOK
    <3> QED  BY <2>1, <3>1, <3>2 DEF Matches
  <2>3. f \in Result /\ f \in Live(Result)
    BY <2>1, <2>2, ResultRows
  <2> QED  BY <2>1, <2>3 DEF Cell
<1> QED  BY <1>1, <1>2

(* A cell that a call clears ends with what the call asserts there. *)
Asserts(i, e, a) == plan[i].op = "assert" /\ plan[i].e = e /\ plan[i].a = a

LEMMA ClearedCell ==
    ASSUME IInv, ActiveStays, CellCleared, CallPlanned, call # None, Diffed,
           NEW e, NEW a \in UserAttr, NEW n \in DOMAIN plan, plan[n] = Op("retract", e, a, None),
           NEW V, \A i \in DOMAIN plan : Asserts(i, e, a) => plan[i].v \in V,
           \A v \in V : \E i \in DOMAIN plan : Asserts(i, e, a) /\ plan[i].v = v,
           IsMany(a) \/ \A u, v \in V : u = v
    PROVE  CellHolds(Cell(Result, e, a), V)
<1>0. phase = "diff" /\ DOMAIN plan = 1..cursor /\ cursor \in Nat
  BY DEF Diffed, IInv, PlanOK
<1>1. plan[n].op = "retract" /\ plan[n].e = e /\ plan[n].a = a /\ plan[n].v = None /\ a # None
  BY OpFields, UserAttrs
<1>2. ASSUME NEW w \in working, w.e = e, w.a = a PROVE w.v \in V
  <2>1. PICK i \in 1..cursor : plan[i].op = "assert" /\ Triple(plan[i]) = Triple(w)
    BY <1>0, <1>1, <1>2 DEF CellCleared
  <2> QED  BY <1>0, <1>2, <2>1 DEF Triple, Asserts
<1>3. ASSUME NEW v \in V PROVE \E w \in working : w.e = e /\ w.a = a /\ w.v = v
  <2>1. PICK m \in DOMAIN plan : Asserts(m, e, a) /\ plan[m].v = v
    OBVIOUS
  <2>2. m \in ActivePlanAssertions(plan)
    BY <2>1 DEF ActivePlanAssertions, CallPlanned, Asserts
  <2>3. Unrivalled(m)
    BY <2>1 DEF Unrivalled, Asserts
  <2>4. PICK w \in working : Triple(w) = Triple(plan[m])
    BY <1>0, <2>2, <2>3 DEF ActiveStays
  <2> QED  BY <2>1, <2>4 DEF Triple, Asserts
<1> QED  BY <1>0, <1>1, <1>2, <1>3, ResultCell

(* Shapes: the cells of a definition. *)
LEMMA DefinitionInstalled ==
    ASSUME IInv, ActiveStays, CellCleared, CallPlanned, call # None, Diffed,
           NEW s \in Ent, NEW D \in ShapeSet,
           \A op \in RetractCells(s, DefinitionAttr) : \E p \in DOMAIN plan : plan[p] = op,
           \A op \in DefineShape(s, D) : \E p \in DOMAIN plan : plan[p] = op,
           \A p \in DOMAIN plan : \A a \in DefinitionAttr :
               Asserts(p, s, a) => plan[p] \in DefineShape(s, D)
    PROVE  ReadShape(Result, s) = D
<1> DEFINE Req == "fgraph/shape-required"
           All == "fgraph/shape-allowed"
           Clo == "fgraph/shape-closed"
<1>1. \A a \in DefinitionAttr : a \in UserAttr /\ \E p \in DOMAIN plan : plan[p] = Op("retract", s, a, None)
  BY DEF RetractCells, UserAttr, ShapeAttr
<1>2. Req \in DefinitionAttr /\ All \in DefinitionAttr /\ Clo \in DefinitionAttr
  BY DEF DefinitionAttr
<1>3. IsMany(Req) /\ IsMany(All)
  BY DEF IsMany, SchemaForPlan, SystemMany
<1>4. \A p \in DOMAIN plan, a \in DefinitionAttr : Asserts(p, s, a) =>
         /\ D # NoShape
         /\ a = Clo => plan[p].v = D.closed
         /\ a = Req => plan[p].v \in D.required
         /\ a = All => plan[p].v \in D.allowed
  BY DefineShapeOps DEF Asserts
<1>5. CASE D = NoShape
  <2>1. ASSUME NEW a \in DefinitionAttr PROVE CellHolds(Cell(Result, s, a), {})
    <3>1. PICK n \in DOMAIN plan : plan[n] = Op("retract", s, a, None)
      BY <1>1
    <3>2. \A i \in DOMAIN plan : Asserts(i, s, a) => plan[i].v \in {}
      BY <1>4, <1>5
    <3> QED  BY <1>1, <3>1, <3>2, ClearedCell
  <2>2. Cell(Result, s, Req) = {} /\ Cell(Result, s, All) = {}
        /\ LastDeclared(Cell(Result, s, Clo)) = "unset"
    BY <1>2, <2>1, HeldNothing
  <2> QED  BY <1>5, <2>2 DEF ReadShape, NoShape
<1>6. CASE D # NoShape
  <2>0. /\ D.required \subseteq Attr /\ D.allowed \subseteq Attr /\ D.closed \in {"true", "false"}
        /\ D = [required |-> D.required, allowed |-> D.allowed, closed |-> D.closed]
    BY <1>6 DEF ShapeSet
  <2>1. /\ \E p \in DOMAIN plan : Asserts(p, s, Clo) /\ plan[p].v = D.closed
        /\ \A a \in D.required : \E p \in DOMAIN plan : Asserts(p, s, Req) /\ plan[p].v = a
        /\ \A a \in D.allowed : \E p \in DOMAIN plan : Asserts(p, s, All) /\ plan[p].v = a
    <3>1. /\ Op("assert", s, Clo, D.closed) \in DefineShape(s, D)
          /\ \A a \in D.required : Op("assert", s, Req, a) \in DefineShape(s, D)
          /\ \A a \in D.allowed : Op("assert", s, All, a) \in DefineShape(s, D)
      BY <1>6 DEF DefineShape
    <3> QED  BY <3>1, OpFields DEF Asserts
  <2>2. CellHolds(Cell(Result, s, Req), D.required)
    <3>1. PICK n \in DOMAIN plan : plan[n] = Op("retract", s, Req, None)
      BY <1>1, <1>2
    <3>2. /\ \A i \in DOMAIN plan : Asserts(i, s, Req) => plan[i].v \in D.required
          /\ Req \in UserAttr
      BY <1>1, <1>2, <1>4
    <3> HIDE DEF Req
    <3> QED  BY <1>3, <2>1, <3>1, <3>2, ClearedCell
  <2>3. CellHolds(Cell(Result, s, All), D.allowed)
    <3>1. PICK n \in DOMAIN plan : plan[n] = Op("retract", s, All, None)
      BY <1>1, <1>2
    <3>2. /\ \A i \in DOMAIN plan : Asserts(i, s, All) => plan[i].v \in D.allowed
          /\ All \in UserAttr
      BY <1>1, <1>2, <1>4
    <3> HIDE DEF All
    <3> QED  BY <1>3, <2>1, <3>1, <3>2, ClearedCell
  <2>4. CellHolds(Cell(Result, s, Clo), {D.closed})
    <3>1. PICK n \in DOMAIN plan : plan[n] = Op("retract", s, Clo, None)
      BY <1>1, <1>2
    <3>2. /\ \A i \in DOMAIN plan : Asserts(i, s, Clo) => plan[i].v \in {D.closed}
          /\ \A v \in {D.closed} : \E i \in DOMAIN plan : Asserts(i, s, Clo) /\ plan[i].v = v
          /\ \A u, v \in {D.closed} : u = v
          /\ Clo \in UserAttr
      BY <1>1, <1>2, <1>4, <2>1
    <3> HIDE DEF Clo
    <3> QED  BY <3>1, <3>2, ClearedCell
  <2>5. /\ {f.v : f \in Cell(Result, s, Req)} = D.required
        /\ {f.v : f \in Cell(Result, s, All)} = D.allowed
        /\ LastDeclared(Cell(Result, s, Clo)) = D.closed
    BY <2>2, <2>3, <2>4, HeldValues, HeldValue
  <2> QED  BY <2>0, <2>5 DEF ReadShape
<1> QED  BY <1>5, <1>6

(* Declarations: the cell of one flag. *)
LEMMA CellDeclares ==
    ASSUME NEW rows, NEW attr, NEW flag, ~SystemMany(attr, flag)
    PROVE  SchemaFor(rows, attr, flag) = LastDeclared(Cell(rows, attr, flag))
<1>1. Declarations(rows, attr, flag) = Cell(rows, attr, flag)
  BY DEF Declarations, Cell
<1> QED  BY <1>1 DEF SchemaFor

LEMMA NotSystemMany ==
    ASSUME NEW a \in Attr, NEW flag
    PROVE  ~SystemMany(a, flag)
BY NamesAssumption DEF SystemMany, Ref, ShapeAttr, DefinitionAttr

LEMMA FlagInstalled ==
    ASSUME IInv, ActiveStays, CellCleared, CallPlanned, call # None, Diffed,
           NEW a \in Attr, NEW flag \in SchemaAttr, NEW value,
           \E p \in DOMAIN plan : plan[p] = Op("retract", a, flag, None),
           value # "unset" => \E p \in DOMAIN plan : plan[p] = Op("assert", a, flag, value),
           \A p \in DOMAIN plan : Asserts(p, a, flag) => plan[p].v = value /\ value # "unset"
    PROVE  SchemaFor(Result, a, flag) = value
<1>0. flag \in UserAttr /\ SchemaFor(Result, a, flag) = LastDeclared(Cell(Result, a, flag))
  BY NotSystemMany, CellDeclares DEF UserAttr
<1>1. PICK n \in DOMAIN plan : plan[n] = Op("retract", a, flag, None)
  OBVIOUS
<1>2. CASE value = "unset"
  <2>1. \A i \in DOMAIN plan : Asserts(i, a, flag) => plan[i].v \in {}
    BY <1>2
  <2>2. CellHolds(Cell(Result, a, flag), {})
    BY <1>0, <1>1, <2>1, ClearedCell
  <2> QED  BY <1>0, <1>2, <2>2, HeldNothing
<1>3. CASE value # "unset"
  <2>1. /\ \A i \in DOMAIN plan : Asserts(i, a, flag) => plan[i].v \in {value}
        /\ \A v \in {value} : \E i \in DOMAIN plan : Asserts(i, a, flag) /\ plan[i].v = v
        /\ \A u, v \in {value} : u = v
    BY <1>3, OpFields DEF Asserts
  <2>2. CellHolds(Cell(Result, a, flag), {value})
    BY <1>0, <1>1, <2>1, ClearedCell
  <2> QED  BY <1>0, <2>2, HeldValue
<1> QED  BY <1>2, <1>3

(* A call that gets to its commit has planned all of its operations, and
   nothing else. *)
LEMMA CallDone ==
    ASSUME IInv, CallPlanned, call # None, Diffed, NEW G, G = CallPlan(call)
    PROVE  /\ call \in DeclareCall \cup ShapeCall \cup ManifestCall
           /\ \A i \in DOMAIN G : \A op \in G[i] : \E p \in DOMAIN plan : plan[p] = op
           /\ \A p \in DOMAIN plan : \E i \in DOMAIN G : plan[p] \in G[i]
<1>1. call \in DeclareCall \cup ShapeCall \cup ManifestCall
  BY WorkloadTyped DEF CallPlanned, IInv, PlanOK
<1>2. phase = "diff"
  BY DEF Diffed
<1> QED  BY <1>1, <1>2 DEF CallPlanned

LEMMA DeclareGroupOps ==
    ASSUME NEW attr, NEW patch
    PROVE  /\ \A op \in DeclareGroup(attr, patch) :
                 /\ op.op = "assert" /\ op.e = attr /\ op.a \in SchemaAttr
                 /\ op.v = patch[op.a] /\ patch[op.a] # "unset"
           /\ \A flag \in SchemaAttr : patch[flag] # "unset" =>
                 Op("assert", attr, flag, patch[flag]) \in DeclareGroup(attr, patch)
BY OpFields DEF DeclareGroup

LEMMA RetractCellsOps ==
    ASSUME NEW e, NEW attrs
    PROVE  /\ \A op \in RetractCells(e, attrs) : op.op = "retract" /\ op.e = e /\ op.a \in attrs
           /\ \A a \in attrs : Op("retract", e, a, None) \in RetractCells(e, attrs)
BY OpFields DEF RetractCells

LEMMA DeclareInstalled ==
    ASSUME IInv, RowsApart, DiffKeeps, CallPlanned, call # None, Diffed, call \in DeclareCall,
           NEW flag \in SchemaAttr, call.patch[flag] # "unset"
    PROVE  SchemaFor(Result, call.attr, flag) = call.patch[flag]
<1> PICK attr : attr = call.attr
  OBVIOUS
<1> PICK patch : patch = call.patch
  OBVIOUS
<1> PICK A : A = DeclareGroup(attr, patch)
  OBVIOUS
<1>0. /\ phase = "diff" /\ DOMAIN plan = 1..cursor /\ cursor \in Nat /\ attr \in Attr
      /\ ActiveStays /\ OneCell
  BY DEF Diffed, IInv, PlanOK, DiffKeeps, DeclareCall
<1>1. /\ \A op \in A : \E p \in DOMAIN plan : plan[p] = op
      /\ \A p \in DOMAIN plan : plan[p] \in A
  <2>1. CallPlan(call) = <<A>>
    BY CallGroups
  <2>2. DOMAIN <<A>> = {1} /\ <<A>>[1] = A
    OBVIOUS
  <2>3. /\ \A i \in DOMAIN <<A>> : \A op \in <<A>>[i] : \E p \in DOMAIN plan : plan[p] = op
        /\ \A p \in DOMAIN plan : \E i \in DOMAIN <<A>> : plan[p] \in <<A>>[i]
    BY <2>1, CallDone
  <2> QED  BY <2>2, <2>3
<1>2. \A p \in DOMAIN plan : /\ plan[p].op = "assert" /\ plan[p].e = attr
                             /\ plan[p].v = patch[plan[p].a]
  BY <1>1, DeclareGroupOps
<1>3. PICK m \in DOMAIN plan : plan[m] = Op("assert", attr, flag, patch[flag])
  <2>1. Op("assert", attr, flag, patch[flag]) \in A
    BY DeclareGroupOps
  <2> QED  BY <1>1, <2>1
<1>4. plan[m].e = attr /\ plan[m].a = flag /\ plan[m].v = patch[flag] /\ plan[m].op = "assert"
  BY <1>3, OpFields
<1>5. m \in ActivePlanAssertions(plan) /\ Unrivalled(m)
  BY <1>2, <1>4 DEF ActivePlanAssertions, Unrivalled
<1>6. PICK w \in working : w.e = attr /\ w.a = flag /\ w.v = patch[flag]
  <2>1. PICK w \in working : Triple(w) = Triple(plan[m])
    BY <1>0, <1>5 DEF ActiveStays
  <2> QED  BY <1>4, <2>1 DEF Triple
<1>7. \A x \in working : x.e = attr /\ x.a = flag => x = w
  <2>1. ~IsMany(flag) /\ flag \in UserAttr /\ OneEach(facts, flag)
    BY FlagNotMany, FlagOneEach
  <2> QED  BY <1>0, <1>6, <2>1 DEF OneCell
<1>8. CellHolds(Cell(Result, attr, flag), {patch[flag]})
  <2>1. /\ \A x \in working : x.e = attr /\ x.a = flag => x.v \in {patch[flag]}
        /\ \A v \in {patch[flag]} : \E x \in working : x.e = attr /\ x.a = flag /\ x.v = v
        /\ flag \in UserAttr
    BY <1>6, <1>7, FlagNotMany
  <2> QED  BY <1>0, <1>4, <2>1, ResultCell
<1> QED  BY <1>0, <1>8, HeldValue, NotSystemMany, CellDeclares

LEMMA ShapeInstalled ==
    ASSUME IInv, DiffKeeps, CallPlanned, call # None, Diffed, call \in ShapeCall
    PROVE  ReadShape(Result, call.shape) = Normalized(call.definition)
<1> PICK s : s = call.shape
  OBVIOUS
<1> PICK D : D = Normalized(call.definition)
  OBVIOUS
<1> PICK A : A = RetractCells(s, DefinitionAttr)
  OBVIOUS
<1> PICK B : B = DefineShape(s, D)
  OBVIOUS
<1>1. s \in Ent /\ D \in ShapeSet
  BY NormalizedTyped DEF ShapeCall
<1>2. CallPlan(call) = <<A, B>>
  BY CallGroups
<1>3. DOMAIN <<A, B>> = {1, 2} /\ <<A, B>>[1] = A /\ <<A, B>>[2] = B
  OBVIOUS
<1>4. /\ \A i \in DOMAIN <<A, B>> : \A op \in <<A, B>>[i] : \E p \in DOMAIN plan : plan[p] = op
      /\ \A p \in DOMAIN plan : \E i \in DOMAIN <<A, B>> : plan[p] \in <<A, B>>[i]
  BY <1>2, CallDone
<1>5. /\ \A op \in A : \E p \in DOMAIN plan : plan[p] = op
      /\ \A op \in B : \E p \in DOMAIN plan : plan[p] = op
      /\ \A p \in DOMAIN plan : plan[p] \in A \/ plan[p] \in B
  BY <1>3, <1>4
<1>6. \A p \in DOMAIN plan : \A a \in DefinitionAttr : Asserts(p, s, a) => plan[p] \in B
  BY <1>5, RetractCellsOps DEF Asserts
<1> QED  BY <1>1, <1>5, <1>6, DefinitionInstalled DEF DiffKeeps

(* A manifest replaces the declarations and definitions that it or the store
   has, and there are no others. *)
ReplacedAttrs(m) ==
    {a \in Attr : Declares(ManifestOf(facts).declared[a]) \/ Declares(m.declared[a])}
ReplacedShapes(m) == {s \in Ent : ManifestOf(facts).shapes[s] # NoShape \/ m.shapes[s] # NoShape}

ManifestPlanned(m) ==
    /\ \A a \in ReplacedAttrs(m), flag \in SchemaAttr :
          /\ \E p \in DOMAIN plan : plan[p] = Op("retract", a, flag, None)
          /\ m.declared[a][flag] # "unset" =>
                \E p \in DOMAIN plan : plan[p] = Op("assert", a, flag, m.declared[a][flag])
    /\ \A s \in ReplacedShapes(m) :
          /\ \A op \in RetractCells(s, DefinitionAttr) : \E p \in DOMAIN plan : plan[p] = op
          /\ \A op \in DefineShape(s, m.shapes[s]) : \E p \in DOMAIN plan : plan[p] = op
    /\ \A p \in DOMAIN plan :
          \/ /\ plan[p].op = "retract" /\ plan[p].a \in SchemaAttr /\ plan[p].e \in ReplacedAttrs(m)
          \/ /\ plan[p].op = "assert" /\ plan[p].a \in SchemaAttr /\ plan[p].e \in ReplacedAttrs(m)
             /\ plan[p].v = m.declared[plan[p].e][plan[p].a] /\ plan[p].v # "unset"
          \/ /\ plan[p].op = "retract" /\ plan[p].a \in DefinitionAttr
             /\ plan[p].e \in ReplacedShapes(m)
          \/ /\ plan[p].op = "assert" /\ plan[p].a \in DefinitionAttr
             /\ plan[p].e \in ReplacedShapes(m)
             /\ plan[p] \in DefineShape(plan[p].e, m.shapes[plan[p].e])

LEMMA ManifestPlan ==
    ASSUME IInv, CallPlanned, call # None, Diffed, call \in ManifestCall,
           NEW m, m = NormalizeSchemaManifest(call.manifest)
    PROVE  ManifestPlanned(m)
<1> PICK attrs : attrs = ReplacedAttrs(m)
  OBVIOUS
<1> PICK shapes : shapes = ReplacedShapes(m)
  OBVIOUS
<1> PICK G : G = CallPlan(call)
  OBVIOUS
<1>1. G = Install(attrs, shapes, m)
  BY CallGroups DEF SchemaReplacementOperations, ReplacedAttrs, ReplacedShapes
<1>2. InstallGroups(G, attrs, shapes, m)
  BY <1>1, InstallIsGroups
<1>3. DOMAIN G = {1, 2, 3, 4}
  <2>1. PICK w, x, y, z : G = <<w, x, y, z>>
    BY <1>2 DEF InstallGroups
  <2>2. DOMAIN <<w, x, y, z>> = {1, 2, 3, 4}
    OBVIOUS
  <2> QED  BY <2>1, <2>2
<1>4. /\ \A op : op \in G[1] <=> \E a \in attrs : op \in RetractCells(a, SchemaAttr)
      /\ \A op : op \in G[2] <=> \E a \in attrs : op \in DeclareGroup(a, m.declared[a])
      /\ \A op : op \in G[3] <=> \E s \in shapes : op \in RetractCells(s, DefinitionAttr)
      /\ \A op : op \in G[4] <=> \E s \in shapes : op \in DefineShape(s, m.shapes[s])
  BY <1>2 DEF InstallGroups
<1>5. /\ \A i \in DOMAIN G : \A op \in G[i] : \E p \in DOMAIN plan : plan[p] = op
      /\ \A p \in DOMAIN plan : \E i \in DOMAIN G : plan[p] \in G[i]
  BY CallDone
<1>6. /\ \A op \in G[1] : \E p \in DOMAIN plan : plan[p] = op
      /\ \A op \in G[2] : \E p \in DOMAIN plan : plan[p] = op
      /\ \A op \in G[3] : \E p \in DOMAIN plan : plan[p] = op
      /\ \A op \in G[4] : \E p \in DOMAIN plan : plan[p] = op
      /\ \A p \in DOMAIN plan : \/ plan[p] \in G[1] \/ plan[p] \in G[2]
                                \/ plan[p] \in G[3] \/ plan[p] \in G[4]
  BY <1>3, <1>5
<1>7. ASSUME NEW a \in attrs, NEW flag \in SchemaAttr
      PROVE  /\ \E p \in DOMAIN plan : plan[p] = Op("retract", a, flag, None)
             /\ m.declared[a][flag] # "unset" =>
                   \E p \in DOMAIN plan : plan[p] = Op("assert", a, flag, m.declared[a][flag])
  <2>1. Op("retract", a, flag, None) \in G[1]
    BY <1>4, RetractCellsOps
  <2>2. m.declared[a][flag] # "unset" => Op("assert", a, flag, m.declared[a][flag]) \in G[2]
    BY <1>4, DeclareGroupOps
  <2> QED  BY <1>6, <2>1, <2>2
<1>8. ASSUME NEW s \in shapes
      PROVE  /\ \A op \in RetractCells(s, DefinitionAttr) : \E p \in DOMAIN plan : plan[p] = op
             /\ \A op \in DefineShape(s, m.shapes[s]) : \E p \in DOMAIN plan : plan[p] = op
  BY <1>4, <1>6
<1>9. ASSUME NEW op
      PROVE  /\ op \in G[1] => op.op = "retract" /\ op.a \in SchemaAttr /\ op.e \in attrs
             /\ op \in G[2] => /\ op.op = "assert" /\ op.a \in SchemaAttr /\ op.e \in attrs
                               /\ op.v = m.declared[op.e][op.a] /\ op.v # "unset"
             /\ op \in G[3] => op.op = "retract" /\ op.a \in DefinitionAttr /\ op.e \in shapes
             /\ op \in G[4] => /\ op.op = "assert" /\ op.a \in DefinitionAttr /\ op.e \in shapes
                               /\ op \in DefineShape(op.e, m.shapes[op.e])
  <2>1. op \in G[1] => op.op = "retract" /\ op.a \in SchemaAttr /\ op.e \in attrs
    BY <1>4, RetractCellsOps
  <2>2. ASSUME op \in G[2]
        PROVE  /\ op.op = "assert" /\ op.a \in SchemaAttr /\ op.e \in attrs
               /\ op.v = m.declared[op.e][op.a] /\ op.v # "unset"
    <3>1. PICK a \in attrs : op \in DeclareGroup(a, m.declared[a])
      BY <1>4, <2>2
    <3> QED  BY <3>1, DeclareGroupOps
  <2>3. op \in G[3] => op.op = "retract" /\ op.a \in DefinitionAttr /\ op.e \in shapes
    BY <1>4, RetractCellsOps
  <2>4. ASSUME op \in G[4]
        PROVE  /\ op.op = "assert" /\ op.a \in DefinitionAttr /\ op.e \in shapes
               /\ op \in DefineShape(op.e, m.shapes[op.e])
    <3>1. PICK s \in shapes : op \in DefineShape(s, m.shapes[s])
      BY <1>4, <2>4
    <3> QED  BY <3>1, DefineShapeOps
  <2> QED  BY <2>1, <2>2, <2>3, <2>4
<1>10. \A p \in DOMAIN plan :
          \/ plan[p].op = "retract" /\ plan[p].a \in SchemaAttr /\ plan[p].e \in attrs
          \/ /\ plan[p].op = "assert" /\ plan[p].a \in SchemaAttr /\ plan[p].e \in attrs
             /\ plan[p].v = m.declared[plan[p].e][plan[p].a] /\ plan[p].v # "unset"
          \/ plan[p].op = "retract" /\ plan[p].a \in DefinitionAttr /\ plan[p].e \in shapes
          \/ /\ plan[p].op = "assert" /\ plan[p].a \in DefinitionAttr /\ plan[p].e \in shapes
             /\ plan[p] \in DefineShape(plan[p].e, m.shapes[plan[p].e])
  BY <1>6, <1>9
<1> QED  BY <1>7, <1>8, <1>10 DEF ManifestPlanned

LEMMA ManifestInstalled ==
    ASSUME IInv, DiffKeeps, CallPlanned, call # None, Diffed, call \in ManifestCall
    PROVE  ManifestOf(Result) = NormalizeSchemaManifest(call.manifest)
<1> PICK m : m = NormalizeSchemaManifest(call.manifest)
  OBVIOUS
<1> PICK raw : raw = call.manifest
  OBVIOUS
<1>0. /\ phase = "diff" /\ DroppedWhy /\ ActiveStays /\ CellCleared /\ ManifestPlanned(m)
      /\ \A a \in DefinitionAttr : a \in UserAttr /\ a # None /\ a \notin SchemaAttr
      /\ \A a \in SchemaAttr : a \in UserAttr /\ a # None /\ a \notin DefinitionAttr
  <2>1. /\ \A a \in DefinitionAttr : a \in UserAttr /\ a \notin SchemaAttr
        /\ \A a \in SchemaAttr : a \in UserAttr /\ a \notin DefinitionAttr
    BY DEF UserAttr, ShapeAttr, DefinitionAttr, SchemaAttr, Flags
  <2> QED  BY <2>1, ManifestPlan, UserAttrs DEF Diffed, DiffKeeps
<1>1. /\ raw \in Manifest /\ \A s \in Ent : raw.shapes[s] \in ShapeSet
      /\ m = [declared |-> m.declared, shapes |-> m.shapes]
      /\ m.declared = raw.declared /\ m.declared \in [Attr -> [SchemaAttr -> Setting \cup {"unset"}]]
      /\ m.shapes = [s \in Ent |-> Normalized(raw.shapes[s])]
  BY DEF ManifestCall, Manifest, NormalizeSchemaManifest
<1>2. ASSUME NEW a \in Attr, NEW flag \in SchemaAttr
      PROVE  SchemaFor(Result, a, flag) = m.declared[a][flag]
  <2>1. CASE a \in ReplacedAttrs(m)
    <3>1. \A p \in DOMAIN plan : Asserts(p, a, flag) =>
             plan[p].v = m.declared[a][flag] /\ m.declared[a][flag] # "unset"
      BY <1>0 DEF ManifestPlanned, Asserts
    <3>2. /\ \E p \in DOMAIN plan : plan[p] = Op("retract", a, flag, None)
          /\ m.declared[a][flag] # "unset" =>
                \E p \in DOMAIN plan : plan[p] = Op("assert", a, flag, m.declared[a][flag])
      BY <1>0, <2>1 DEF ManifestPlanned
    <3> QED  BY <1>0, <3>1, <3>2, FlagInstalled
  <2>2. CASE a \notin ReplacedAttrs(m)
    <3>1. /\ ManifestOf(facts).declared[a][flag] = "unset" /\ m.declared[a][flag] = "unset"
      BY <2>2 DEF ReplacedAttrs, Declares
    <3>2. SchemaFor(facts, a, flag) = "unset"
      BY <3>1 DEF ManifestOf
    <3>3. \A i \in DOMAIN plan : plan[i].a # None /\ ~(plan[i].e = a /\ plan[i].a = flag)
      BY <1>0, <2>2 DEF ManifestPlanned
    <3>4. Cell(Result, a, flag) = Cell(facts, a, flag)
      BY <1>0, <3>3, ElsewhereSame
    <3> QED  BY <3>1, <3>2, <3>4, NotSystemMany, CellDeclares
  <2> QED  BY <2>1, <2>2
<1>3. ASSUME NEW s \in Ent
      PROVE  Normalized(ReadShape(Result, s)) = m.shapes[s]
  <2> PICK D : D = m.shapes[s]
    OBVIOUS
  <2>0. D \in ShapeSet /\ Normalized(D) = D
    <3>1. raw.shapes[s] \in ShapeSet /\ D = Normalized(raw.shapes[s])
      BY <1>1
    <3>2. D \in ShapeSet
      BY <3>1, NormalizedTyped
    <3> QED  BY <3>1, <3>2 DEF Normalized, ShapeSet, NoShape
  <2>1. CASE s \in ReplacedShapes(m)
    <3>1. \A p \in DOMAIN plan : \A a \in DefinitionAttr :
             Asserts(p, s, a) => plan[p] \in DefineShape(s, D)
      BY <1>0 DEF ManifestPlanned, Asserts
    <3>2. /\ \A op \in RetractCells(s, DefinitionAttr) : \E p \in DOMAIN plan : plan[p] = op
          /\ \A op \in DefineShape(s, D) : \E p \in DOMAIN plan : plan[p] = op
      BY <1>0, <2>1 DEF ManifestPlanned
    <3>3. ReadShape(Result, s) = D
      BY <1>0, <2>0, <3>1, <3>2, DefinitionInstalled
    <3> QED  BY <2>0, <3>3
  <2>2. CASE s \notin ReplacedShapes(m)
    <3>1. ManifestOf(facts).shapes[s] = NoShape /\ D = NoShape
      BY <2>2 DEF ReplacedShapes
    <3>2. Normalized(ReadShape(facts, s)) = NoShape
      BY <3>1 DEF ManifestOf
    <3>3. \A a \in DefinitionAttr : Cell(Result, s, a) = Cell(facts, s, a)
      <4> TAKE a \in DefinitionAttr
      <4>1. \A i \in DOMAIN plan : plan[i].a # None /\ ~(plan[i].e = s /\ plan[i].a = a)
        BY <1>0, <2>2 DEF ManifestPlanned
      <4> QED  BY <1>0, <4>1, ElsewhereSame
    <3>4. ReadShape(Result, s) = ReadShape(facts, s)
      BY <3>3 DEF ReadShape, DefinitionAttr
    <3> QED  BY <3>1, <3>2, <3>4
  <2> QED  BY <2>1, <2>2
<1>4. [a \in Attr |-> [flag \in SchemaAttr |-> SchemaFor(Result, a, flag)]] = m.declared
  BY <1>1, <1>2
<1>5. [s \in Ent |-> Normalized(ReadShape(Result, s))] = m.shapes
  BY <1>1, <1>3
<1> QED  BY <1>1, <1>4, <1>5 DEF ManifestOf

(* A schema call that gets to its commit installs exactly what it asks for,
   whatever the store declared before and in whatever order the operations of a
   group come. *)
THEOREM SchemaCallsInstall == Spec => []SchemaInstalled
<1>1. IInv /\ (RowsApart /\ DiffKeeps) /\ CallPlanned => SchemaInstalled
  <2> SUFFICES ASSUME IInv, RowsApart, DiffKeeps, CallPlanned, Diffed, call # None
               PROVE  SchemaInstalled
    BY DEF SchemaInstalled
  <2>1. call \in DeclareCall \cup ShapeCall \cup ManifestCall
    BY CallDone
  <2>2. CASE call \in DeclareCall
    <3>1. call.kind = "declare"
      BY <2>2 DEF DeclareCall
    <3> QED  BY <2>2, <3>1, DeclareInstalled DEF SchemaInstalled
  <2>3. CASE call \in ShapeCall
    <3>1. call.kind = "shape"
      BY <2>3 DEF ShapeCall
    <3> QED  BY <2>3, <3>1, ShapeInstalled DEF SchemaInstalled
  <2>4. CASE call \in ManifestCall
    <3>1. call.kind = "manifest"
      BY <2>4 DEF ManifestCall
    <3> QED  BY <2>4, <3>1, ManifestInstalled DEF SchemaInstalled
  <2> QED  BY <2>1, <2>2, <2>3, <2>4
<1>2. IInv /\ CallPlanned /\ [Next]_vars => CallPlanned'
  BY NextCallPlanned
<1> QED  BY <1>1, <1>2, InitCallPlanned, Invariance, HistoryApart, PTL DEF Spec
=============================================================================
