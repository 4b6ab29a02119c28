------------------------------ MODULE Entities ------------------------------
(***************************************************************************)
(* How a request's records become facts on identities: planMap and what it *)
(* calls.  A record names its entity, or has a transaction-local token, a  *)
(* lookup on a unique attribute, or nothing, and then the owner of one of  *)
(* its unique values is meant; a field may hold a nested record.  New      *)
(* identities are allocated while planning and compacted once it is known  *)
(* which of them the transaction uses.                                     *)
(*                                                                         *)
(* The call stack of planMap is the variable stack, one step per field.    *)
(* Cells hold any number of values, so that the diff of the plan replaces  *)
(* nothing; Transactor has the whole diff.                                 *)
(***************************************************************************)
EXTENDS Naturals, FiniteSets, SequencesExt

CONSTANTS
    Attr,      \* attribute names
    Name,      \* entity names
    Token,     \* tokens of {"tmp": token}
    Val,       \* values that are not references
    None,      \* an absent name, attribute or owner
    Unique,    \* attributes declared unique, of an integer type
    RefTyped,  \* attributes declared of type ref
    Member,    \* membership in the one shape there is (fgraph/shape)
    Required,  \* the attribute that shape requires
    Records,   \* the records that requests contain, nested ones too
    Requests,  \* the requests a caller may send, each a sequence of items
    MaxTx      \* bound on transactions

ASSUME EntitiesAssumption ==
    /\ Unique \cup RefTyped \cup {Member, Required} \subseteq Attr
    /\ IsFiniteSet(Unique \cup RefTyped)
    /\ Unique \cap RefTyped = {}
    /\ None \notin Attr \cup Name \cup Token \cup Val
    /\ None \notin Nat

(* How an entity is named; what a field holds; what a request consists of. *)
EntitySpec ==
    [kind : {"name"}, x : Name, y : {None}] \cup [kind : {"tmp"}, x : Token, y : {None}]
        \cup [kind : {"lookup"}, x : Attr, y : Val] \cup [kind : {"none"}, x : {None}, y : {None}]
PlainValue == [kind : {"val"}, x : Val] \cup [kind : {"ref"}, x : EntitySpec]
RecordField == [a : Attr, v : PlainValue \cup [kind : {"rec"}, x : Records]]
Item ==
    [op : {"map"}, rec : Records] \cup [op : {"assert"}, e : EntitySpec, a : Attr, v : PlainValue]
        \cup [op : {"retract"}, e : EntitySpec]

ASSUME RequestsAssumption ==
    /\ Records \subseteq [id : EntitySpec, fields : Seq(RecordField)]
    /\ \A r \in DOMAIN Requests : Requests[r] \in Seq(Item)

VARIABLES
    ids,      \* fgraph_ids: the identity of every name in use
    next,     \* next_id
    live,     \* the live facts
    sent,     \* transactions committed
    items,    \* what is still to be planned of the request
    busy,     \* whether a request is being planned
    alloc,    \* the plan's allocator and tempids
    ops,      \* the plan: assertions and retractions in order
    stack,    \* the planMap calls under way, the innermost last
    home,     \* the entity of each record of the request, and the records around it
    uses,     \* the identity a token stood for each time it was met
    moved     \* records whose entity another record or fact turned out to own

store == <<ids, next, live, sent>>
vars == <<store, items, busy, alloc, ops, stack, home, uses, moved>>

Scalar(v) == [tag |-> "int", x |-> v]
RefTo(id) == [tag |-> "ref", x |-> id]
Fact(op) == [e |-> op.e, a |-> op.a, v |-> op.v]

-----------------------------------------------------------------------------
(* The allocator: what a name, a token or a lookup stands for, and the
   allocator afterwards. *)
NoAllocation(first) == [fresh |-> <<>>, tempids |-> <<>>, top |-> first]

Extended(f, n, id) == [m \in DOMAIN f \cup {n} |-> IF m = n THEN id ELSE f[m]]

Anonymous(al) == [alloc |-> [al EXCEPT !.top = @ + 1], e |-> al.top]

Named(al, n) ==
    CASE n \in DOMAIN ids -> [alloc |-> al, e |-> ids[n]]
      [] n \in DOMAIN al.fresh -> [alloc |-> al, e |-> al.fresh[n]]
      [] OTHER -> [alloc |-> [fresh |-> Extended(al.fresh, n, al.top), tempids |-> al.tempids,
                              top |-> al.top + 1],
                   e |-> al.top]

TempEntity(al, t) ==
    IF t \in DOMAIN al.tempids THEN [alloc |-> al, e |-> al.tempids[t]]
    ELSE [alloc |-> [fresh |-> al.fresh, tempids |-> Extended(al.tempids, t, al.top),
                     top |-> al.top + 1],
          e |-> al.top]

(* A unique attribute has one live fact per value at most. *)
UniqueOwner(a, v) ==
    IF \E f \in live : f.a = ids[a] /\ f.v = v
    THEN (CHOOSE f \in live : f.a = ids[a] /\ f.v = v).e
    ELSE None

(* The first planned assertion of the value counts before a live fact. *)
OwnerIn(plan, id, v, owner) ==
    LET at == SelectInSeq(plan, LAMBDA op : op.op = "assert" /\ op.a = id /\ op.v = v)
    IN  IF at # 0 THEN plan[at].e ELSE owner

UniqueOwnerIncludingPlan(a, v) == OwnerIn(ops, ids[a], v, UniqueOwner(a, v))

Resolve(al, spec) ==
    CASE spec.kind = "name" -> Named(al, spec.x)
      [] spec.kind = "tmp" -> TempEntity(al, spec.x)
      [] spec.kind = "lookup" -> [alloc |-> al, e |-> UniqueOwner(spec.x, Scalar(spec.y))]
      [] spec.kind = "none" -> Anonymous(al)

(* A lookup is on a unique attribute. *)
Resolvable(spec) == spec.kind = "lookup" => spec.x \in Unique

Uses(spec, id) == IF spec.kind = "tmp" THEN uses \cup {[t |-> spec.x, id |-> id]} ELSE uses

-----------------------------------------------------------------------------
(* The attributes somebody declared have identities; one transaction made
   them. *)
Declared == Unique \cup RefTyped \cup {Member, Required}

Init ==
    /\ ids = CHOOSE f \in Bijection(Declared, 1..Cardinality(Declared)) : TRUE
    /\ next = Cardinality(Declared) + 2
    /\ live = {} /\ sent = 1
    /\ items = <<>> /\ busy = FALSE
    /\ alloc = NoAllocation(next)
    /\ ops = <<>> /\ stack = <<>> /\ home = <<>> /\ uses = {} /\ moved = {}

Begin(request) ==
    /\ ~busy
    /\ items' = request
    /\ busy' = TRUE
    /\ alloc' = NoAllocation(next)
    /\ UNCHANGED <<store, ops, stack, home, uses, moved>>

Discard ==
    /\ items' = <<>> /\ busy' = FALSE
    /\ alloc' = NoAllocation(next')
    /\ ops' = <<>> /\ stack' = <<>> /\ home' = <<>> /\ uses' = {} /\ moved' = {}

(* Any error: the transaction is rolled back. *)
Abort ==
    /\ busy
    /\ UNCHANGED store
    /\ Discard

-----------------------------------------------------------------------------
(* Records: planMap. *)

(* upsertOwnerForMap: the owners of the record's unique values. *)
UpsertOwners(rec) ==
    {UniqueOwnerIncludingPlan(rec.fields[i].a, Scalar(rec.fields[i].v.x)) :
        i \in {i \in DOMAIN rec.fields : /\ rec.fields[i].a \in Unique
                                         /\ rec.fields[i].v.kind = "val"}} \ {None}

RecordEntity(rec) ==
    LET found == Resolve(alloc, rec.id)
        owners == UpsertOwners(rec)
    IN  CASE rec.id.kind = "none" /\ owners # {} ->
                 [alloc |-> alloc, e |-> CHOOSE o \in owners : TRUE]
          [] found.e = None -> Anonymous(alloc)
          [] OTHER -> found

(* A call of planMap: the entity is settled and the fields are next. *)
Enter(rec) ==
    LET found == RecordEntity(rec)
    IN  /\ Resolvable(rec.id)
        /\ rec.id.kind = "none" => Cardinality(UpsertOwners(rec)) <= 1
        /\ alloc' = found.alloc
        /\ uses' = Uses(rec.id, found.e)
        /\ stack' = Append(stack, [e |-> found.e, pinned |-> rec.id.kind = "name",
                                   start |-> Len(ops), fields |-> rec.fields,
                                   rec |-> Len(home) + 1])
        /\ home' = Append(home, [e |-> found.e, fields |-> rec.fields,
                                 within |-> {stack[i].rec : i \in DOMAIN stack}])

(* A token alone is nothing to write. *)
IdentityOnly(rec) == rec.fields = <<>> /\ rec.id.kind \in {"tmp", "none"}

PlanMap ==
    /\ busy /\ stack = <<>> /\ items # <<>>
    /\ Head(items).op = "map"
    /\ IF IdentityOnly(Head(items).rec)
       THEN UNCHANGED <<alloc, uses, stack, home>>
       ELSE Enter(Head(items).rec)
    /\ items' = Tail(items)
    /\ UNCHANGED <<store, busy, ops, moved>>

Frame == stack[Len(stack)]
Field == Head(Frame.fields)

(* What a value other than a nested record is stored as. *)
Stored(al, v) ==
    IF v.kind = "val" THEN [alloc |-> al, v |-> Scalar(v.x), found |-> TRUE]
    ELSE LET target == Resolve(al, v.x)
         IN  [alloc |-> target.alloc, v |-> RefTo(target.e), found |-> target.e # None]

FitsType(a, v) ==
    /\ a \in RefTyped => v.kind # "val"
    /\ a \in Unique => v.kind = "val"

Assertion(e, a, v, rec) == [op |-> "assert", e |-> e, a |-> a, v |-> v, rec |-> rec]

(* An unpinned record whose unique value has another owner becomes a record of
   that owner, with all that was planned since it began. *)
Moved_OnlyFromHere(owner) == ops

Moved(owner) ==
    [i \in DOMAIN ops |-> IF i > Frame.start THEN [ops[i] EXCEPT !.e = owner] ELSE ops[i]]

Redirected(al, owner) ==
    [al EXCEPT !.tempids = [t \in DOMAIN @ |-> IF @[t] = Frame.e THEN owner ELSE @[t]]]

(* The fields that are left once this one is planned for entity e. *)
Advance(e) ==
    [stack EXCEPT ![Len(stack)] = [e |-> e, pinned |-> @.pinned, start |-> @.start,
                                   fields |-> Tail(@.fields), rec |-> @.rec]]

PlanField ==
    LET attr == Named(alloc, Field.a)
        value == Stored(attr.alloc, Field.v)
        owner == IF Field.a \in Unique THEN UniqueOwnerIncludingPlan(Field.a, value.v) ELSE None
        e == IF owner = None THEN Frame.e ELSE owner
    IN  /\ stack # <<>> /\ Frame.fields # <<>>
        /\ Field.v.kind # "rec"
        /\ FitsType(Field.a, Field.v) /\ value.found
        /\ Field.v.kind = "ref" => Resolvable(Field.v.x)
        /\ e # Frame.e => ~Frame.pinned
        /\ IF e = Frame.e
           THEN /\ ops' = Append(ops, Assertion(e, attr.e, value.v, Frame.rec))
                /\ alloc' = value.alloc
                /\ UNCHANGED <<home, moved>>
           ELSE /\ ops' = Append(Moved(e), Assertion(e, attr.e, value.v, Frame.rec))
                /\ alloc' = Redirected(value.alloc, e)
                /\ home' = [home EXCEPT ![Frame.rec].e = e]
                /\ moved' = moved \cup {[rec |-> Frame.rec, from |-> Frame.e]}
        /\ uses' = IF Field.v.kind = "ref"
                   THEN Uses(Field.v.x, value.v.x) ELSE uses
        /\ stack' = Advance(e)
        /\ UNCHANGED <<store, items, busy>>

(* A nested record: the attribute gets its identity, then planMap is called. *)
EnterChild ==
    /\ stack # <<>> /\ Frame.fields # <<>>
    /\ Field.v.kind = "rec"
    /\ Field.a \in RefTyped
    /\ Enter(Field.v.x)
    /\ UNCHANGED <<store, items, busy, ops, moved>>

(* planMap returns; the caller, if it is planMap, refers to the child. *)
Leave ==
    LET caller == stack[Len(stack) - 1]
    IN  /\ stack # <<>> /\ Frame.fields = <<>>
        /\ IF Len(stack) = 1 THEN stack' = <<>> /\ ops' = ops
           ELSE /\ stack' = [Front(stack) EXCEPT ![Len(stack) - 1].fields = Tail(@)]
                /\ ops' = Append(ops, Assertion(caller.e, ids[Head(caller.fields).a],
                                                RefTo(Frame.e), caller.rec))
        /\ UNCHANGED <<store, items, busy, alloc, home, uses, moved>>

-----------------------------------------------------------------------------
(* Operations. *)
PlanAssert ==
    LET item == Head(items)
        entity == Resolve(alloc, item.e)
        attr == Named(entity.alloc, item.a)
        value == Stored(attr.alloc, item.v)
    IN  /\ busy /\ stack = <<>> /\ items # <<>>
        /\ item.op = "assert"
        /\ Resolvable(item.e)
        /\ IF entity.e = None THEN UNCHANGED <<ops, alloc, uses>>
           ELSE /\ FitsType(item.a, item.v) /\ value.found
                /\ ops' = Append(ops, Assertion(entity.e, attr.e, value.v, 0))
                /\ alloc' = value.alloc
                /\ item.v.kind = "ref" => Resolvable(item.v.x)
                /\ uses' = Uses(item.e, entity.e)
                               \cup (IF item.v.kind = "ref" THEN Uses(item.v.x, value.v.x) ELSE {})
        /\ items' = Tail(items)
        /\ UNCHANGED <<store, busy, stack, home, moved>>

(* A retraction creates nothing: what does not exist is a missing request. *)
Existing(spec) ==
    CASE spec.kind = "name" /\ spec.x \in DOMAIN ids -> ids[spec.x]
      [] spec.kind = "name" /\ spec.x \in DOMAIN alloc.fresh -> alloc.fresh[spec.x]
      [] spec.kind = "tmp" /\ spec.x \in DOMAIN alloc.tempids -> alloc.tempids[spec.x]
      [] spec.kind = "lookup" -> UniqueOwner(spec.x, Scalar(spec.y))
      [] OTHER -> None

PlanRetract ==
    LET item == Head(items)
        e == Existing(item.e)
    IN  /\ busy /\ stack = <<>> /\ items # <<>>
        /\ item.op = "retract"
        /\ Resolvable(item.e)
        /\ ops' = IF e = None THEN ops
                  ELSE Append(ops, [op |-> "retract", e |-> e, a |-> None, v |-> None, rec |-> 0])
        /\ items' = Tail(items)
        /\ UNCHANGED <<store, busy, alloc, stack, home, uses, moved>>

-----------------------------------------------------------------------------
(* The diff, compaction and COMMIT. *)
Retracts(op, f) == op.op = "retract" /\ (f.e = op.e \/ f.v = RefTo(op.e))

(* The facts once the first n operations are applied. *)
After(n) ==
    {f \in live : ~ \E j \in 1..n : Retracts(ops[j], f)}
    \cup {Fact(ops[i]) : i \in {i \in 1..n : /\ ops[i].op = "assert"
                                             /\ ~ \E j \in (i + 1)..n : Retracts(ops[j], Fact(ops[i]))}}

Result == After(Len(ops))

(* A value that comes in new has no other owner then. *)
DiffAccepts ==
    \A i \in DOMAIN ops :
        /\ ops[i].op = "assert" /\ \E a \in Unique : ops[i].a = ids[a]
        /\ Fact(ops[i]) \notin live \cup After(i - 1)
        => ~ \E f \in After(i - 1) : f.a = ops[i].a /\ f.v = ops[i].v /\ f.e # ops[i].e

Mentioned(facts) ==
    {f.e : f \in facts} \cup {f.a : f \in facts}
        \cup {f.v.x : f \in {f \in facts : f.v.tag = "ref"}}

(* The new identities that are used: named, or in a fact that is written. *)
Kept ==
    {alloc.fresh[n] : n \in DOMAIN alloc.fresh}
        \cup {id \in Mentioned(Result \ live) : id >= next}

(* compactPendingAllocations closes the gaps, in order. *)
Remap(id) == IF id \in Kept THEN next + Cardinality({k \in Kept : k < id}) ELSE id

Remapped_NotTheRefs(f) == [f EXCEPT !.e = Remap(@), !.a = Remap(@)]

Remapped(f) ==
    [e |-> Remap(f.e), a |-> Remap(f.a),
     v |-> IF f.v.tag = "ref" THEN RefTo(Remap(f.v.x)) ELSE f.v]

Complies(e, facts) ==
    (\E f \in facts : f.e = e /\ f.a = ids[Member])
        => \E f \in facts : f.e = e /\ f.a = ids[Required]

Touched_FirstOnly(after) == IF ops = <<>> THEN {} ELSE {ops[1].e}

(* validateTouchedShapes takes its entities from the plan; without any, all
   are checked. *)
Touched(after) ==
    IF ops = <<>> THEN Mentioned(after) ELSE {ops[i].e : i \in DOMAIN ops}

Planned == busy /\ stack = <<>> /\ items = <<>>

Commit ==
    LET after == (Result \cap live) \cup {Remapped(f) : f \in Result \ live}
    IN  /\ Planned
        /\ DiffAccepts
        /\ Result # live \/ Kept # {}
        /\ sent < MaxTx
        /\ \A e \in Touched(after) : Complies(e, after)
        /\ live' = after
        /\ ids' = [n \in DOMAIN ids \cup DOMAIN alloc.fresh |->
                        IF n \in DOMAIN ids THEN ids[n] ELSE Remap(alloc.fresh[n])]
        /\ next' = next + Cardinality(Kept) + 1
        /\ sent' = sent + 1
        /\ Discard

Noop ==
    /\ Planned
    /\ DiffAccepts
    /\ Result = live /\ Kept = {}
    /\ UNCHANGED store
    /\ Discard

Next ==
    \/ \E r \in DOMAIN Requests : Begin(Requests[r])
    \/ PlanMap
    \/ PlanField
    \/ EnterChild
    \/ Leave
    \/ PlanAssert
    \/ PlanRetract
    \/ Commit
    \/ Noop
    \/ Abort

Spec == Init /\ [][Next]_vars

-----------------------------------------------------------------------------
(* Properties.                                                             *)

Value == {Scalar(v) : v \in Val} \cup {RefTo(id) : id \in 1..(alloc.top - 1)}

(* Shapes of the state: facts are on identities below next_id, what is planned
   is on identities below the allocator's. *)
TypeOK ==
    /\ DOMAIN ids \subseteq Attr \cup Name
    /\ \A n \in DOMAIN ids : ids[n] \in 1..(next - 1)
    /\ Mentioned(live) \subseteq 1..(next - 1)
    /\ alloc.top >= next
    /\ \A i \in DOMAIN ops : ops[i].e < alloc.top /\ (ops[i].op = "assert" => ops[i].v \in Value)
    /\ \A i \in DOMAIN stack : stack[i].rec \in DOMAIN home /\ stack[i].start <= Len(ops)

(* What a record says ends up on the record's entity, even if the record, or
   one it is nested in, turns out to be another entity half way through
   (spec.md:199: "A record uses optional `id` plus attribute keys").  This is
   false of records nested in a redirected one. *)
RecordWhole == \A i \in DOMAIN ops : ops[i].rec # 0 => ops[i].e = home[ops[i].rec].e

(* The same, unless the record is nested in one that turned out to be another. *)
RecordWholeUnlessNested ==
    \A i \in DOMAIN ops :
        /\ ops[i].rec # 0
        /\ \A m \in moved : m.rec \notin home[ops[i].rec].within
        => ops[i].e = home[ops[i].rec].e

(* A token stands for one entity throughout the request, unless a record of
   that entity turned out to be another. *)
TokenOneEntity ==
    \A use \in uses :
        use.id = alloc.tempids[use.t] \/ \E m \in moved : m.from = use.id

(* While a request is planned, its identities are in range and each record and
   token stands for one entity. *)
PlanSound == TypeOK /\ RecordWholeUnlessNested /\ TokenOneEntity

(* Records and the unique values they give. *)
Gives(r, a, v) ==
    \E i \in DOMAIN home[r].fields :
        home[r].fields[i].a = a /\ home[r].fields[i].v = [kind |-> "val", x |-> v]

NestedInMoved(r) == \E m \in moved : m.rec \in home[r].within
Settled(r) == ~NestedInMoved(r) /\ \A m \in moved : m.rec # r

(* Who has the value before the request or is given it, and loses it again. *)
OwnerRetracted(a, v) ==
    \E j \in DOMAIN ops : /\ ops[j].op = "retract"
                          /\ \E f \in live \cup {Fact(ops[i]) : i \in DOMAIN ops} :
                                f.e = ops[j].e /\ f.a = ids[a] /\ f.v = Scalar(v)

OneLiveOwner(a, v) ==
    \A f, g \in live :
        f.a = ids[a] /\ g.a = ids[a] /\ f.v = Scalar(v) /\ g.v = Scalar(v) => f.e = g.e

(* Records that give one unique value, by whatever names and tokens and in
   whatever order, are one entity, unless one of them turned out half way
   through to be yet another. *)
RecordsMeet ==
    Planned =>
        \A r, s \in DOMAIN home : \A a \in Unique, v \in Val :
            Gives(r, a, v) /\ Gives(s, a, v) /\ Settled(r) /\ Settled(s)
                => home[r].e = home[s].e

(* Every record that gives a unique value is about the entity that owns the
   value once the plan is applied, even one that was moved to another entity
   after it gave the value, unless the request also retracts an owner. *)
RecordOwnsValue ==
    Planned /\ DiffAccepts =>
        \A r \in DOMAIN home : \A a \in Unique, v \in Val :
            /\ Gives(r, a, v) /\ ~NestedInMoved(r)
            /\ ~OwnerRetracted(a, v) /\ OneLiveOwner(a, v)
            => \A f \in Result : f.a = ids[a] /\ f.v = Scalar(v) => f.e = home[r].e

(* A unique value stands for one entity: for the records that give it while the
   request is planned, and for whoever asks once the plan is applied. *)
OwnerOfValue == RecordsMeet /\ RecordOwnsValue

(* Facts as a reader sees them: identities by their names. *)
Rendered(facts, names) ==
    LET named(id) == {n \in DOMAIN names : names[n] = id}
    IN  {[e |-> named(f.e), a |-> named(f.a),
          v |-> IF f.v.tag = "ref" THEN RefTo(named(f.v.x)) ELSE f.v] : f \in facts}

PlannedNames ==
    [n \in DOMAIN ids \cup DOMAIN alloc.fresh |-> IF n \in DOMAIN ids THEN ids[n] ELSE alloc.fresh[n]]

(* Closing the gaps between identities changes no fact, as far as names tell. *)
StoredUnderNames ==
    [][sent' > sent => Rendered(live', ids') = Rendered(Result, PlannedNames)]_vars

(* A transaction leaves no identity behind that nothing mentions, whatever the
   plan allocated and then canceled; the last one is the transaction's own. *)
NoOrphans ==
    [][\A id \in next..(next' - 2) :
          id \in Mentioned(live') \cup {ids'[n] : n \in DOMAIN ids'}]_vars

(* Compaction is faithful: it changes no fact and leaves no gap. *)
CompactionFaithful == StoredUnderNames /\ NoOrphans

(* An entity that is retracted takes the references to it along. *)
LosesRequired(e) ==
    \E f \in live : /\ f.e = e /\ f.a = ids[Required]
                    /\ \E i \in DOMAIN ops : ops[i].op = "retract" /\ f.v = RefTo(ops[i].e)

(* Members have what their shape requires, if no identity was moved; of those
   whose required value was a reference that went, only the ones the plan
   names. *)
MembersComply ==
    [][/\ sent' > sent
       /\ \A id \in Kept : Remap(id) = id
       /\ \A e \in Mentioned(live) : Complies(e, live)
       => \A e \in Mentioned(live') :
             (LosesRequired(e) /\ \A i \in DOMAIN ops : ops[i].e # e) \/ Complies(e, live')]_vars

(* The same whether identities were moved or not (spec.md:272: transactions
   fail "instead of committing an invalid final state").  This is false. *)
MovedMembersComply ==
    [][/\ sent' > sent
       /\ \A e \in Mentioned(live) : Complies(e, live)
       => \A e \in Mentioned(live') :
             (LosesRequired(e) /\ \A i \in DOMAIN ops : ops[i].e # e) \/ Complies(e, live')]_vars
=============================================================================
