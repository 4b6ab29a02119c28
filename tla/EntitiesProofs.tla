--------------------------- MODULE EntitiesProofs ---------------------------
(***************************************************************************)
(* What a plan is while a request is being turned into facts, for every    *)
(* request and any depth of nesting: identities stay in range, what a      *)
(* record says is on the record's entity, tokens stand for one entity, and *)
(* records that meet on a unique value are one.                            *)
(***************************************************************************)
EXTENDS Entities, FiniteSetTheorems, FunctionTheorems, SequenceTheorems, WellFoundedInduction,
        TLAPS

-----------------------------------------------------------------------------
(* The inductive invariant. *)

Values(n) == {Scalar(v) : v \in Val} \cup {RefTo(id) : id \in 1..(n - 1)}
Facts(n) == [e : 1..(n - 1), a : 1..(n - 1), v : Values(n)]

StoreOK ==
    /\ next \in Nat /\ next > 0
    /\ Declared \subseteq DOMAIN ids /\ DOMAIN ids \subseteq Attr \cup Name
    /\ ids \in [DOMAIN ids -> 1..(next - 1)]
    /\ \A m, n \in DOMAIN ids : ids[m] = ids[n] => m = n
    /\ live \subseteq Facts(next)

(* An allocator gives new ids to new names, and any id to a token. *)
AllocatorOK(al) ==
    /\ al = [fresh |-> al.fresh, tempids |-> al.tempids, top |-> al.top]
    /\ al.top \in Nat /\ al.top >= next
    /\ DOMAIN al.fresh \subseteq (Attr \cup Name) \ DOMAIN ids
    /\ al.fresh \in [DOMAIN al.fresh -> next..(al.top - 1)]
    /\ \A m, n \in DOMAIN al.fresh : al.fresh[m] = al.fresh[n] => m = n
    /\ DOMAIN al.tempids \subseteq Token
    /\ al.tempids \in [DOMAIN al.tempids -> 1..(al.top - 1)]

Operations(top, records) ==
    [op : {"assert"}, e : 1..(top - 1), a : 1..(top - 1), v : Values(top), rec : 0..records]
        \cup [op : {"retract"}, e : 1..(top - 1), a : {None}, v : {None}, rec : {0}]
Frames(top, length, records) ==
    [e : 1..(top - 1), pinned : BOOLEAN, start : 0..length, fields : Seq(RecordField), rec : 1..records]
Homes(top) == [e : 1..(top - 1), fields : Seq(RecordField), within : SUBSET Nat]

PlanOK ==
    /\ items \in Seq(Item)
    /\ busy \in BOOLEAN
    /\ AllocatorOK(alloc)
    /\ ops \in Seq(Operations(alloc.top, Len(home)))
    /\ stack \in Seq(Frames(alloc.top, Len(ops), Len(home)))
    /\ home \in Seq(Homes(alloc.top))
    /\ uses \subseteq [t : DOMAIN alloc.tempids, id : Nat]
    /\ moved \subseteq [rec : 1..Len(home), from : Nat]
    /\ ~busy => ops = <<>> /\ stack = <<>> /\ home = <<>> /\ uses = {} /\ moved = {}

(* The calls under way are the records around the innermost one. *)
Nesting ==
    /\ \A r \in DOMAIN home : home[r].within \subseteq 1..(r - 1)
    /\ \A k \in DOMAIN stack :
          /\ stack[k].e = home[stack[k].rec].e
          /\ home[stack[k].rec].within = {stack[j].rec : j \in 1..(k - 1)}

(* What was planned since a call began is what its record and the records
   nested in it say, and nothing else. *)
Spans ==
    \A i \in DOMAIN ops : ops[i].rec # 0 =>
        \A k \in DOMAIN stack :
            i > stack[k].start <=> \/ stack[k].rec = ops[i].rec
                                   \/ stack[k].rec \in home[ops[i].rec].within

(* A call that is not the innermost is at a field with a nested record. *)
Waiting ==
    \A k \in 1..(Len(stack) - 1) : stack[k].fields # <<>> /\ Head(stack[k].fields).a \in RefTyped

(* The fields that are left are the last ones of the record. *)
Pending(k) == Len(home[stack[k].rec].fields) - Len(stack[k].fields)
FieldsLeft ==
    \A k \in DOMAIN stack :
        /\ Len(stack[k].fields) <= Len(home[stack[k].rec].fields)
        /\ \A i \in DOMAIN stack[k].fields :
              stack[k].fields[i] = home[stack[k].rec].fields[Pending(k) + i]

(* A record's unique values are planned, but for the fields that are left. *)
PlannedValue(r, i) ==
    \E j \in DOMAIN ops : /\ ops[j].op = "assert" /\ ops[j].rec = r
                          /\ ops[j].a = ids[home[r].fields[i].a]
                          /\ ops[j].v = Scalar(home[r].fields[i].v.x)
Given ==
    \A r \in DOMAIN home : \A i \in DOMAIN home[r].fields :
        home[r].fields[i].a \in Unique =>
            \/ PlannedValue(r, i)
            \/ \E k \in DOMAIN stack : stack[k].rec = r /\ i > Pending(k)

(* The first planned assertion of a unique value has the entity of every
   settled record that gives it. *)
FirstOwns ==
    \A i \in DOMAIN ops : \A a \in Unique :
        ops[i].op = "assert" /\ ops[i].a = ids[a] /\ ops[i].rec # 0 /\ Settled(ops[i].rec)
            => UniqueOwnerIncludingPlan(a, ops[i].v) = ops[i].e

PlanInv ==
    /\ StoreOK /\ PlanOK
    /\ Nesting /\ Spans /\ RecordWholeUnlessNested /\ TokenOneEntity
    /\ Waiting /\ FieldsLeft /\ Given /\ FirstOwns

-----------------------------------------------------------------------------
(* LEMMAS about the allocator. *)

(* What one use of the allocator leaves: ids go up and tokens keep theirs. *)
Grown(al, bl) ==
    /\ AllocatorOK(bl)
    /\ bl.top >= al.top
    /\ \A t \in DOMAIN al.tempids : t \in DOMAIN bl.tempids /\ bl.tempids[t] = al.tempids[t]

LEMMA GrownTwice ==
    ASSUME NEW al, NEW bl, NEW cl, AllocatorOK(al), Grown(al, bl), Grown(bl, cl)
    PROVE  Grown(al, cl)
  BY DEF Grown, AllocatorOK

LEMMA GrownSelf ==
    ASSUME NEW al, AllocatorOK(al)
    PROVE  Grown(al, al)
  BY DEF Grown, AllocatorOK

LEMMA AnonymousOK ==
    ASSUME StoreOK, NEW al, AllocatorOK(al)
    PROVE  /\ Grown(al, Anonymous(al).alloc)
           /\ Anonymous(al).e \in 1..(Anonymous(al).alloc.top - 1)
  <1> DEFINE bl == [al EXCEPT !.top = @ + 1]
  <1>1. bl = [fresh |-> al.fresh, tempids |-> al.tempids, top |-> al.top + 1]
    BY DEF AllocatorOK
  <1>2. /\ bl.fresh = al.fresh /\ bl.tempids = al.tempids /\ bl.top = al.top + 1
    BY <1>1
  <1>3. Anonymous(al).alloc = bl /\ Anonymous(al).e = al.top
    BY DEF Anonymous
  <1> HIDE DEF bl
  <1>4. next..(al.top - 1) \subseteq next..(bl.top - 1) /\ 1..(al.top - 1) \subseteq 1..(bl.top - 1)
    BY <1>2 DEF AllocatorOK, StoreOK
  <1>5. AllocatorOK(bl)
    BY <1>1, <1>2, <1>4 DEF AllocatorOK, StoreOK
  <1> QED
    BY <1>2, <1>3, <1>5 DEF Grown, AllocatorOK, StoreOK

(* A name keeps its id, or gets one that no name has. *)
LEMMA NamedOK ==
    ASSUME StoreOK, NEW al, AllocatorOK(al), NEW n \in Attr \cup Name
    PROVE  /\ Grown(al, Named(al, n).alloc)
           /\ Named(al, n).e \in 1..(Named(al, n).alloc.top - 1)
           /\ n \in DOMAIN ids => Named(al, n) = [alloc |-> al, e |-> ids[n]]
           /\ n \notin DOMAIN ids => Named(al, n).e >= next
  <1>1. CASE n \in DOMAIN ids
    <2>1. Named(al, n) = [alloc |-> al, e |-> ids[n]]
      BY <1>1 DEF Named, AllocatorOK
    <2>2. Named(al, n).alloc = al /\ Named(al, n).e = ids[n]
      BY <2>1
    <2>3. ids[n] \in 1..(al.top - 1)
      BY <1>1 DEF StoreOK, AllocatorOK
    <2> QED
      BY <1>1, <2>1, <2>2, <2>3, GrownSelf
  <1>2. CASE n \notin DOMAIN ids /\ n \in DOMAIN al.fresh
    <2>1. Named(al, n) = [alloc |-> al, e |-> al.fresh[n]]
      BY <1>2 DEF Named
    <2>2. Named(al, n).alloc = al /\ Named(al, n).e = al.fresh[n]
      BY <2>1
    <2>3. al.fresh[n] \in 1..(al.top - 1) /\ al.fresh[n] >= next
      BY <1>2 DEF StoreOK, AllocatorOK
    <2> QED
      BY <1>2, <2>1, <2>2, <2>3, GrownSelf
  <1>3. CASE n \notin DOMAIN ids /\ n \notin DOMAIN al.fresh
    <2> DEFINE bl == [fresh |-> Extended(al.fresh, n, al.top), tempids |-> al.tempids,
                      top |-> al.top + 1]
    <2>1. Named(al, n) = [alloc |-> bl, e |-> al.top]
      BY <1>3 DEF Named
    <2>2. Named(al, n).alloc = bl /\ Named(al, n).e = al.top
      BY <2>1
    <2>3. bl = [fresh |-> Extended(al.fresh, n, al.top), tempids |-> al.tempids, top |-> al.top + 1]
      BY DEF AllocatorOK
    <2>4. /\ bl.fresh = Extended(al.fresh, n, al.top) /\ bl.tempids = al.tempids
          /\ bl.top = al.top + 1
      BY <2>3
    <2> HIDE DEF bl
    <2>5. next..(al.top - 1) \subseteq next..(bl.top - 1) /\ 1..(al.top - 1) \subseteq 1..(bl.top - 1)
      BY <2>4 DEF AllocatorOK, StoreOK
    <2>6. /\ DOMAIN bl.fresh = DOMAIN al.fresh \cup {n}
          /\ bl.fresh[n] = al.top
          /\ \A m \in DOMAIN al.fresh : bl.fresh[m] = al.fresh[m]
          /\ bl.fresh = [m \in DOMAIN bl.fresh |-> bl.fresh[m]]
      BY <2>4, <1>3 DEF Extended
    <2>7. \A m \in DOMAIN al.fresh : al.fresh[m] \in next..(al.top - 1)
      BY DEF AllocatorOK
    <2>8. \A m \in DOMAIN bl.fresh : bl.fresh[m] \in next..(bl.top - 1)
      BY <2>4, <2>6, <2>7 DEF AllocatorOK, StoreOK
    <2>8b. bl.fresh \in [DOMAIN bl.fresh -> next..(bl.top - 1)]
      BY <2>6, <2>8
    <2>9. \A m, k \in DOMAIN bl.fresh : bl.fresh[m] = bl.fresh[k] => m = k
      BY <2>6, <2>7 DEF AllocatorOK, StoreOK
    <2>10. DOMAIN bl.fresh \subseteq (Attr \cup Name) \ DOMAIN ids
      BY <2>6, <1>3 DEF AllocatorOK
    <2>11. bl.tempids \in [DOMAIN bl.tempids -> 1..(bl.top - 1)] /\ DOMAIN bl.tempids \subseteq Token
      BY <2>4, <2>5 DEF AllocatorOK
    <2>12. AllocatorOK(bl)
      BY <2>3, <2>4, <2>8b, <2>9, <2>10, <2>11 DEF AllocatorOK, StoreOK
    <2> QED
      BY <1>3, <2>2, <2>4, <2>12 DEF Grown, AllocatorOK, StoreOK
  <1> QED
    BY <1>1, <1>2, <1>3

LEMMA TempOK ==
    ASSUME StoreOK, NEW al, AllocatorOK(al), NEW t \in Token
    PROVE  /\ Grown(al, TempEntity(al, t).alloc)
           /\ TempEntity(al, t).e \in 1..(TempEntity(al, t).alloc.top - 1)
           /\ t \in DOMAIN TempEntity(al, t).alloc.tempids
           /\ TempEntity(al, t).e = TempEntity(al, t).alloc.tempids[t]
  <1>1. CASE t \in DOMAIN al.tempids
    <2>1. TempEntity(al, t) = [alloc |-> al, e |-> al.tempids[t]]
      BY <1>1 DEF TempEntity
    <2>2. TempEntity(al, t).alloc = al /\ TempEntity(al, t).e = al.tempids[t]
      BY <2>1
    <2>3. al.tempids[t] \in 1..(al.top - 1)
      BY <1>1 DEF AllocatorOK
    <2> QED
      BY <1>1, <2>2, <2>3, GrownSelf
  <1>2. CASE t \notin DOMAIN al.tempids
    <2> DEFINE bl == [fresh |-> al.fresh, tempids |-> Extended(al.tempids, t, al.top),
                      top |-> al.top + 1]
    <2>1. TempEntity(al, t) = [alloc |-> bl, e |-> al.top]
      BY <1>2 DEF TempEntity
    <2>2. TempEntity(al, t).alloc = bl /\ TempEntity(al, t).e = al.top
      BY <2>1
    <2>3. bl = [fresh |-> al.fresh, tempids |-> Extended(al.tempids, t, al.top), top |-> al.top + 1]
      BY DEF AllocatorOK
    <2>4. /\ bl.tempids = Extended(al.tempids, t, al.top) /\ bl.fresh = al.fresh
          /\ bl.top = al.top + 1
      BY <2>3
    <2> HIDE DEF bl
    <2>5. next..(al.top - 1) \subseteq next..(bl.top - 1) /\ 1..(al.top - 1) \subseteq 1..(bl.top - 1)
      BY <2>4 DEF AllocatorOK, StoreOK
    <2>6. /\ DOMAIN bl.tempids = DOMAIN al.tempids \cup {t}
          /\ bl.tempids[t] = al.top
          /\ \A m \in DOMAIN al.tempids : bl.tempids[m] = al.tempids[m]
          /\ bl.tempids = [m \in DOMAIN bl.tempids |-> bl.tempids[m]]
      BY <2>4, <1>2 DEF Extended
    <2>7. \A m \in DOMAIN al.tempids : al.tempids[m] \in 1..(al.top - 1)
      BY DEF AllocatorOK
    <2>8. \A m \in DOMAIN bl.tempids : bl.tempids[m] \in 1..(bl.top - 1)
      BY <2>4, <2>6, <2>7 DEF AllocatorOK, StoreOK
    <2>9. bl.tempids \in [DOMAIN bl.tempids -> 1..(bl.top - 1)]
      BY <2>6, <2>8
    <2>10. bl.fresh \in [DOMAIN bl.fresh -> next..(bl.top - 1)]
      BY <2>4, <2>5 DEF AllocatorOK
    <2>11. AllocatorOK(bl)
      BY <2>3, <2>4, <2>6, <2>9, <2>10 DEF AllocatorOK, StoreOK
    <2> QED
      BY <1>2, <2>2, <2>4, <2>6, <2>11 DEF Grown, AllocatorOK, StoreOK
  <1> QED
    BY <1>1, <1>2

(* What an entity is called resolves to an id in range, or to nothing. *)
LEMMA UniqueOwnerType ==
    ASSUME StoreOK, NEW a \in Unique, NEW v
    PROVE  UniqueOwner(a, v) \in 1..(next - 1) \cup {None}
  <1>1. CASE \E f \in live : f.a = ids[a] /\ f.v = v
    <2>1. PICK g : g = CHOOSE f \in live : f.a = ids[a] /\ f.v = v
      OBVIOUS
    <2>2. g \in live
      BY <1>1, <2>1
    <2>3. g.e \in 1..(next - 1)
      BY <2>2 DEF StoreOK, Facts
    <2> QED
      BY <1>1, <2>1, <2>3 DEF UniqueOwner
  <1>2. CASE ~ \E f \in live : f.a = ids[a] /\ f.v = v
    BY <1>2 DEF UniqueOwner
  <1> QED
    BY <1>1, <1>2

Found(al, spec, r) ==
    /\ Grown(al, r.alloc)
    /\ r.e = None => spec.kind = "lookup" /\ r.alloc = al
    /\ r.e # None => r.e \in 1..(r.alloc.top - 1)
    /\ spec.kind = "tmp" => spec.x \in DOMAIN r.alloc.tempids /\ r.e = r.alloc.tempids[spec.x]

LEMMA ResolveOK ==
    ASSUME StoreOK, NEW al, AllocatorOK(al), NEW spec \in EntitySpec, Resolvable(spec)
    PROVE  Found(al, spec, Resolve(al, spec))
  <1>0. \A x \in Nat : x # None
    BY EntitiesAssumption
  <1>1. CASE spec.kind = "name"
    <2>1. spec.x \in Name
      BY <1>1 DEF EntitySpec
    <2>2. Resolve(al, spec) = Named(al, spec.x)
      BY <1>1 DEF Resolve
    <2>3. /\ Grown(al, Named(al, spec.x).alloc)
          /\ Named(al, spec.x).e \in 1..(Named(al, spec.x).alloc.top - 1)
      BY <2>1, NamedOK
    <2>4. Named(al, spec.x).e \in Nat
      BY <2>3 DEF Grown, AllocatorOK
    <2> QED
      BY <1>0, <1>1, <2>2, <2>3, <2>4 DEF Found
  <1>2. CASE spec.kind = "tmp"
    <2>1. spec.x \in Token
      BY <1>2 DEF EntitySpec
    <2>2. Resolve(al, spec) = TempEntity(al, spec.x)
      BY <1>2 DEF Resolve
    <2>3. /\ Grown(al, TempEntity(al, spec.x).alloc)
          /\ TempEntity(al, spec.x).e \in 1..(TempEntity(al, spec.x).alloc.top - 1)
          /\ spec.x \in DOMAIN TempEntity(al, spec.x).alloc.tempids
          /\ TempEntity(al, spec.x).e = TempEntity(al, spec.x).alloc.tempids[spec.x]
      BY <2>1, TempOK
    <2>4. TempEntity(al, spec.x).e \in Nat
      BY <2>3 DEF Grown, AllocatorOK
    <2> QED
      BY <1>0, <1>2, <2>2, <2>3, <2>4 DEF Found
  <1>3. CASE spec.kind = "lookup"
    <2> DEFINE owner == UniqueOwner(spec.x, Scalar(spec.y))
    <2>1. owner \in 1..(next - 1) \cup {None}
      BY <1>3, UniqueOwnerType DEF Resolvable
    <2>2. Resolve(al, spec) = [alloc |-> al, e |-> owner]
      BY <1>3 DEF Resolve
    <2>3. Resolve(al, spec).alloc = al /\ Resolve(al, spec).e = owner
      BY <2>2
    <2>4. Grown(al, al)
      BY GrownSelf
    <2> HIDE DEF owner
    <2>5. owner # None => owner \in 1..(al.top - 1)
      BY <2>1 DEF AllocatorOK, StoreOK
    <2> QED
      BY <1>3, <2>3, <2>4, <2>5 DEF Found
  <1>4. CASE spec.kind = "none"
    <2>1. Resolve(al, spec) = Anonymous(al)
      BY <1>4 DEF Resolve
    <2>2. /\ Grown(al, Anonymous(al).alloc)
          /\ Anonymous(al).e \in 1..(Anonymous(al).alloc.top - 1)
      BY AnonymousOK
    <2>3. Anonymous(al).e \in Nat
      BY <2>2 DEF Grown, AllocatorOK
    <2> QED
      BY <1>0, <1>4, <2>1, <2>2, <2>3 DEF Found
  <1> QED
    BY <1>1, <1>2, <1>3, <1>4 DEF EntitySpec

(* What a field or an operation stores. *)
StoredAs(al, v, r) ==
    /\ Grown(al, r.alloc)
    /\ r.found => r.v \in Values(r.alloc.top)
    /\ v.kind = "val" => r = [alloc |-> al, v |-> Scalar(v.x), found |-> TRUE]
    /\ v.kind = "ref" => r.v = RefTo(r.v.x)
    /\ v.kind = "ref" /\ v.x.kind = "tmp" =>
          v.x.x \in DOMAIN r.alloc.tempids /\ r.v.x = r.alloc.tempids[v.x.x]

LEMMA StoredOK ==
    ASSUME StoreOK, NEW al, AllocatorOK(al), NEW v \in PlainValue,
           v.kind = "ref" => Resolvable(v.x)
    PROVE  StoredAs(al, v, Stored(al, v))
  <1>1. CASE v.kind = "val"
    <2>1. v.x \in Val
      BY <1>1 DEF PlainValue
    <2>2. Stored(al, v) = [alloc |-> al, v |-> Scalar(v.x), found |-> TRUE]
      BY <1>1 DEF Stored
    <2>3. Stored(al, v).alloc = al /\ Stored(al, v).v = Scalar(v.x)
      BY <2>2
    <2>4. Scalar(v.x) \in Values(al.top)
      BY <2>1 DEF Values
    <2> QED
      BY <1>1, <2>2, <2>3, <2>4, GrownSelf DEF StoredAs
  <1>2. CASE v.kind = "ref"
    <2> DEFINE target == Resolve(al, v.x)
    <2>1. v.x \in EntitySpec
      BY <1>2 DEF PlainValue
    <2>2. Found(al, v.x, target)
      BY <1>2, <2>1, ResolveOK
    <2>3. Stored(al, v) = [alloc |-> target.alloc, v |-> RefTo(target.e), found |-> target.e # None]
      BY <1>2 DEF Stored
    <2> HIDE DEF target
    <2>4. /\ Stored(al, v).alloc = target.alloc /\ Stored(al, v).v = RefTo(target.e)
          /\ Stored(al, v).found = (target.e # None)
      BY <2>3
    <2>5. RefTo(target.e).x = target.e
      BY DEF RefTo
    <2>6. Stored(al, v).found => RefTo(target.e) \in Values(target.alloc.top)
      BY <2>2, <2>4 DEF Found, Values
    <2> QED
      BY <1>2, <2>2, <2>4, <2>5, <2>6 DEF StoredAs, Found
  <1> QED
    BY <1>1, <1>2 DEF PlainValue

-----------------------------------------------------------------------------
(* What is in range stays in range when the ranges grow. *)

LEMMA ValuesGrow ==
    ASSUME NEW t \in Nat, NEW u \in Nat, t <= u
    PROVE  Values(t) \subseteq Values(u)
  <1>1. 1..(t - 1) \subseteq 1..(u - 1)
    OBVIOUS
  <1> QED
    BY <1>1 DEF Values

LEMMA FactsGrow ==
    ASSUME NEW t \in Nat, NEW u \in Nat, t <= u
    PROVE  Facts(t) \subseteq Facts(u)
  <1>1. 1..(t - 1) \subseteq 1..(u - 1) /\ Values(t) \subseteq Values(u)
    BY ValuesGrow
  <1> QED
    BY <1>1 DEF Facts

LEMMA OperationsGrow ==
    ASSUME NEW t \in Nat, NEW u \in Nat, t <= u, NEW m \in Nat, NEW n \in Nat, m <= n
    PROVE  Seq(Operations(t, m)) \subseteq Seq(Operations(u, n))
  <1>1. /\ 1..(t - 1) \subseteq 1..(u - 1) /\ Values(t) \subseteq Values(u)
        /\ 0..m \subseteq 0..n
    BY ValuesGrow
  <1>2. Operations(t, m) \subseteq Operations(u, n)
    BY <1>1 DEF Operations
  <1> QED
    BY <1>2, SeqMonotonic

LEMMA FramesGrow ==
    ASSUME NEW t \in Nat, NEW u \in Nat, t <= u, NEW m \in Nat, NEW n \in Nat, m <= n,
           NEW k \in Nat, NEW l \in Nat, k <= l
    PROVE  Seq(Frames(t, k, m)) \subseteq Seq(Frames(u, l, n))
  <1>1. 1..(t - 1) \subseteq 1..(u - 1) /\ 0..k \subseteq 0..l /\ 1..m \subseteq 1..n
    OBVIOUS
  <1>2. Frames(t, k, m) \subseteq Frames(u, l, n)
    BY <1>1 DEF Frames
  <1> QED
    BY <1>2, SeqMonotonic

LEMMA HomesGrow ==
    ASSUME NEW t \in Nat, NEW u \in Nat, t <= u
    PROVE  Seq(Homes(t)) \subseteq Seq(Homes(u))
  <1>1. 1..(t - 1) \subseteq 1..(u - 1)
    OBVIOUS
  <1>2. Homes(t) \subseteq Homes(u)
    BY <1>1 DEF Homes
  <1> QED
    BY <1>2, SeqMonotonic

LEMMA FunctionIsSeq ==
    ASSUME NEW n \in Nat, NEW X, NEW f \in [1..n -> X]
    PROVE  f \in Seq(X) /\ Len(f) = n
  <1>1. f \in Seq(X)
    BY IsASeq
  <1>2. DOMAIN f = 1..n
    OBVIOUS
  <1> QED
    BY <1>1, <1>2, LenProperties

(* The parts of what the sequences hold. *)
LEMMA OperationParts ==
    ASSUME NEW t, NEW m, NEW s \in Seq(Operations(t, m)), NEW i \in 1..Len(s)
    PROVE  /\ s[i] \in Operations(t, m)
           /\ s[i].op \in {"assert", "retract"} /\ s[i].e \in 1..(t - 1)
           /\ s[i].op = "assert" => s[i].a \in 1..(t - 1) /\ s[i].v \in Values(t) /\ s[i].rec \in 0..m
           /\ s[i].op = "retract" => s[i].rec = 0
  <1>1. s[i] \in Operations(t, m)
    BY ElementOfSeq
  <1> QED
    BY <1>1 DEF Operations

LEMMA FrameParts ==
    ASSUME NEW t, NEW k, NEW m, NEW s \in Seq(Frames(t, k, m)), NEW i \in 1..Len(s)
    PROVE  /\ s[i] \in Frames(t, k, m)
           /\ s[i].e \in 1..(t - 1) /\ s[i].pinned \in BOOLEAN /\ s[i].start \in 0..k
           /\ s[i].fields \in Seq(RecordField) /\ s[i].rec \in 1..m
  <1>1. s[i] \in Frames(t, k, m)
    BY ElementOfSeq
  <1> QED
    BY <1>1 DEF Frames

LEMMA HomeParts ==
    ASSUME NEW t, NEW s \in Seq(Homes(t)), NEW i \in 1..Len(s)
    PROVE  /\ s[i] \in Homes(t)
           /\ s[i].e \in 1..(t - 1) /\ s[i].fields \in Seq(RecordField) /\ s[i].within \subseteq Nat
  <1>1. s[i] \in Homes(t)
    BY ElementOfSeq
  <1> QED
    BY <1>1 DEF Homes

-----------------------------------------------------------------------------
(* The owner of a unique value in a plan. *)

Asserts(op, ida, v) == op.op = "assert" /\ op.a = ida /\ op.v = v

LEMMA LeastNumber ==
    ASSUME NEW T \in SUBSET Nat, T # {}
    PROVE  \E n \in T : \A m \in T : n <= m
  <1>1. PICK n \in T : \A m \in T : <<m, n>> \notin OpToRel(<, Nat)
    BY NatLessThanWellFounded, WFMin
  <1>2. \A m \in T : ~(m < n)
    BY <1>1 DEF OpToRel
  <1> QED
    BY <1>2

LEMMA OwnerCases ==
    ASSUME NEW S, NEW s \in Seq(S), NEW ida, NEW v, NEW d
    PROVE  \/ /\ \A i \in 1..Len(s) : ~Asserts(s[i], ida, v)
              /\ OwnerIn(s, ida, v, d) = d
           \/ \E i \in 1..Len(s) :
                 /\ Asserts(s[i], ida, v)
                 /\ \A j \in 1..Len(s) : Asserts(s[j], ida, v) => i <= j
                 /\ OwnerIn(s, ida, v, d) = s[i].e
  <1> DEFINE I == {i \in 1..Len(s) : s[i].op = "assert" /\ s[i].a = ida /\ s[i].v = v}
             at == SelectInSeq(s, LAMBDA op : op.op = "assert" /\ op.a = ida /\ op.v = v)
  <1>1. at = IF I # {} THEN Min(I) ELSE 0
    BY DEF SelectInSeq
  <1>2. OwnerIn(s, ida, v, d) = IF at # 0 THEN s[at].e ELSE d
    BY DEF OwnerIn
  <1>3. I \subseteq 1..Len(s) /\ I \subseteq Nat
    OBVIOUS
  <1>4. \A i \in 1..Len(s) : i \in I <=> Asserts(s[i], ida, v)
    BY DEF Asserts
  <1> HIDE DEF I, at
  <1>5. CASE I = {}
    BY <1>1, <1>2, <1>4, <1>5
  <1>6. CASE I # {}
    <2>1. PICK n \in I : \A m \in I : n <= m
      BY <1>3, <1>6, LeastNumber
    <2>2. PICK k : k = Min(I)
      OBVIOUS
    <2>3. k \in I /\ \A m \in I : k <= m
      BY <2>1, <2>2 DEF Min
    <2>4. k # 0 /\ k \in 1..Len(s)
      BY <2>3, <1>3
    <2>5. OwnerIn(s, ida, v, d) = s[k].e
      BY <1>1, <1>2, <1>6, <2>2, <2>4
    <2> QED
      BY <1>4, <2>3, <2>4, <2>5
  <1> QED
    BY <1>5, <1>6

(* Only the plan up to the first assertion of the value counts. *)
LEMMA OwnerPrefix ==
    ASSUME NEW S, NEW s \in Seq(S), NEW t \in Seq(S), NEW ida, NEW v, NEW d, NEW c,
           NEW n \in 0..Len(s), n <= Len(t), \A i \in 1..n : t[i] = s[i],
           NEW i \in 1..n, Asserts(s[i], ida, v)
    PROVE  OwnerIn(t, ida, v, c) = OwnerIn(s, ida, v, d)
  <1>0. Len(s) \in Nat /\ Len(t) \in Nat /\ n \in Nat
    OBVIOUS
  <1>1. i \in 1..Len(s) /\ i \in 1..Len(t) /\ Asserts(t[i], ida, v)
    BY <1>0
  <1>2. PICK k \in 1..Len(s) :
            /\ Asserts(s[k], ida, v)
            /\ \A j \in 1..Len(s) : Asserts(s[j], ida, v) => k <= j
            /\ OwnerIn(s, ida, v, d) = s[k].e
    BY <1>1, OwnerCases
  <1>3. PICK l \in 1..Len(t) :
            /\ Asserts(t[l], ida, v)
            /\ \A j \in 1..Len(t) : Asserts(t[j], ida, v) => l <= j
            /\ OwnerIn(t, ida, v, c) = t[l].e
    BY <1>1, OwnerCases
  <1>4. k <= i /\ l <= i
    BY <1>1, <1>2, <1>3
  <1>5. k \in 1..n /\ l \in 1..n
    BY <1>0, <1>4
  <1>6. Asserts(t[k], ida, v) /\ Asserts(s[l], ida, v)
    BY <1>2, <1>3, <1>5
  <1>7. k \in 1..Len(t) /\ l \in 1..Len(s)
    BY <1>0, <1>5
  <1>8. k = l
    BY <1>0, <1>2, <1>3, <1>6, <1>7
  <1> QED
    BY <1>2, <1>3, <1>5, <1>8

(* The first assertion of a value is its owner's. *)
LEMMA OwnerFirst ==
    ASSUME NEW S, NEW s \in Seq(S), NEW op \in S, NEW ida, NEW v, NEW d, Asserts(op, ida, v),
           \A i \in 1..Len(s) : ~Asserts(s[i], ida, v)
    PROVE  OwnerIn(Append(s, op), ida, v, d) = op.e
  <1> DEFINE t == Append(s, op)
  <1>1. /\ t \in Seq(S) /\ Len(t) = Len(s) + 1 /\ t[Len(s) + 1] = op
        /\ \A i \in 1..Len(s) : t[i] = s[i]
    BY AppendProperties
  <1> HIDE DEF t
  <1>2. \A i \in 1..Len(t) : i \in 1..Len(s) \/ i = Len(s) + 1
    BY <1>1
  <1>3. Len(s) + 1 \in 1..Len(t)
    BY <1>1
  <1>4. \A i \in 1..Len(t) : Asserts(t[i], ida, v) => i = Len(s) + 1
    BY <1>1, <1>2
  <1>5. OwnerIn(t, ida, v, d) = t[Len(s) + 1].e
    BY <1>1, <1>3, <1>4, OwnerCases
  <1> QED
    BY <1>1, <1>5 DEF t

LEMMA OwnerType ==
    ASSUME StoreOK, PlanOK, NEW a \in Unique, NEW v
    PROVE  UniqueOwnerIncludingPlan(a, v) \in 1..(alloc.top - 1) \cup {None}
  <1>1. UniqueOwnerIncludingPlan(a, v) = OwnerIn(ops, ids[a], v, UniqueOwner(a, v))
    BY DEF UniqueOwnerIncludingPlan
  <1>2. UniqueOwner(a, v) \in 1..(alloc.top - 1) \cup {None}
    BY UniqueOwnerType DEF PlanOK, AllocatorOK, StoreOK
  <1>3. ops \in Seq(Operations(alloc.top, Len(home)))
    BY DEF PlanOK
  <1>4. \A i \in 1..Len(ops) : ops[i].e \in 1..(alloc.top - 1)
    BY <1>3 DEF Operations
  <1>5. \/ OwnerIn(ops, ids[a], v, UniqueOwner(a, v)) = UniqueOwner(a, v)
        \/ \E i \in 1..Len(ops) : OwnerIn(ops, ids[a], v, UniqueOwner(a, v)) = ops[i].e
    BY <1>3, OwnerCases
  <1> QED
    BY <1>1, <1>2, <1>4, <1>5

-----------------------------------------------------------------------------
(* A call of planMap. *)

LEMMA RecordEntityOK ==
    ASSUME StoreOK, PlanOK, NEW rec \in Records, Resolvable(rec.id)
    PROVE  /\ Grown(alloc, RecordEntity(rec).alloc)
           /\ RecordEntity(rec).e \in 1..(RecordEntity(rec).alloc.top - 1)
           /\ rec.id.kind = "tmp" =>
                 /\ rec.id.x \in DOMAIN RecordEntity(rec).alloc.tempids
                 /\ RecordEntity(rec).e = RecordEntity(rec).alloc.tempids[rec.id.x]
  <1> DEFINE found == Resolve(alloc, rec.id)
             owners == UpsertOwners(rec)
  <1>0. AllocatorOK(alloc)
    BY DEF PlanOK
  <1>1. rec.id \in EntitySpec /\ rec.fields \in Seq(RecordField)
    BY RequestsAssumption
  <1>2. Found(alloc, rec.id, found)
    BY <1>0, <1>1, ResolveOK
  <1>3. owners \subseteq 1..(alloc.top - 1)
    <2>1. ASSUME NEW o \in owners
          PROVE  o \in 1..(alloc.top - 1)
      <3>1. PICK i \in DOMAIN rec.fields :
                /\ rec.fields[i].a \in Unique
                /\ o = UniqueOwnerIncludingPlan(rec.fields[i].a, Scalar(rec.fields[i].v.x))
                /\ o # None
        BY <2>1 DEF UpsertOwners
      <3> QED
        BY <3>1, OwnerType
    <2> QED
      BY <2>1
  <1>4. rec.id.kind = "none" => found.e # None
    BY <1>2 DEF Found
  <1>5. CASE rec.id.kind = "none" /\ owners # {}
    <2>1. PICK o : o = CHOOSE p \in owners : TRUE
      OBVIOUS
    <2>2. o \in owners
      BY <1>5, <2>1
    <2>3. RecordEntity(rec) = [alloc |-> alloc, e |-> o]
      BY <1>4, <1>5, <2>1 DEF RecordEntity
    <2>4. RecordEntity(rec).alloc = alloc /\ RecordEntity(rec).e = o
      BY <2>3
    <2> QED
      BY <1>0, <1>3, <1>5, <2>2, <2>4, GrownSelf
  <1>6. CASE ~(rec.id.kind = "none" /\ owners # {}) /\ found.e = None
    <2>1. RecordEntity(rec) = Anonymous(alloc)
      BY <1>6 DEF RecordEntity
    <2>2. rec.id.kind # "tmp"
      BY <1>2, <1>6 DEF Found
    <2> QED
      BY <1>0, <2>1, <2>2, AnonymousOK
  <1>7. CASE ~(rec.id.kind = "none" /\ owners # {}) /\ found.e # None
    <2>1. RecordEntity(rec) = found
      BY <1>7 DEF RecordEntity
    <2> HIDE DEF found
    <2> QED
      BY <1>2, <1>7, <2>1 DEF Found
  <1> QED
    BY <1>5, <1>6, <1>7

(* Tokens keep their entities as the allocator grows. *)
LEMMA TokensKept ==
    ASSUME PlanOK, TokenOneEntity, Grown(alloc, alloc'), moved \subseteq moved',
           \A use \in uses' :
              use \in uses \/ (use.t \in DOMAIN alloc'.tempids /\ use.id = alloc'.tempids[use.t])
    PROVE  TokenOneEntity'
  <1> SUFFICES ASSUME NEW use \in uses'
               PROVE  use.id = alloc'.tempids[use.t] \/ \E m \in moved' : m.from = use.id
    BY DEF TokenOneEntity
  <1>1. CASE use \in uses
    <2>1. use.t \in DOMAIN alloc.tempids
      BY <1>1 DEF PlanOK
    <2>2. alloc'.tempids[use.t] = alloc.tempids[use.t]
      BY <2>1 DEF Grown
    <2>3. use.id = alloc.tempids[use.t] \/ \E m \in moved : m.from = use.id
      BY <1>1 DEF TokenOneEntity
    <2> QED
      BY <2>2, <2>3
  <1> QED
    BY <1>1

LEMMA EnterStep ==
    ASSUME PlanInv, busy, NEW rec \in Records, Enter(rec), items' \in Seq(Item),
           UNCHANGED <<store, busy, ops, moved>>,
           stack # <<>> => Frame.fields # <<>> /\ Field.a \in RefTyped
    PROVE  PlanInv'
  <1>0. /\ StoreOK /\ PlanOK /\ Nesting /\ Spans /\ RecordWholeUnlessNested
        /\ TokenOneEntity /\ Waiting /\ FieldsLeft /\ Given /\ FirstOwns
    BY DEF PlanInv
  <1>1. /\ ids' = ids /\ next' = next /\ live' = live /\ busy' = busy /\ ops' = ops
        /\ moved' = moved
    BY DEF store
  <1>2. PICK found : found = RecordEntity(rec)
    OBVIOUS
  <1>3. /\ Grown(alloc, found.alloc) /\ found.e \in 1..(found.alloc.top - 1)
        /\ rec.id.kind = "tmp" => /\ rec.id.x \in DOMAIN found.alloc.tempids
                                  /\ found.e = found.alloc.tempids[rec.id.x]
    BY <1>0, <1>2, RecordEntityOK DEF Enter
  <1>4. PICK entry : entry = [e |-> found.e, fields |-> rec.fields,
                              within |-> {stack[i].rec : i \in DOMAIN stack}]
    OBVIOUS
  <1>5. PICK pin \in BOOLEAN : pin = (rec.id.kind = "name")
    OBVIOUS
  <1>6. PICK frame : frame = [e |-> found.e, pinned |-> pin, start |-> Len(ops),
                              fields |-> rec.fields, rec |-> Len(home) + 1]
    OBVIOUS
  <1>7. /\ alloc' = found.alloc /\ uses' = Uses(rec.id, found.e)
        /\ stack' = Append(stack, frame) /\ home' = Append(home, entry)
    BY <1>2, <1>4, <1>5, <1>6 DEF Enter
  <1>8. /\ alloc.top \in Nat /\ alloc'.top \in Nat /\ alloc.top <= alloc'.top
        /\ Grown(alloc, alloc') /\ found.e \in 1..(alloc'.top - 1)
    BY <1>0, <1>3, <1>7 DEF Grown, PlanOK, AllocatorOK
  <1>9. rec.id \in EntitySpec /\ rec.fields \in Seq(RecordField)
    BY RequestsAssumption
  <1>10. /\ ops \in Seq(Operations(alloc.top, Len(home)))
         /\ stack \in Seq(Frames(alloc.top, Len(ops), Len(home)))
         /\ home \in Seq(Homes(alloc.top))
         /\ Len(home) \in Nat /\ Len(ops) \in Nat /\ Len(stack) \in Nat
    BY <1>0 DEF PlanOK
  <1>11. \A i \in 1..Len(stack) : stack[i].rec \in 1..Len(home)
    BY <1>10, FrameParts
  <1>12. entry \in Homes(alloc'.top)
    <2>1. {stack[i].rec : i \in DOMAIN stack} \subseteq Nat
      BY <1>10, <1>11
    <2> QED
      BY <1>4, <1>8, <1>9, <2>1 DEF Homes
  <1>13. frame \in Frames(alloc'.top, Len(ops), Len(home) + 1)
    BY <1>6, <1>8, <1>9, <1>10 DEF Frames
  <1>14. /\ home' \in Seq(Homes(alloc'.top)) /\ Len(home') = Len(home) + 1
         /\ home'[Len(home) + 1] = entry
         /\ \A r \in 1..Len(home) : home'[r] = home[r]
    <2>1. home \in Seq(Homes(alloc'.top))
      BY <1>8, <1>10, HomesGrow
    <2> QED
      BY <1>7, <1>12, <2>1, AppendProperties
  <1>15. /\ stack' \in Seq(Frames(alloc'.top, Len(ops'), Len(home')))
         /\ Len(stack') = Len(stack) + 1
         /\ stack'[Len(stack) + 1] = frame
         /\ \A k \in 1..Len(stack) : stack'[k] = stack[k]
    <2>0. Len(home) <= Len(home) + 1 /\ Len(home) + 1 \in Nat /\ Len(ops) <= Len(ops)
      BY <1>10
    <2>1. stack \in Seq(Frames(alloc'.top, Len(ops), Len(home) + 1))
      <3>1. Seq(Frames(alloc.top, Len(ops), Len(home))) \subseteq Seq(Frames(alloc'.top, Len(ops), Len(home) + 1))
        <4>1. PICK t, u, k, m, n : t = alloc.top /\ u = alloc'.top /\ k = Len(ops) /\ m = Len(home) /\ n = Len(home) + 1
          OBVIOUS
        <4>2. t \in Nat /\ u \in Nat /\ k \in Nat /\ m \in Nat /\ n \in Nat /\ t <= u /\ m <= n /\ k <= k
          BY <1>8, <1>10, <4>1
        <4>3. Seq(Frames(t, k, m)) \subseteq Seq(Frames(u, k, n))
          BY <4>2, FramesGrow
        <4> QED
          BY <4>1, <4>3
      <3> QED
        BY <1>10, <3>1
    <2> QED
      BY <1>1, <1>7, <1>13, <1>14, <2>1, AppendProperties
  <1>16. /\ DOMAIN home = 1..Len(home) /\ DOMAIN home' = 1..(Len(home) + 1)
         /\ DOMAIN stack = 1..Len(stack) /\ DOMAIN stack' = 1..(Len(stack) + 1)
         /\ DOMAIN ops = 1..Len(ops) /\ DOMAIN ops' = 1..Len(ops)
    BY <1>1, <1>10, <1>14, <1>15
  <1>17. /\ \A r \in DOMAIN home' : r \in DOMAIN home \/ r = Len(home) + 1
         /\ \A k \in DOMAIN stack' : k \in DOMAIN stack \/ k = Len(stack) + 1
    BY <1>10, <1>16
  <1>18. \A i \in DOMAIN ops : ops[i].rec # 0 => ops[i].rec \in DOMAIN home
    <2>1. \A i \in DOMAIN ops : ops[i].rec \in 0..Len(home)
      BY <1>10, <1>16 DEF Operations
    <2> QED
      BY <1>10, <1>16, <2>1
  <1>19. /\ entry.e = found.e /\ entry.fields = rec.fields
         /\ entry.within = {stack[i].rec : i \in DOMAIN stack}
         /\ frame.e = found.e /\ frame.start = Len(ops) /\ frame.fields = rec.fields
         /\ frame.rec = Len(home) + 1
    BY <1>4, <1>6
  <1>20. StoreOK'
    BY <1>0, <1>1 DEF StoreOK
  <1>21. PlanOK'
    <2>1. AllocatorOK(alloc)'
      BY <1>1, <1>8 DEF Grown, AllocatorOK
    <2>2. ops' \in Seq(Operations(alloc'.top, Len(home')))
      <3>1. Len(home) <= Len(home') /\ Len(home') \in Nat
        BY <1>10, <1>14
      <3>2. ops \in Seq(Operations(alloc'.top, Len(home')))
        BY <1>8, <1>10, <3>1, OperationsGrow
      <3> QED
        BY <1>1, <3>2
    <2>3. uses' \subseteq [t : DOMAIN alloc'.tempids, id : Nat]
      <3>1. uses \subseteq [t : DOMAIN alloc'.tempids, id : Nat]
        BY <1>0, <1>8 DEF PlanOK, Grown
      <3>2. rec.id.kind = "tmp" => [t |-> rec.id.x, id |-> found.e] \in [t : DOMAIN alloc'.tempids, id : Nat]
        BY <1>3, <1>7, <1>8
      <3> QED
        BY <1>7, <3>1, <3>2 DEF Uses
    <2>4. moved' \subseteq [rec : 1..Len(home'), from : Nat]
      <3>1. 1..Len(home) \subseteq 1..Len(home')
        BY <1>10, <1>14
      <3> QED
        BY <1>0, <1>1, <3>1 DEF PlanOK
    <2> QED
      BY <1>0, <1>1, <1>14, <1>15, <2>1, <2>2, <2>3, <2>4 DEF PlanOK
  <1>22. Nesting'
    <2>1. ASSUME NEW r \in DOMAIN home'
          PROVE  home'[r].within \subseteq 1..(r - 1)
      <3>1. CASE r \in DOMAIN home
        BY <1>0, <1>14, <1>16, <3>1 DEF Nesting
      <3>2. CASE r = Len(home) + 1
        <4>1. entry.within \subseteq 1..Len(home)
          BY <1>11, <1>16, <1>19
        <4> QED
          BY <1>10, <1>14, <3>2, <4>1
      <3> QED
        BY <1>17, <3>1, <3>2
    <2>2. ASSUME NEW k \in DOMAIN stack'
          PROVE  /\ stack'[k].e = home'[stack'[k].rec].e
                 /\ home'[stack'[k].rec].within = {stack'[j].rec : j \in 1..(k - 1)}
      <3>1. \A j \in 1..(k - 1) : j \in DOMAIN stack /\ stack'[j] = stack[j]
        BY <1>10, <1>15, <1>16
      <3>2. {stack'[j].rec : j \in 1..(k - 1)} = {stack[j].rec : j \in 1..(k - 1)}
        BY <3>1
      <3>3. CASE k \in DOMAIN stack
        <4>1. stack'[k] = stack[k] /\ home'[stack[k].rec] = home[stack[k].rec]
          BY <1>11, <1>14, <1>15, <1>16, <3>3
        <4>2. /\ stack[k].e = home[stack[k].rec].e
              /\ home[stack[k].rec].within = {stack[j].rec : j \in 1..(k - 1)}
          BY <1>0, <3>3 DEF Nesting
        <4> QED
          BY <3>2, <4>1, <4>2
      <3>4. CASE k = Len(stack) + 1
        <4>1. stack'[k] = frame /\ home'[frame.rec] = entry
          BY <1>14, <1>15, <1>19, <3>4
        <4>2. 1..(k - 1) = DOMAIN stack
          BY <1>10, <1>16, <3>4
        <4> QED
          BY <1>19, <3>2, <4>1, <4>2
      <3> QED
        BY <1>17, <3>3, <3>4
    <2> QED
      BY <2>1, <2>2 DEF Nesting
  <1>23. Spans'
    <2> SUFFICES ASSUME NEW i \in DOMAIN ops, ops[i].rec # 0, NEW k \in DOMAIN stack'
                 PROVE  i > stack'[k].start <=> \/ stack'[k].rec = ops[i].rec
                                                \/ stack'[k].rec \in home'[ops[i].rec].within
      BY <1>1 DEF Spans
    <2>1. ops[i].rec \in DOMAIN home /\ home'[ops[i].rec] = home[ops[i].rec]
      BY <1>14, <1>16, <1>18
    <2>2. CASE k \in DOMAIN stack
      <3>1. stack'[k] = stack[k]
        BY <1>15, <1>16, <2>2
      <3> QED
        BY <1>0, <2>1, <2>2, <3>1 DEF Spans
    <2>3. CASE k = Len(stack) + 1
      <3>1. stack'[k].start = Len(ops) /\ stack'[k].rec = Len(home) + 1
        BY <1>15, <1>19, <2>3
      <3>2. ~(i > Len(ops))
        BY <1>10, <1>16
      <3>3. home[ops[i].rec].within \subseteq 1..(ops[i].rec - 1)
        BY <1>0, <2>1 DEF Nesting
      <3>4. Len(home) + 1 # ops[i].rec /\ Len(home) + 1 \notin home[ops[i].rec].within
        BY <1>10, <1>16, <2>1, <3>3
      <3> QED
        BY <2>1, <3>1, <3>2, <3>4
    <2> QED
      BY <1>17, <2>2, <2>3
  <1>24. RecordWholeUnlessNested'
    <2>1. \A i \in DOMAIN ops : ops[i].rec # 0 => home'[ops[i].rec] = home[ops[i].rec]
      BY <1>14, <1>16, <1>18
    <2> QED
      BY <1>0, <1>1, <2>1 DEF RecordWholeUnlessNested
  <1>25. TokenOneEntity'
    <2>1. ASSUME NEW use \in uses'
          PROVE  use \in uses \/ (use.t \in DOMAIN alloc'.tempids /\ use.id = alloc'.tempids[use.t])
      BY <1>3, <1>7, <2>1 DEF Uses
    <2> QED
      BY <1>0, <1>1, <1>8, <2>1, TokensKept
  <1>26. ASSUME NEW k \in DOMAIN stack
         PROVE  /\ stack'[k] = stack[k] /\ home'[stack[k].rec] = home[stack[k].rec]
                /\ Pending(k)' = Pending(k)
    <2>1. stack'[k] = stack[k] /\ home'[stack[k].rec] = home[stack[k].rec]
      BY <1>11, <1>14, <1>15, <1>16
    <2> QED
      BY <2>1 DEF Pending
  <1>27a. PICK inner : inner = Len(stack) + 1
    OBVIOUS
  <1>27. /\ stack'[inner] = frame /\ home'[frame.rec] = entry
         /\ Pending(inner)' = 0
    <2>1. stack'[inner] = frame /\ home'[frame.rec] = entry
      BY <1>14, <1>15, <1>19, <1>27a
    <2>2. Pending(inner)' = Len(entry.fields) - Len(frame.fields)
      BY <2>1 DEF Pending
    <2> QED
      BY <1>9, <1>19, <2>1, <2>2
  <1>28. FieldsLeft'
    <2> SUFFICES ASSUME NEW k \in DOMAIN stack'
                 PROVE  /\ Len(stack'[k].fields) <= Len(home'[stack'[k].rec].fields)
                        /\ \A i \in DOMAIN stack'[k].fields :
                              stack'[k].fields[i] = home'[stack'[k].rec].fields[Pending(k)' + i]
      BY DEF FieldsLeft
    <2>1. CASE k \in DOMAIN stack
      BY <1>0, <1>26, <2>1 DEF FieldsLeft
    <2>2. CASE k = Len(stack) + 1
      <3>1. /\ stack'[k].fields = rec.fields /\ home'[stack'[k].rec].fields = rec.fields
            /\ Pending(k)' = 0
        BY <1>19, <1>27, <1>27a, <2>2
      <3> QED
        BY <1>9, <3>1
    <2> QED
      BY <1>17, <2>1, <2>2
  <1>29. Given'
    <2> SUFFICES ASSUME NEW r \in DOMAIN home', NEW i \in DOMAIN home'[r].fields,
                        home'[r].fields[i].a \in Unique
                 PROVE  \/ PlannedValue(r, i)'
                        \/ \E k \in DOMAIN stack' : stack'[k].rec = r /\ i > Pending(k)'
      BY DEF Given
    <2>1. CASE r \in DOMAIN home
      <3>1. home'[r] = home[r]
        BY <1>14, <1>16, <2>1
      <3>2. \/ PlannedValue(r, i)
            \/ \E k \in DOMAIN stack : stack[k].rec = r /\ i > Pending(k)
        BY <1>0, <2>1, <3>1 DEF Given
      <3>3. CASE PlannedValue(r, i)
        BY <1>1, <3>1, <3>3 DEF PlannedValue
      <3>4. CASE \E k \in DOMAIN stack : stack[k].rec = r /\ i > Pending(k)
        <4>1. PICK k \in DOMAIN stack : stack[k].rec = r /\ i > Pending(k)
          BY <3>4
        <4>2. k \in DOMAIN stack'
          BY <1>10, <1>16
        <4> QED
          BY <1>26, <4>1, <4>2
      <3> QED
        BY <3>2, <3>3, <3>4
    <2>2. CASE r = Len(home) + 1
      <3>1. inner \in DOMAIN stack' /\ stack'[inner].rec = r
        BY <1>10, <1>16, <1>19, <1>27, <1>27a, <2>2
      <3>2. home'[r].fields = rec.fields
        BY <1>14, <1>19, <2>2
      <3>3. i > Pending(inner)'
        BY <1>9, <1>27, <3>2
      <3> QED
        BY <3>1, <3>3
    <2> QED
      BY <1>17, <2>1, <2>2
  <1>30. FirstOwns'
    <2> SUFFICES ASSUME NEW i \in DOMAIN ops, NEW a \in Unique,
                        ops[i].op = "assert", ops[i].a = ids[a], ops[i].rec # 0,
                        Settled(ops[i].rec)'
                 PROVE  UniqueOwnerIncludingPlan(a, ops[i].v)' = ops[i].e
      BY <1>1 DEF FirstOwns
    <2>1. home'[ops[i].rec] = home[ops[i].rec]
      BY <1>14, <1>16, <1>18
    <2>2. Settled(ops[i].rec)
      BY <1>1, <2>1 DEF Settled, NestedInMoved
    <2>3. PICK v : v = ops[i].v
      OBVIOUS
    <2>4. UniqueOwnerIncludingPlan(a, v)' = UniqueOwnerIncludingPlan(a, v)
      <3>1. UniqueOwner(a, v)' = UniqueOwner(a, v)
        BY <1>1 DEF UniqueOwner
      <3>2. UniqueOwnerIncludingPlan(a, v) = OwnerIn(ops, ids[a], v, UniqueOwner(a, v))
        BY DEF UniqueOwnerIncludingPlan
      <3>3. UniqueOwnerIncludingPlan(a, v)' = OwnerIn(ops', ids'[a], v, UniqueOwner(a, v)')
        BY DEF UniqueOwnerIncludingPlan
      <3> QED
        BY <1>1, <3>1, <3>2, <3>3
    <2> QED
      BY <1>0, <1>1, <2>2, <2>3, <2>4 DEF FirstOwns
  <1>31. Waiting'
    <2> SUFFICES ASSUME NEW k \in 1..(Len(stack') - 1)
                 PROVE  stack'[k].fields # <<>> /\ Head(stack'[k].fields).a \in RefTyped
      BY DEF Waiting
    <2>0. k \in 1..Len(stack)
      BY <1>10, <1>15
    <2>a. stack # <<>>
      BY <2>0
    <2>1. k \in DOMAIN stack /\ stack'[k] = stack[k] /\ stack # <<>>
      BY <1>15, <1>16, <2>0, <2>a
    <2>2. CASE k = Len(stack)
      BY <2>1, <2>2 DEF Frame, Field
    <2>3. CASE k \in 1..(Len(stack) - 1)
      BY <1>0, <2>1, <2>3 DEF Waiting
    <2> QED
      BY <1>10, <1>16, <2>1, <2>2, <2>3
  <1> QED
    BY <1>20, <1>21, <1>22, <1>23, <1>24, <1>25, <1>28, <1>29, <1>30, <1>31 DEF PlanInv

-----------------------------------------------------------------------------
(* A field is done. *)

(* What is left of a record when a field of it has been planned, and the calls
   above it have returned. *)
LEMMA FieldsStep ==
    ASSUME PlanInv, NEW K \in 1..Len(stack), Len(stack') = K,
           stack' \in Seq(Frames(alloc'.top, Len(ops'), Len(home'))),
           \A k \in 1..(K - 1) : stack'[k].rec = stack[k].rec /\ stack'[k].fields = stack[k].fields,
           stack'[K].rec = stack[K].rec,
           stack[K].fields # <<>>, stack'[K].fields = Tail(stack[K].fields),
           \A k \in (K + 1)..Len(stack) : stack[k].fields = <<>>,
           DOMAIN home' = DOMAIN home, \A r \in DOMAIN home : home'[r].fields = home[r].fields,
           ids' = ids, DOMAIN ops \subseteq DOMAIN ops',
           \A j \in DOMAIN ops : /\ ops'[j].op = ops[j].op /\ ops'[j].rec = ops[j].rec
                                 /\ ops'[j].a = ops[j].a /\ ops'[j].v = ops[j].v,
           Head(stack[K].fields).a \in Unique =>
              \E j \in DOMAIN ops' :
                 /\ ops'[j].op = "assert" /\ ops'[j].rec = stack[K].rec
                 /\ ops'[j].a = ids[Head(stack[K].fields).a]
                 /\ ops'[j].v = Scalar(Head(stack[K].fields).v.x)
    PROVE  Waiting' /\ FieldsLeft' /\ Given'
  <1>0. /\ StoreOK /\ PlanOK /\ Waiting /\ FieldsLeft /\ Given
    BY DEF PlanInv
  <1>1. /\ stack \in Seq(Frames(alloc.top, Len(ops), Len(home)))
        /\ home \in Seq(Homes(alloc.top))
        /\ DOMAIN stack = 1..Len(stack) /\ DOMAIN home = 1..Len(home) /\ DOMAIN stack' = 1..K
        /\ Len(stack) \in Nat /\ Len(home) \in Nat /\ K \in Nat
    BY <1>0 DEF PlanOK
  <1>2. ASSUME NEW k \in DOMAIN stack
        PROVE  /\ stack[k].rec \in DOMAIN home /\ stack[k].fields \in Seq(RecordField)
               /\ home[stack[k].rec].fields \in Seq(RecordField)
    BY <1>1, FrameParts, HomeParts
  <1>3. K \in DOMAIN stack
    BY <1>1
  <1>4. PICK left, all : left = stack[K].fields /\ all = home[stack[K].rec].fields
    OBVIOUS
  <1>5. /\ left \in Seq(RecordField) /\ all \in Seq(RecordField) /\ left # <<>>
        /\ Len(left) \in Nat /\ Len(all) \in Nat /\ Len(left) <= Len(all)
        /\ \A i \in 1..Len(left) : left[i] = all[Len(all) - Len(left) + i]
    <2>1. left \in Seq(RecordField) /\ all \in Seq(RecordField) /\ left # <<>>
      BY <1>2, <1>3, <1>4
    <2>2. Len(left) \in Nat /\ Len(all) \in Nat /\ DOMAIN left = 1..Len(left)
      BY <2>1
    <2>3. Pending(K) = Len(all) - Len(left)
      BY <1>4 DEF Pending
    <2>4. /\ Len(left) <= Len(all)
          /\ \A i \in DOMAIN left : left[i] = all[Pending(K) + i]
      BY <1>0, <1>3, <1>4 DEF FieldsLeft
    <2> QED
      BY <2>1, <2>2, <2>3, <2>4
  <1>6. /\ Len(left) > 0 /\ Len(Tail(left)) = Len(left) - 1 /\ Head(left) = left[1]
        /\ \A i \in 1..(Len(left) - 1) : Tail(left)[i] = left[i + 1]
        /\ Tail(left) \in Seq(RecordField)
    BY <1>5
  <1>7. /\ stack'[K].fields = Tail(left) /\ home'[stack'[K].rec].fields = all
        /\ Pending(K) = Len(all) - Len(left)
        /\ Pending(K)' = Len(all) - Len(left) + 1
    <2>1. stack'[K].fields = Tail(left) /\ home'[stack'[K].rec].fields = all
      BY <1>2, <1>3, <1>4
    <2>2. Pending(K) = Len(all) - Len(left)
      BY <1>4 DEF Pending
    <2>3. Pending(K)' = Len(all) - Len(Tail(left))
      BY <2>1 DEF Pending
    <2>4. Len(all) - Len(Tail(left)) = Len(all) - Len(left) + 1
      <3>1. Len(left) \in Nat /\ Len(all) \in Nat
        BY <1>5
      <3>2. PICK m, n, o : m = Len(all) /\ n = Len(left) /\ o = Len(Tail(left))
        OBVIOUS
      <3>3. m \in Nat /\ n \in Nat /\ o = n - 1
        BY <1>6, <3>1, <3>2
      <3>4. m - o = m - n + 1
        BY <3>3
      <3> QED
        BY <3>2, <3>4
    <2> QED
      BY <2>1, <2>2, <2>3, <2>4
  <1>8. ASSUME NEW k \in 1..(K - 1)
        PROVE  /\ k \in DOMAIN stack /\ k \in DOMAIN stack'
               /\ stack'[k].fields = stack[k].fields /\ stack'[k].rec = stack[k].rec
               /\ home'[stack'[k].rec].fields = home[stack[k].rec].fields
               /\ Pending(k)' = Pending(k)
    <2>1. k \in DOMAIN stack /\ k \in DOMAIN stack'
      BY <1>1
    <2>2. /\ stack'[k].fields = stack[k].fields /\ stack'[k].rec = stack[k].rec
          /\ home'[stack'[k].rec].fields = home[stack[k].rec].fields
      BY <1>2, <2>1
    <2> QED
      BY <2>1, <2>2 DEF Pending
  <1>9. \A k \in DOMAIN stack' : k \in 1..(K - 1) \/ k = K
    BY <1>1
  <1>10. FieldsLeft'
    <2> SUFFICES ASSUME NEW k \in DOMAIN stack'
                 PROVE  /\ Len(stack'[k].fields) <= Len(home'[stack'[k].rec].fields)
                        /\ \A i \in DOMAIN stack'[k].fields :
                              stack'[k].fields[i] = home'[stack'[k].rec].fields[Pending(k)' + i]
      BY DEF FieldsLeft
    <2>1. CASE k \in 1..(K - 1)
      <3>1. PICK fields, whole, p : fields = stack[k].fields /\ whole = home[stack[k].rec].fields /\ p = Pending(k)
        OBVIOUS
      <3>2. Len(fields) <= Len(whole) /\ \A i \in DOMAIN fields : fields[i] = whole[p + i]
        BY <1>0, <1>8, <2>1, <3>1 DEF FieldsLeft
      <3>3. stack'[k].fields = fields /\ home'[stack'[k].rec].fields = whole /\ Pending(k)' = p
        BY <1>8, <2>1, <3>1
      <3> QED
        BY <3>2, <3>3
    <2>2. CASE k = K
      <3>1. Len(Tail(left)) <= Len(all)
        BY <1>5, <1>6
      <3>2. DOMAIN Tail(left) = 1..(Len(left) - 1)
        BY <1>6
      <3>3. ASSUME NEW i \in 1..(Len(left) - 1)
            PROVE  Tail(left)[i] = all[Len(all) - Len(left) + 1 + i]
        <4>1. i + 1 \in 1..Len(left)
          BY <1>5
        <4>2. left[i + 1] = all[Len(all) - Len(left) + (i + 1)]
          BY <1>5, <4>1
        <4>3. Len(all) - Len(left) + (i + 1) = Len(all) - Len(left) + 1 + i
          BY <1>5
        <4> QED
          BY <1>6, <4>2, <4>3
      <3> QED
        BY <1>7, <2>2, <3>1, <3>2, <3>3
    <2> QED
      BY <1>9, <2>1, <2>2
  <1>11. Given'
    <2> SUFFICES ASSUME NEW r \in DOMAIN home', NEW i \in DOMAIN home'[r].fields,
                        home'[r].fields[i].a \in Unique
                 PROVE  \/ PlannedValue(r, i)'
                        \/ \E k \in DOMAIN stack' : stack'[k].rec = r /\ i > Pending(k)'
      BY DEF Given
    <2>1. r \in DOMAIN home /\ home'[r].fields = home[r].fields
      OBVIOUS
    <2>2. \/ PlannedValue(r, i)
          \/ \E k \in DOMAIN stack : stack[k].rec = r /\ i > Pending(k)
      BY <1>0, <2>1 DEF Given
    <2>3. CASE PlannedValue(r, i)
      BY <2>1, <2>3 DEF PlannedValue
    <2>4. ASSUME NEW k \in DOMAIN stack, stack[k].rec = r, i > Pending(k)
          PROVE  \/ PlannedValue(r, i)'
                 \/ \E l \in DOMAIN stack' : stack'[l].rec = r /\ i > Pending(l)'
      <3>1. CASE k \in 1..(K - 1)
        BY <1>8, <2>4, <3>1
      <3>2. CASE k = K
        <4>1. i \in Nat /\ home[r].fields = all
          BY <1>2, <1>4, <2>1, <2>4, <3>2
        <4>a. Pending(K) = Len(all) - Len(left) /\ Pending(K)' = Len(all) - Len(left) + 1
          BY <1>7
        <4>b. K \in DOMAIN stack' /\ stack'[K].rec = r
          BY <1>1, <2>4, <3>2
        <4>2. CASE i > Len(all) - Len(left) + 1
          <5>1. i > Pending(K)'
            BY <4>a, <4>2
          <5> QED
            BY <4>b, <5>1
        <4>3. CASE i = Len(all) - Len(left) + 1
          <5>1. left[1] = all[i]
            BY <1>5, <1>6, <4>3
          <5>2. home[r].fields[i] = Head(stack[K].fields)
            BY <1>4, <1>6, <4>1, <5>1
          <5>3. PlannedValue(r, i)'
            BY <2>1, <2>4, <3>2, <5>2 DEF PlannedValue
          <5> QED
            BY <5>3
        <4>4. i > Len(all) - Len(left)
          BY <2>4, <3>2, <4>a
        <4>5. Len(all) - Len(left) \in Int
          BY <1>5
        <4>6. i > Len(all) - Len(left) + 1 \/ i = Len(all) - Len(left) + 1
          BY <4>1, <4>4, <4>5
        <4> QED
          BY <4>2, <4>3, <4>6
      <3>3. CASE k \in (K + 1)..Len(stack)
        <4>1. stack[k].fields = <<>>
          BY <3>3
        <4>2. Pending(k) = Len(home[r].fields)
          BY <1>2, <2>4, <4>1 DEF Pending
        <4>3. i <= Len(home[r].fields)
          BY <1>2, <2>1, <2>4
        <4> QED
          BY <1>2, <2>4, <4>2, <4>3
      <3> QED
        BY <1>1, <3>1, <3>2, <3>3
    <2> QED
      BY <2>2, <2>3, <2>4
  <1>12. Waiting'
    <2> SUFFICES ASSUME NEW k \in 1..(K - 1)
                 PROVE  stack'[k].fields # <<>> /\ Head(stack'[k].fields).a \in RefTyped
      BY DEF Waiting
    <2>1. k \in 1..(Len(stack) - 1) /\ stack'[k].fields = stack[k].fields
      BY <1>1
    <2> QED
      BY <1>0, <2>1 DEF Waiting
  <1> QED
    BY <1>10, <1>11, <1>12

-----------------------------------------------------------------------------
(* One more operation in the plan. *)

(* A step that adds an operation of the innermost record under way, or of
   none, and otherwise leaves the calls as they are or returns from some. *)
Adds(op) ==
    /\ UNCHANGED <<store, busy, home, moved>>
    /\ items' \in Seq(Item)
    /\ Grown(alloc, alloc')
    /\ op \in Operations(alloc'.top, Len(home))
    /\ ops' = Append(ops, op)
    /\ uses' \subseteq [t : DOMAIN alloc'.tempids, id : Nat]
    /\ \A use \in uses' :
          use \in uses \/ (use.t \in DOMAIN alloc'.tempids /\ use.id = alloc'.tempids[use.t])
    /\ stack' \in Seq(Frames(alloc'.top, Len(ops), Len(home)))
    /\ Len(stack') <= Len(stack)
    /\ \A k \in 1..Len(stack') : /\ stack'[k].e = stack[k].e /\ stack'[k].start = stack[k].start
                                 /\ stack'[k].rec = stack[k].rec
    /\ op.rec # 0 => /\ Len(stack') > 0
                     /\ op.rec = stack'[Len(stack')].rec /\ op.e = stack'[Len(stack')].e
    /\ \A a \in Unique :
          op.op = "assert" /\ op.a = ids[a] /\ op.rec # 0 =>
              UniqueOwnerIncludingPlan(a, op.v) \in {None, op.e}

LEMMA AddsStep ==
    ASSUME PlanInv, busy, NEW op, Adds(op), Waiting', FieldsLeft', Given'
    PROVE  PlanInv'
  <1>0. /\ StoreOK /\ PlanOK /\ Nesting /\ Spans /\ RecordWholeUnlessNested
        /\ TokenOneEntity /\ FieldsLeft /\ Given /\ FirstOwns
    BY DEF PlanInv
  <1>1. /\ ids' = ids /\ next' = next /\ live' = live /\ busy' = busy /\ home' = home
        /\ moved' = moved /\ ops' = Append(ops, op) /\ Grown(alloc, alloc')
    BY DEF store, Adds
  <1>2. /\ ops \in Seq(Operations(alloc.top, Len(home)))
        /\ stack \in Seq(Frames(alloc.top, Len(ops), Len(home)))
        /\ home \in Seq(Homes(alloc.top))
        /\ Len(home) \in Nat /\ Len(ops) \in Nat /\ Len(stack) \in Nat
        /\ alloc.top \in Nat /\ alloc'.top \in Nat /\ alloc.top <= alloc'.top
    BY <1>0, <1>1 DEF PlanOK, AllocatorOK, Grown
  <1>3. /\ stack' \in Seq(Frames(alloc'.top, Len(ops), Len(home)))
        /\ Len(stack') \in Nat /\ Len(stack') <= Len(stack)
        /\ DOMAIN stack' = 1..Len(stack') /\ DOMAIN stack = 1..Len(stack)
        /\ DOMAIN home = 1..Len(home) /\ DOMAIN ops = 1..Len(ops)
    BY <1>2 DEF Adds
  <1>4. ops \in Seq(Operations(alloc'.top, Len(home)))
    <2>1. Seq(Operations(alloc.top, Len(home))) \subseteq Seq(Operations(alloc'.top, Len(home)))
      BY <1>2, OperationsGrow
    <2> QED
      BY <1>2, <2>1
  <1>5. op \in Operations(alloc'.top, Len(home))
    BY DEF Adds
  <1>6. /\ ops' \in Seq(Operations(alloc'.top, Len(home))) /\ Len(ops') = Len(ops) + 1
        /\ ops'[Len(ops) + 1] = op /\ \A i \in 1..Len(ops) : ops'[i] = ops[i]
    BY <1>1, <1>4, <1>5, AppendProperties
  <1>7. DOMAIN ops' = 1..(Len(ops) + 1) /\ \A i \in DOMAIN ops' : i \in DOMAIN ops \/ i = Len(ops) + 1
    BY <1>2, <1>3, <1>6
  <1>8. StoreOK'
    BY <1>0, <1>1 DEF StoreOK
  <1>9. PlanOK'
    <2>1. AllocatorOK(alloc)'
      BY <1>1 DEF Grown, AllocatorOK
    <2>2. stack' \in Seq(Frames(alloc'.top, Len(ops'), Len(home')))
      <3>1. PICK u, k, l, m : u = alloc'.top /\ k = Len(ops) /\ l = Len(ops') /\ m = Len(home)
        OBVIOUS
      <3>2. u \in Nat /\ k \in Nat /\ l \in Nat /\ m \in Nat /\ u <= u /\ k <= l /\ m <= m
        BY <1>2, <1>6, <3>1
      <3>3. Seq(Frames(u, k, m)) \subseteq Seq(Frames(u, l, m))
        BY <3>2, FramesGrow
      <3> QED
        BY <1>1, <1>3, <3>1, <3>3
    <2>3. home' \in Seq(Homes(alloc'.top))
      <3>1. Seq(Homes(alloc.top)) \subseteq Seq(Homes(alloc'.top))
        BY <1>2, HomesGrow
      <3> QED
        BY <1>1, <1>2, <3>1
    <2> QED
      BY <1>0, <1>1, <1>6, <2>1, <2>2, <2>3 DEF PlanOK, Adds
  <1>10. \A k \in DOMAIN stack' : /\ k \in DOMAIN stack /\ stack'[k].e = stack[k].e
                                 /\ stack'[k].start = stack[k].start /\ stack'[k].rec = stack[k].rec
    <2>1. \A k \in 1..Len(stack') : /\ stack'[k].e = stack[k].e /\ stack'[k].start = stack[k].start
                                    /\ stack'[k].rec = stack[k].rec
      BY DEF Adds
    <2>2. \A k \in DOMAIN stack' : k \in DOMAIN stack
      BY <1>2, <1>3
    <2> QED
      BY <1>3, <2>1, <2>2
  <1>11. ASSUME NEW k \in DOMAIN stack'
         PROVE  {stack'[j].rec : j \in 1..(k - 1)} = {stack[j].rec : j \in 1..(k - 1)}
    <2>1. \A j \in 1..(k - 1) : j \in DOMAIN stack'
      BY <1>3
    <2> QED
      BY <1>10, <2>1
  <1>12. Nesting'
    <2>1. \A r \in DOMAIN home' : home'[r].within \subseteq 1..(r - 1)
      BY <1>0, <1>1 DEF Nesting
    <2>2. ASSUME NEW k \in DOMAIN stack'
          PROVE  /\ stack'[k].e = home'[stack'[k].rec].e
                 /\ home'[stack'[k].rec].within = {stack'[j].rec : j \in 1..(k - 1)}
      <3>1. /\ stack[k].e = home[stack[k].rec].e
            /\ home[stack[k].rec].within = {stack[j].rec : j \in 1..(k - 1)}
        BY <1>0, <1>10 DEF Nesting
      <3> QED
        BY <1>1, <1>10, <1>11, <3>1
    <2> QED
      BY <2>1, <2>2 DEF Nesting
  <1>13. op.rec # 0 =>
            /\ Len(stack') \in DOMAIN stack' /\ op.rec = stack'[Len(stack')].rec
            /\ op.e = home[op.rec].e
            /\ home[op.rec].within = {stack'[j].rec : j \in 1..(Len(stack') - 1)}
    <2> SUFFICES ASSUME op.rec # 0
                 PROVE  /\ Len(stack') \in DOMAIN stack' /\ op.rec = stack'[Len(stack')].rec
                        /\ op.e = home[op.rec].e
                        /\ home[op.rec].within = {stack'[j].rec : j \in 1..(Len(stack') - 1)}
      OBVIOUS
    <2>1. PICK K : K = Len(stack')
      OBVIOUS
    <2>2. K > 0 /\ op.rec = stack'[K].rec /\ op.e = stack'[K].e
      BY <2>1 DEF Adds
    <2>3. K \in DOMAIN stack'
      BY <1>3, <2>1, <2>2
    <2>4. /\ stack'[K].e = home'[stack'[K].rec].e
          /\ home'[stack'[K].rec].within = {stack'[j].rec : j \in 1..(K - 1)}
      BY <1>12, <2>3 DEF Nesting
    <2> QED
      BY <1>1, <2>1, <2>2, <2>3, <2>4
  <1>14. Spans'
    <2> SUFFICES ASSUME NEW i \in DOMAIN ops', ops'[i].rec # 0, NEW k \in DOMAIN stack'
                 PROVE  i > stack'[k].start <=> \/ stack'[k].rec = ops'[i].rec
                                                \/ stack'[k].rec \in home'[ops'[i].rec].within
      BY DEF Spans
    <2>1. CASE i \in DOMAIN ops
      <3>1. ops'[i] = ops[i]
        BY <1>3, <1>6, <2>1
      <3>2. i > stack[k].start <=> \/ stack[k].rec = ops[i].rec
                                   \/ stack[k].rec \in home[ops[i].rec].within
        BY <1>0, <1>10, <2>1, <3>1 DEF Spans
      <3> QED
        BY <1>1, <1>10, <3>1, <3>2
    <2>2. CASE i = Len(ops) + 1
      <3>1. ops'[i] = op
        BY <1>6, <2>2
      <3>2. stack'[k].start \in 0..Len(ops)
        BY <1>3, FrameParts
      <3>3. i > stack'[k].start
        BY <1>2, <2>2, <3>2
      <3>4. k = Len(stack') \/ k \in 1..(Len(stack') - 1)
        BY <1>3
      <3>5. \/ stack'[k].rec = op.rec \/ stack'[k].rec \in home[op.rec].within
        BY <1>13, <3>1, <3>4
      <3> QED
        BY <1>1, <3>1, <3>3, <3>5
    <2> QED
      BY <1>7, <2>1, <2>2
  <1>15. RecordWholeUnlessNested'
    <2> SUFFICES ASSUME NEW i \in DOMAIN ops', ops'[i].rec # 0,
                        \A m \in moved : m.rec \notin home[ops'[i].rec].within
                 PROVE  ops'[i].e = home[ops'[i].rec].e
      BY <1>1 DEF RecordWholeUnlessNested
    <2>1. CASE i \in DOMAIN ops
      <3>1. ops'[i] = ops[i]
        BY <1>3, <1>6, <2>1
      <3> QED
        BY <1>0, <2>1, <3>1 DEF RecordWholeUnlessNested
    <2>2. CASE i = Len(ops) + 1
      BY <1>6, <1>13, <2>2
    <2> QED
      BY <1>7, <2>1, <2>2
  <1>16. TokenOneEntity'
    <2>1. /\ \A use \in uses' :
                use \in uses \/ (use.t \in DOMAIN alloc'.tempids /\ use.id = alloc'.tempids[use.t])
      BY DEF Adds
    <2> QED
      BY <1>0, <1>1, <2>1, TokensKept
  <1>17. FirstOwns'
    <2> SUFFICES ASSUME NEW i \in DOMAIN ops', NEW a \in Unique,
                        ops'[i].op = "assert", ops'[i].a = ids'[a], ops'[i].rec # 0,
                        Settled(ops[i].rec)'
                 PROVE  UniqueOwnerIncludingPlan(a, ops[i].v)' = ops'[i].e
      BY DEF FirstOwns
    <2>1. PICK v, r : v = ops'[i].v /\ r = ops'[i].rec
      OBVIOUS
    <2>2. Settled(r)
      BY <1>1, <2>1 DEF Settled, NestedInMoved
    <2>3. /\ UniqueOwnerIncludingPlan(a, ops[i].v)' = OwnerIn(ops', ids[a], v, UniqueOwner(a, v))
          /\ UniqueOwnerIncludingPlan(a, v) = OwnerIn(ops, ids[a], v, UniqueOwner(a, v))
      <3>1. UniqueOwnerIncludingPlan(a, ops[i].v)' = OwnerIn(ops', ids'[a], v, UniqueOwner(a, ops[i].v)')
        BY <2>1 DEF UniqueOwnerIncludingPlan
      <3>2. UniqueOwner(a, ops[i].v)' = UniqueOwner(a, v)
        BY <1>1, <2>1 DEF UniqueOwner
      <3> QED
        BY <1>1, <3>1, <3>2 DEF UniqueOwnerIncludingPlan
    <2>4. ASSUME NEW j \in 1..Len(ops), Asserts(ops[j], ids[a], v)
          PROVE  UniqueOwnerIncludingPlan(a, ops[i].v)' = UniqueOwnerIncludingPlan(a, v)
      <3>1. Len(ops) \in 0..Len(ops) /\ Len(ops) <= Len(ops')
        BY <1>2, <1>6
      <3>2. OwnerIn(ops', ids[a], v, UniqueOwner(a, v)) = OwnerIn(ops, ids[a], v, UniqueOwner(a, v))
        <4>1. PICK X, s, t, n, ida, d :
                  /\ X = Operations(alloc'.top, Len(home)) /\ s = ops /\ t = ops' /\ n = Len(ops)
                  /\ ida = ids[a] /\ d = UniqueOwner(a, v)
          OBVIOUS
        <4>2. /\ s \in Seq(X) /\ t \in Seq(X) /\ n \in 0..Len(s) /\ n <= Len(t) /\ j \in 1..n
              /\ \A l \in 1..n : t[l] = s[l]
          BY <1>4, <1>6, <2>4, <3>1, <4>1
        <4>3. Asserts(s[j], ida, v)
          BY <2>4, <4>1
        <4>4. OwnerIn(t, ida, v, d) = OwnerIn(s, ida, v, d)
          BY <4>2, <4>3, OwnerPrefix
        <4> QED
          BY <4>1, <4>4
      <3> QED
        BY <2>3, <3>2
    <2>5. CASE i \in DOMAIN ops
      <3>1. ops'[i] = ops[i] /\ i \in 1..Len(ops)
        BY <1>3, <1>6, <2>5
      <3>2. Asserts(ops[i], ids[a], v)
        BY <1>1, <2>1, <3>1 DEF Asserts
      <3>3. UniqueOwnerIncludingPlan(a, v) = ops[i].e
        BY <1>0, <1>1, <2>1, <2>2, <2>5, <3>1 DEF FirstOwns
      <3> QED
        BY <2>4, <3>1, <3>2, <3>3
    <2>6. CASE i = Len(ops) + 1
      <3>1. ops'[i] = op
        BY <1>6, <2>6
      <3>2. op.op = "assert" /\ op.a = ids[a] /\ op.rec # 0 /\ op.v = v
        BY <1>1, <2>1, <3>1
      <3>3. UniqueOwnerIncludingPlan(a, v) \in {None, op.e}
        BY <3>2 DEF Adds
      <3>4. CASE \A j \in 1..Len(ops) : ~Asserts(ops[j], ids[a], v)
        <4>1. Asserts(op, ids[a], v)
          BY <3>2 DEF Asserts
        <4>2. OwnerIn(Append(ops, op), ids[a], v, UniqueOwner(a, v)) = op.e
          BY <1>4, <1>5, <3>4, <4>1, OwnerFirst
        <4> QED
          BY <1>1, <2>3, <3>1, <4>2
      <3>5. ASSUME NEW j \in 1..Len(ops), Asserts(ops[j], ids[a], v)
            PROVE  UniqueOwnerIncludingPlan(a, ops[i].v)' = op.e
        <4>1. UniqueOwnerIncludingPlan(a, ops[i].v)' = UniqueOwnerIncludingPlan(a, v)
          BY <2>4, <3>5
        <4>2. \E k \in 1..Len(ops) : UniqueOwnerIncludingPlan(a, v) = ops[k].e
          BY <1>4, <2>3, <3>5, OwnerCases
        <4>3. \A k \in 1..Len(ops) : ops[k].e \in Nat
          BY <1>2, OperationParts
        <4>4. UniqueOwnerIncludingPlan(a, v) # None
          BY <4>2, <4>3, EntitiesAssumption
        <4> QED
          BY <3>3, <4>1, <4>4
      <3> QED
        BY <3>1, <3>4, <3>5
    <2> QED
      BY <1>7, <2>5, <2>6
  <1> QED
    BY <1>8, <1>9, <1>12, <1>14, <1>15, <1>16, <1>17 DEF PlanInv

-----------------------------------------------------------------------------
(* planMap on one field. *)

FieldAttr == Named(alloc, Field.a)
FieldValue == Stored(FieldAttr.alloc, Field.v)
FieldOwner ==
    IF Field.a \in Unique THEN UniqueOwnerIncludingPlan(Field.a, FieldValue.v) ELSE None

FieldFacts ==
    /\ busy
    /\ stack \in Seq(Frames(alloc.top, Len(ops), Len(home))) /\ Len(stack) \in 1..Len(stack)
    /\ Frame = stack[Len(stack)] /\ Frame.fields # <<>> /\ Field = Head(Frame.fields)
    /\ Field \in RecordField /\ Field.v \in PlainValue
    /\ Grown(alloc, FieldValue.alloc)
    /\ FieldAttr.e \in 1..(FieldValue.alloc.top - 1)
    /\ FieldValue.v \in Values(FieldValue.alloc.top)
    /\ Field.v.kind = "ref" /\ Field.v.x.kind = "tmp" =>
          /\ Field.v.x.x \in DOMAIN FieldValue.alloc.tempids
          /\ FieldValue.v.x = FieldValue.alloc.tempids[Field.v.x.x]
    /\ \A a \in Unique : FieldAttr.e = ids[a] => Field.a = a
    /\ Field.a \in Unique => /\ FieldAttr.e = ids[Field.a] /\ FieldValue.alloc = alloc
                             /\ FieldValue.v = Scalar(Field.v.x) /\ Field.v.kind = "val"
    /\ FieldOwner \in 1..(alloc.top - 1) \cup {None}

LEMMA FieldFactsHold ==
    ASSUME PlanInv, PlanField
    PROVE  FieldFacts
  <1>0. StoreOK /\ PlanOK /\ AllocatorOK(alloc)
    BY DEF PlanInv, PlanOK
  <1>1. /\ stack # <<>> /\ Frame.fields # <<>> /\ Field.v.kind # "rec"
        /\ FitsType(Field.a, Field.v) /\ FieldValue.found
        /\ (Field.v.kind = "ref" => Resolvable(Field.v.x))
    BY DEF PlanField, FieldValue, FieldAttr
  <1>2. busy /\ stack \in Seq(Frames(alloc.top, Len(ops), Len(home)))
    BY <1>0, <1>1 DEF PlanOK
  <1>3. Len(stack) \in 1..Len(stack) /\ Frame = stack[Len(stack)] /\ Field = Head(Frame.fields)
    BY <1>1, <1>2 DEF Frame, Field
  <1>4. Frame.fields \in Seq(RecordField)
    BY <1>2, <1>3, FrameParts
  <1>5. Field \in RecordField
    BY <1>1, <1>3, <1>4
  <1>6. Field.v \in PlainValue /\ Field.a \in Attr
    BY <1>1, <1>5 DEF RecordField
  <1>7. /\ Grown(alloc, FieldAttr.alloc)
        /\ FieldAttr.e \in 1..(FieldAttr.alloc.top - 1)
        /\ Field.a \in DOMAIN ids => FieldAttr = [alloc |-> alloc, e |-> ids[Field.a]]
        /\ Field.a \notin DOMAIN ids => FieldAttr.e >= next
    BY <1>0, <1>6, NamedOK DEF FieldAttr
  <1>8. AllocatorOK(FieldAttr.alloc)
    BY <1>7 DEF Grown
  <1>9. StoredAs(FieldAttr.alloc, Field.v, FieldValue)
    BY <1>0, <1>1, <1>6, <1>8, StoredOK DEF FieldValue
  <1>10. Grown(FieldAttr.alloc, FieldValue.alloc)
    BY <1>9 DEF StoredAs
  <1>11. Grown(alloc, FieldValue.alloc)
    BY <1>0, <1>7, <1>10, GrownTwice
  <1>12. FieldAttr.e \in 1..(FieldValue.alloc.top - 1)
    BY <1>7, <1>8, <1>10 DEF Grown, AllocatorOK
  <1>13. FieldValue.v \in Values(FieldValue.alloc.top)
    BY <1>1, <1>9 DEF StoredAs
  <1>14. ASSUME NEW a \in Unique, FieldAttr.e = ids[a]
         PROVE  Field.a = a
    <2>1. a \in DOMAIN ids /\ ids[a] \in 1..(next - 1)
      BY <1>0 DEF StoreOK, Declared
    <2>2. Field.a \in DOMAIN ids
      BY <1>0, <1>7, <1>14, <2>1 DEF StoreOK
    <2>3. FieldAttr.e = ids[Field.a]
      BY <1>7, <2>2
    <2> QED
      BY <1>0, <1>14, <2>1, <2>2, <2>3 DEF StoreOK
  <1>15. ASSUME Field.a \in Unique
         PROVE  /\ FieldAttr.e = ids[Field.a] /\ FieldValue.alloc = alloc
                /\ FieldValue.v = Scalar(Field.v.x) /\ Field.v.kind = "val"
                /\ FieldOwner \in 1..(alloc.top - 1) \cup {None}
    <2>1. Field.a \in DOMAIN ids
      BY <1>0, <1>15 DEF StoreOK, Declared
    <2>2. FieldAttr.e = ids[Field.a] /\ FieldAttr.alloc = alloc
      BY <1>7, <2>1
    <2>3. Field.v.kind = "val"
      BY <1>1, <1>15 DEF FitsType
    <2>4. FieldValue = [alloc |-> FieldAttr.alloc, v |-> Scalar(Field.v.x), found |-> TRUE]
      BY <1>9, <2>3 DEF StoredAs
    <2>5. FieldValue.alloc = alloc /\ FieldValue.v = Scalar(Field.v.x)
      BY <2>2, <2>4
    <2>6. FieldOwner \in 1..(alloc.top - 1) \cup {None}
      BY <1>0, <1>15, OwnerType DEF FieldOwner
    <2> QED
      BY <2>2, <2>3, <2>5, <2>6
  <1>16. FieldOwner \in 1..(alloc.top - 1) \cup {None}
    BY <1>15 DEF FieldOwner
  <1>17. Field.v.kind = "ref" /\ Field.v.x.kind = "tmp" =>
             /\ Field.v.x.x \in DOMAIN FieldValue.alloc.tempids
             /\ FieldValue.v.x = FieldValue.alloc.tempids[Field.v.x.x]
    BY <1>9 DEF StoredAs
  <1> QED
    BY <1>1, <1>2, <1>3, <1>5, <1>6, <1>11, <1>12, <1>13, <1>14, <1>15, <1>16, <1>17 DEF FieldFacts

(* What PlanField does. *)
FieldEntity == IF FieldOwner = None THEN Frame.e ELSE FieldOwner
FieldOp == Assertion(FieldEntity, FieldAttr.e, FieldValue.v, Frame.rec)

FieldEffect ==
    /\ FieldEntity # Frame.e => ~Frame.pinned
    /\ FieldEntity = Frame.e =>
          /\ ops' = Append(ops, FieldOp) /\ alloc' = FieldValue.alloc
          /\ UNCHANGED <<home, moved>>
    /\ FieldEntity # Frame.e =>
          /\ ops' = Append(Moved(FieldEntity), FieldOp)
          /\ alloc' = Redirected(FieldValue.alloc, FieldEntity)
          /\ home' = [home EXCEPT ![Frame.rec].e = FieldEntity]
          /\ moved' = moved \cup {[rec |-> Frame.rec, from |-> Frame.e]}
    /\ uses' = (IF Field.v.kind = "ref" THEN Uses(Field.v.x, FieldValue.v.x) ELSE uses)
    /\ stack' = Advance(FieldEntity)
    /\ UNCHANGED <<store, items, busy>>

LEMMA FieldEffectHolds ==
    ASSUME PlanField
    PROVE  FieldEffect
  BY DEF PlanField, FieldEffect, FieldEntity, FieldOwner, FieldValue, FieldAttr, FieldOp

(* The call goes on with the next field. *)
Advanced(u, l, m, e) ==
    /\ Advance(e) \in Seq(Frames(u, l, m)) /\ Len(Advance(e)) = Len(stack)
    /\ \A i \in 1..(Len(stack) - 1) : Advance(e)[i] = stack[i]
    /\ Advance(e)[Len(stack)] =
          [e |-> e, pinned |-> Frame.pinned, start |-> Frame.start,
           fields |-> Tail(Frame.fields), rec |-> Frame.rec]

LEMMA AdvanceOK ==
    ASSUME NEW t \in Nat, NEW u \in Nat, t <= u, NEW k \in Nat, NEW l \in Nat, k <= l, NEW m \in Nat,
           stack \in Seq(Frames(t, k, m)), stack # <<>>,
           Frame.fields # <<>>, NEW e \in 1..(u - 1)
    PROVE  Advanced(u, l, m, e)
  <1>1. PICK n, f : n = Len(stack) /\ f = [e |-> e, pinned |-> Frame.pinned, start |-> Frame.start,
                                           fields |-> Tail(Frame.fields), rec |-> Frame.rec]
    OBVIOUS
  <1>2. n \in Nat /\ n > 0 /\ stack[n] = Frame
    BY <1>1 DEF Frame
  <1>3. Advance(e) = [stack EXCEPT ![n] = f]
    BY <1>1 DEF Advance, Frame
  <1>4. m <= m
    OBVIOUS
  <1>5. Seq(Frames(t, k, m)) \subseteq Seq(Frames(u, l, m))
    BY <1>4, FramesGrow
  <1>6. stack \in Seq(Frames(u, l, m)) /\ n \in 1..Len(stack)
    BY <1>1, <1>2, <1>5
  <1>7. /\ Frame.pinned \in BOOLEAN /\ Frame.start \in 0..l
        /\ Frame.fields \in Seq(RecordField) /\ Frame.rec \in 1..m
    BY <1>2, <1>6, FrameParts
  <1>8. Tail(Frame.fields) \in Seq(RecordField)
    BY <1>7
  <1>9. f \in Frames(u, l, m)
    BY <1>1, <1>7, <1>8 DEF Frames
  <1>10. /\ Advance(e) \in Seq(Frames(u, l, m)) /\ Len(Advance(e)) = Len(stack)
         /\ Advance(e)[n] = f
         /\ \A i \in 1..(n - 1) : Advance(e)[i] = stack[i]
    BY <1>1, <1>2, <1>3, <1>6, <1>9
  <1> QED
    BY <1>1, <1>10 DEF Advanced

(* The next operation is the field's, and its value is planned. *)
LEMMA FieldDone ==
    ASSUME PlanInv, PlanField, NEW P \in Seq(Operations(alloc'.top, Len(home'))),
           ops' = Append(P, FieldOp), FieldOp \in Operations(alloc'.top, Len(home')),
           Len(P) = Len(ops),
           \A j \in 1..Len(ops) : /\ P[j].op = ops[j].op /\ P[j].rec = ops[j].rec
                                  /\ P[j].a = ops[j].a /\ P[j].v = ops[j].v,
           DOMAIN home' = DOMAIN home, \A r \in DOMAIN home : home'[r].fields = home[r].fields,
           stack' \in Seq(Frames(alloc'.top, Len(ops'), Len(home'))), Len(stack') = Len(stack),
           \A i \in 1..(Len(stack) - 1) : stack'[i] = stack[i],
           stack'[Len(stack)].rec = Frame.rec, stack'[Len(stack)].fields = Tail(Frame.fields)
    PROVE  Waiting' /\ FieldsLeft' /\ Given'
  <1>0. FieldFacts /\ PlanOK /\ ids' = ids
    <2>1. FieldFacts
      BY FieldFactsHold
    <2>2. ids' = ids
      BY DEF PlanField, store
    <2> QED
      BY <2>1, <2>2 DEF PlanInv
  <1>1. ops \in Seq(Operations(alloc.top, Len(home))) /\ Len(ops) \in Nat
    BY <1>0 DEF PlanOK
  <1>2. /\ Len(ops') = Len(ops) + 1 /\ ops'[Len(ops) + 1] = FieldOp
        /\ \A j \in 1..Len(ops) : ops'[j] = P[j]
        /\ ops' \in Seq(Operations(alloc'.top, Len(home')))
    BY AppendProperties
  <1>3. DOMAIN ops = 1..Len(ops) /\ DOMAIN ops' = 1..(Len(ops) + 1)
    BY <1>1, <1>2
  <1>4. DOMAIN ops \subseteq DOMAIN ops' /\ Len(ops) + 1 \in DOMAIN ops'
    BY <1>1, <1>3
  <1>5. \A j \in DOMAIN ops : /\ ops'[j].op = ops[j].op /\ ops'[j].rec = ops[j].rec
                             /\ ops'[j].a = ops[j].a /\ ops'[j].v = ops[j].v
    BY <1>2, <1>3
  <1>6. PICK K : K = Len(stack)
    OBVIOUS
  <1>7. /\ K \in 1..Len(stack) /\ stack[K] = Frame /\ Frame.fields # <<>>
        /\ Head(stack[K].fields) = Field
    BY <1>0, <1>6 DEF FieldFacts
  <1>8. /\ FieldOp.op = "assert" /\ FieldOp.rec = Frame.rec /\ FieldOp.a = FieldAttr.e
        /\ FieldOp.v = FieldValue.v
    BY DEF FieldOp, Assertion
  <1>9. Head(stack[K].fields).a \in Unique =>
            \E j \in DOMAIN ops' :
               /\ ops'[j].op = "assert" /\ ops'[j].rec = stack[K].rec
               /\ ops'[j].a = ids[Head(stack[K].fields).a]
               /\ ops'[j].v = Scalar(Head(stack[K].fields).v.x)
    <2> SUFFICES ASSUME Field.a \in Unique
                 PROVE  \E j \in DOMAIN ops' :
                           /\ ops'[j].op = "assert" /\ ops'[j].rec = Frame.rec
                           /\ ops'[j].a = ids[Field.a] /\ ops'[j].v = Scalar(Field.v.x)
      BY <1>7
    <2>1. FieldAttr.e = ids[Field.a] /\ FieldValue.v = Scalar(Field.v.x)
      BY <1>0 DEF FieldFacts
    <2> QED
      BY <1>2, <1>4, <1>8, <2>1
  <1>10. \A k \in 1..(K - 1) : stack'[k].rec = stack[k].rec /\ stack'[k].fields = stack[k].fields
    BY <1>6
  <1>11. \A k \in (K + 1)..Len(stack) : stack[k].fields = <<>>
    BY <1>0, <1>6 DEF FieldFacts
  <1>12. /\ Len(stack') = K /\ stack'[K].rec = stack[K].rec
         /\ stack'[K].fields = Tail(stack[K].fields) /\ stack[K].fields # <<>>
    BY <1>6, <1>7
  <1> QED
    BY <1>0, <1>4, <1>5, <1>7, <1>9, <1>10, <1>11, <1>12, FieldsStep

LEMMA FieldStays ==
    ASSUME PlanInv, PlanField, FieldEntity = Frame.e
    PROVE  PlanInv'
  <1>0. FieldFacts /\ FieldEffect /\ PlanOK /\ StoreOK
    BY FieldFactsHold, FieldEffectHolds DEF PlanInv
  <1>1. /\ ops' = Append(ops, FieldOp) /\ alloc' = FieldValue.alloc /\ home' = home /\ moved' = moved
        /\ uses' = (IF Field.v.kind = "ref" THEN Uses(Field.v.x, FieldValue.v.x) ELSE uses)
        /\ stack' = Advance(Frame.e) /\ items' = items /\ UNCHANGED <<store, busy, home, moved>>
    BY <1>0 DEF FieldEffect
  <1>2. /\ ops \in Seq(Operations(alloc.top, Len(home)))
        /\ stack \in Seq(Frames(alloc.top, Len(ops), Len(home)))
        /\ Len(home) \in Nat /\ Len(ops) \in Nat /\ Len(stack) \in Nat
        /\ alloc.top \in Nat /\ alloc'.top \in Nat /\ alloc.top <= alloc'.top
        /\ Grown(alloc, alloc') /\ items \in Seq(Item)
    BY <1>0, <1>1 DEF PlanOK, AllocatorOK, Grown, FieldFacts
  <1>3. Frame.e \in 1..(alloc.top - 1) /\ Frame.rec \in 1..Len(home) /\ stack # <<>>
    BY <1>0, FrameParts DEF FieldFacts
  <1>4. FieldOp \in Operations(alloc'.top, Len(home))
    BY <1>0, <1>1, <1>2, <1>3 DEF FieldOp, Assertion, Operations, FieldFacts
  <1>5. ops \in Seq(Operations(alloc'.top, Len(home)))
    <2>1. Seq(Operations(alloc.top, Len(home))) \subseteq Seq(Operations(alloc'.top, Len(home)))
      BY <1>2, OperationsGrow
    <2> QED
      BY <1>2, <2>1
  <1>6. Len(ops') = Len(ops) + 1
    BY <1>1, <1>4, <1>5, AppendProperties
  <1>7. Frame.e \in 1..(alloc'.top - 1) /\ Frame.fields # <<>>
    BY <1>0, <1>2, <1>3 DEF FieldFacts
  <1>8. /\ stack' \in Seq(Frames(alloc'.top, Len(ops), Len(home))) /\ Len(stack') = Len(stack)
        /\ \A i \in 1..(Len(stack) - 1) : stack'[i] = stack[i]
        /\ stack'[Len(stack)] =
              [e |-> Frame.e, pinned |-> Frame.pinned, start |-> Frame.start,
               fields |-> Tail(Frame.fields), rec |-> Frame.rec]
    <2>1. PICK t, u, k, m : t = alloc.top /\ u = alloc'.top /\ k = Len(ops) /\ m = Len(home)
      OBVIOUS
    <2>2. /\ t \in Nat /\ u \in Nat /\ k \in Nat /\ m \in Nat /\ t <= u /\ k <= k
          /\ stack \in Seq(Frames(t, k, m)) /\ Frame.e \in 1..(u - 1)
      BY <1>2, <1>7, <2>1
    <2>3. Advanced(u, k, m, Frame.e)
      BY <1>3, <1>7, <2>2, AdvanceOK
    <2> QED
      BY <1>1, <2>1, <2>3 DEF Advanced
  <1>9. stack' \in Seq(Frames(alloc'.top, Len(ops'), Len(home')))
    <2>1. PICK u, k, l, m : u = alloc'.top /\ k = Len(ops) /\ l = Len(ops') /\ m = Len(home)
      OBVIOUS
    <2>2. u \in Nat /\ k \in Nat /\ l \in Nat /\ m \in Nat /\ u <= u /\ k <= l /\ m <= m
      BY <1>2, <1>6, <2>1
    <2>3. Seq(Frames(u, k, m)) \subseteq Seq(Frames(u, l, m))
      BY <2>2, FramesGrow
    <2> QED
      BY <1>1, <1>8, <2>1, <2>3
  <1>10. /\ stack'[Len(stack)].rec = Frame.rec /\ stack'[Len(stack)].fields = Tail(Frame.fields)
         /\ stack'[Len(stack)].e = Frame.e /\ stack'[Len(stack)].start = Frame.start
    BY <1>8
  <1>11. Waiting' /\ FieldsLeft' /\ Given'
    <2>1. PICK P : P = ops
      OBVIOUS
    <2>2. /\ P \in Seq(Operations(alloc'.top, Len(home'))) /\ ops' = Append(P, FieldOp)
          /\ FieldOp \in Operations(alloc'.top, Len(home')) /\ Len(P) = Len(ops)
          /\ \A j \in 1..Len(ops) : /\ P[j].op = ops[j].op /\ P[j].rec = ops[j].rec
                                    /\ P[j].a = ops[j].a /\ P[j].v = ops[j].v
      BY <1>1, <1>4, <1>5, <2>1
    <2>3. DOMAIN home' = DOMAIN home /\ \A r \in DOMAIN home : home'[r].fields = home[r].fields
      BY <1>1
    <2> QED
      BY <1>8, <1>9, <1>10, <2>2, <2>3, FieldDone
  <1>12. Adds(FieldOp)
    <2>1. /\ uses' \subseteq [t : DOMAIN alloc'.tempids, id : Nat]
          /\ \A use \in uses' :
                use \in uses \/ (use.t \in DOMAIN alloc'.tempids /\ use.id = alloc'.tempids[use.t])
      <3>1. uses \subseteq [t : DOMAIN alloc'.tempids, id : Nat]
        BY <1>0, <1>2 DEF PlanOK, Grown
      <3>2. CASE Field.v.kind = "ref" /\ Field.v.x.kind = "tmp"
        <4>1. uses' = uses \cup {[t |-> Field.v.x.x, id |-> FieldValue.v.x]}
          BY <1>1, <3>2 DEF Uses
        <4>2. Field.v.x.x \in DOMAIN alloc'.tempids /\ FieldValue.v.x = alloc'.tempids[Field.v.x.x]
          BY <1>0, <1>1, <3>2 DEF FieldFacts
        <4>3. alloc'.tempids[Field.v.x.x] \in Nat
          BY <1>2, <4>2 DEF Grown, AllocatorOK
        <4> QED
          BY <3>1, <4>1, <4>2, <4>3
      <3>3. CASE ~(Field.v.kind = "ref" /\ Field.v.x.kind = "tmp")
        <4>1. uses' = uses
          BY <1>1, <3>3 DEF Uses
        <4> QED
          BY <3>1, <4>1
      <3> QED
        BY <3>2, <3>3
    <2>2. \A k \in 1..Len(stack') : /\ stack'[k].e = stack[k].e /\ stack'[k].start = stack[k].start
                                    /\ stack'[k].rec = stack[k].rec
      <3>1. stack[Len(stack)] = Frame
        BY DEF Frame
      <3>2. \A k \in 1..Len(stack') : k \in 1..(Len(stack) - 1) \/ k = Len(stack)
        BY <1>2, <1>8
      <3> QED
        BY <1>8, <1>10, <3>1, <3>2
    <2>3. /\ FieldOp.op = "assert" /\ FieldOp.e = Frame.e /\ FieldOp.a = FieldAttr.e
          /\ FieldOp.v = FieldValue.v /\ FieldOp.rec = Frame.rec
      BY DEF FieldOp, Assertion
    <2>4. ASSUME NEW a \in Unique, FieldOp.a = ids[a]
          PROVE  UniqueOwnerIncludingPlan(a, FieldOp.v) \in {None, FieldOp.e}
      <3>1. Field.a = a
        BY <1>0, <2>3, <2>4 DEF FieldFacts
      <3>2. FieldOwner = UniqueOwnerIncludingPlan(a, FieldOp.v)
        BY <2>3, <3>1 DEF FieldOwner
      <3> QED
        BY <2>3, <3>2 DEF FieldEntity
    <2>5. Len(stack') > 0 /\ Len(stack') <= Len(stack)
      BY <1>2, <1>3, <1>8
    <2>6. FieldOp.rec = stack'[Len(stack')].rec /\ FieldOp.e = stack'[Len(stack')].e
      BY <1>8, <1>10, <2>3
    <2>7. \A a \in Unique :
              FieldOp.op = "assert" /\ FieldOp.a = ids[a] /\ FieldOp.rec # 0 =>
                  UniqueOwnerIncludingPlan(a, FieldOp.v) \in {None, FieldOp.e}
      BY <2>4
    <2>8. FieldOp.rec # 0 => /\ Len(stack') > 0
                             /\ FieldOp.rec = stack'[Len(stack')].rec
                             /\ FieldOp.e = stack'[Len(stack')].e
      BY <2>5, <2>6
    <2>9. items' \in Seq(Item) /\ Len(stack') <= Len(stack)
      BY <1>1, <1>2, <2>5
    <2> QED
      BY <1>1, <1>2, <1>4, <1>8, <2>1, <2>2, <2>7, <2>8, <2>9, Zenon DEF Adds
  <1> QED
    BY <1>0, <1>11, <1>12, AddsStep DEF FieldFacts

(* The record turns out to be another entity. *)
LEMMA FieldMoves ==
    ASSUME PlanInv, PlanField, FieldEntity # Frame.e
    PROVE  PlanInv'
  <1>0. /\ FieldFacts /\ FieldEffect /\ StoreOK /\ PlanOK /\ Nesting /\ Spans
        /\ RecordWholeUnlessNested /\ TokenOneEntity /\ FirstOwns
    BY FieldFactsHold, FieldEffectHolds DEF PlanInv
  <1>1. PICK e, P, K, R, S, F : /\ e = FieldEntity /\ P = Moved(FieldEntity) /\ K = Len(stack)
                                /\ R = Frame.rec /\ S = Frame.start /\ F = Frame.e
    OBVIOUS
  <1>2. FieldOwner # None /\ Field.a \in Unique
    BY DEF FieldEntity, FieldOwner
  <1>3. e \in 1..(alloc.top - 1) /\ FieldValue.alloc = alloc /\ Field.v.kind = "val"
    BY <1>0, <1>1, <1>2 DEF FieldFacts, FieldEntity
  <1>4. /\ ops' = Append(P, FieldOp) /\ alloc' = Redirected(alloc, e)
        /\ home' = [home EXCEPT ![R].e = e]
        /\ moved' = moved \cup {[rec |-> R, from |-> F]}
        /\ uses' = uses /\ stack' = Advance(e) /\ items' = items /\ busy' = busy
        /\ ids' = ids /\ next' = next /\ live' = live
    BY <1>0, <1>1, <1>3 DEF FieldEffect, store
  <1>5. /\ ops \in Seq(Operations(alloc.top, Len(home)))
        /\ stack \in Seq(Frames(alloc.top, Len(ops), Len(home)))
        /\ home \in Seq(Homes(alloc.top)) /\ items \in Seq(Item) /\ AllocatorOK(alloc)
        /\ Len(home) \in Nat /\ Len(ops) \in Nat /\ Len(stack) \in Nat /\ alloc.top \in Nat
        /\ busy /\ stack # <<>> /\ Frame.fields # <<>>
    BY <1>0 DEF PlanOK, AllocatorOK, FieldFacts
  <1>6. /\ K \in 1..K /\ K \in Nat /\ stack[K] = Frame
        /\ stack[K].rec = R /\ stack[K].start = S /\ stack[K].e = F
        /\ F \in 1..(alloc.top - 1) /\ R \in 1..Len(home) /\ S \in 0..Len(ops)
        /\ S \in Nat
    <2>1. K \in 1..Len(stack) /\ stack[K] = Frame
      BY <1>0, <1>1 DEF FieldFacts
    <2>2. /\ stack[K].e \in 1..(alloc.top - 1) /\ stack[K].start \in 0..Len(ops)
          /\ stack[K].rec \in 1..Len(home)
      BY <1>5, <2>1, FrameParts
    <2> QED
      BY <1>1, <1>5, <2>1, <2>2
  <1>7. /\ alloc' = [fresh |-> alloc.fresh, tempids |-> alloc'.tempids, top |-> alloc.top]
        /\ alloc'.fresh = alloc.fresh /\ alloc'.top = alloc.top
        /\ DOMAIN alloc'.tempids = DOMAIN alloc.tempids
        /\ \A t \in DOMAIN alloc.tempids :
              alloc'.tempids[t] = IF alloc.tempids[t] = F THEN e ELSE alloc.tempids[t]
        /\ alloc'.tempids \in [DOMAIN alloc.tempids -> 1..(alloc.top - 1)]
    <2>1. PICK T : T = [t \in DOMAIN alloc.tempids |-> IF alloc.tempids[t] = F THEN e ELSE alloc.tempids[t]]
      OBVIOUS
    <2>2. alloc' = [alloc EXCEPT !.tempids = T]
      BY <1>1, <1>4, <2>1 DEF Redirected
    <2>3. alloc' = [fresh |-> alloc.fresh, tempids |-> T, top |-> alloc.top]
      BY <1>5, <2>2 DEF AllocatorOK
    <2>4. alloc'.fresh = alloc.fresh /\ alloc'.top = alloc.top /\ alloc'.tempids = T
      BY <2>3
    <2>5. \A t \in DOMAIN alloc.tempids : alloc.tempids[t] \in 1..(alloc.top - 1)
      BY <1>5 DEF AllocatorOK
    <2>6. T \in [DOMAIN alloc.tempids -> 1..(alloc.top - 1)]
      BY <1>3, <2>1, <2>5
    <2> QED
      BY <2>1, <2>3, <2>4, <2>6
  <1>8. /\ P \in Seq(Operations(alloc.top, Len(home))) /\ Len(P) = Len(ops)
        /\ \A j \in 1..Len(ops) : /\ P[j].op = ops[j].op /\ P[j].rec = ops[j].rec
                                  /\ P[j].a = ops[j].a /\ P[j].v = ops[j].v
                                  /\ P[j].e = IF j > S THEN e ELSE ops[j].e
                                  /\ j <= S => P[j] = ops[j]
    <2>1. P = [i \in 1..Len(ops) |-> IF i > S THEN [ops[i] EXCEPT !.e = e] ELSE ops[i]]
      BY <1>1, <1>5 DEF Moved
    <2>2. ASSUME NEW j \in 1..Len(ops)
          PROVE  /\ P[j].op = ops[j].op /\ P[j].rec = ops[j].rec
                 /\ P[j].a = ops[j].a /\ P[j].v = ops[j].v
                 /\ P[j].e = IF j > S THEN e ELSE ops[j].e
                 /\ j <= S => P[j] = ops[j]
                 /\ P[j] \in Operations(alloc.top, Len(home))
      <3>1. ops[j] \in Operations(alloc.top, Len(home))
        BY <1>5, OperationParts
      <3>2. CASE j > S
        <4>1. P[j] = [ops[j] EXCEPT !.e = e]
          BY <2>1, <3>2
        <4>2. ~(j <= S)
          BY <1>6, <3>2
        <4> QED
          BY <1>3, <3>1, <3>2, <4>1, <4>2 DEF Operations
      <3>3. CASE ~(j > S)
        <4>1. P[j] = ops[j]
          BY <2>1, <3>3
        <4> QED
          BY <3>1, <3>3, <4>1
      <3> QED
        BY <3>2, <3>3
    <2>3. P \in [1..Len(ops) -> Operations(alloc.top, Len(home))]
      BY <2>1, <2>2
    <2>4. P \in Seq(Operations(alloc.top, Len(home))) /\ Len(P) = Len(ops)
      BY <1>5, <2>3, FunctionIsSeq
    <2> QED
      BY <2>2, <2>4
  <1>9. /\ Len(home') = Len(home) /\ home' \in Seq(Homes(alloc.top))
        /\ home'[R].e = e /\ home'[R].within = home[R].within /\ home'[R].fields = home[R].fields
        /\ \A r \in 1..Len(home) : r # R => home'[r] = home[r]
    <2>1. home[R] \in Homes(alloc.top)
      BY <1>5, <1>6, HomeParts
    <2>2. [home[R] EXCEPT !.e = e] \in Homes(alloc.top)
      BY <1>3, <2>1 DEF Homes
    <2>3. home' = [home EXCEPT ![R] = [home[R] EXCEPT !.e = e]]
      BY <1>4
    <2>4. /\ Len(home') = Len(home) /\ home' \in Seq(Homes(alloc.top))
          /\ home'[R] = [home[R] EXCEPT !.e = e]
          /\ \A r \in 1..Len(home) : r # R => home'[r] = home[r]
      <3>1. PICK H : H = [home[R] EXCEPT !.e = e]
        OBVIOUS
      <3>2. H \in Homes(alloc.top) /\ home' = [home EXCEPT ![R] = H]
        BY <2>2, <2>3, <3>1
      <3>3. /\ Len(home') = Len(home) /\ home' \in Seq(Homes(alloc.top)) /\ home'[R] = H
            /\ \A r \in 1..Len(home) : r # R => home'[r] = home[r]
        BY <1>5, <1>6, <3>2
      <3> QED
        BY <3>1, <3>3
    <2>5. /\ [home[R] EXCEPT !.e = e].e = e
          /\ [home[R] EXCEPT !.e = e].within = home[R].within
          /\ [home[R] EXCEPT !.e = e].fields = home[R].fields
      BY <2>1 DEF Homes
    <2> QED
      BY <2>4, <2>5
  <1>10. FieldOp \in Operations(alloc.top, Len(home))
    BY <1>0, <1>1, <1>3, <1>5, <1>6 DEF FieldOp, Assertion, Operations, FieldFacts
  <1>11. /\ Len(ops') = Len(ops) + 1 /\ ops'[Len(ops) + 1] = FieldOp
         /\ \A j \in 1..Len(ops) : ops'[j] = P[j]
         /\ ops' \in Seq(Operations(alloc.top, Len(home)))
    BY <1>4, <1>8, <1>10, AppendProperties
  <1>12. /\ DOMAIN ops = 1..Len(ops) /\ DOMAIN ops' = 1..(Len(ops) + 1)
         /\ DOMAIN home = 1..Len(home) /\ DOMAIN home' = 1..Len(home)
         /\ DOMAIN stack = 1..K
         /\ \A i \in DOMAIN ops' : i \in DOMAIN ops \/ i = Len(ops) + 1
    BY <1>1, <1>5, <1>9, <1>11
  <1>13. /\ FieldOp.op = "assert" /\ FieldOp.e = e /\ FieldOp.rec = R
    BY <1>1 DEF FieldOp, Assertion
  <1>14. /\ stack' \in Seq(Frames(alloc.top, Len(ops'), Len(home))) /\ Len(stack') = K
         /\ \A i \in 1..(K - 1) : stack'[i] = stack[i]
         /\ stack'[K].e = e /\ stack'[K].start = S /\ stack'[K].rec = R
         /\ stack'[K].fields = Tail(Frame.fields)
         /\ DOMAIN stack' = 1..K
    <2>1. PICK t, k, l, m : t = alloc.top /\ k = Len(ops) /\ l = Len(ops') /\ m = Len(home)
      OBVIOUS
    <2>2. /\ t \in Nat /\ k \in Nat /\ l \in Nat /\ m \in Nat /\ t <= t /\ k <= l
          /\ stack \in Seq(Frames(t, k, m)) /\ e \in 1..(t - 1)
      BY <1>3, <1>5, <1>11, <2>1
    <2>3. Advanced(t, l, m, e)
      BY <1>5, <2>2, AdvanceOK
    <2> QED
      BY <1>1, <1>4, <1>6, <2>1, <2>3 DEF Advanced
  <1>15. StoreOK'
    BY <1>0, <1>4 DEF StoreOK
  <1>16. PlanOK'
    <2>1. AllocatorOK(alloc)'
      BY <1>4, <1>5, <1>7 DEF AllocatorOK
    <2>2. uses' \subseteq [t : DOMAIN alloc'.tempids, id : Nat]
      BY <1>0, <1>4, <1>7 DEF PlanOK
    <2>3. moved' \subseteq [rec : 1..Len(home'), from : Nat]
      BY <1>0, <1>4, <1>5, <1>6, <1>9 DEF PlanOK
    <2> QED
      BY <1>4, <1>5, <1>7, <1>9, <1>11, <1>14, <2>1, <2>2, <2>3 DEF PlanOK
  <1>17. ASSUME NEW k \in 1..(K - 1)
         PROVE  /\ k \in DOMAIN stack /\ stack'[k] = stack[k]
                /\ stack[k].rec \in DOMAIN home /\ stack[k].rec # R
                /\ home'[stack[k].rec] = home[stack[k].rec]
    <2>1. k \in DOMAIN stack /\ stack'[k] = stack[k] /\ K \in DOMAIN stack
      BY <1>6, <1>12, <1>14
    <2>2. home[R].within = {stack[j].rec : j \in 1..(K - 1)} /\ home[R].within \subseteq 1..(R - 1)
      BY <1>0, <1>6, <1>12, <2>1 DEF Nesting
    <2>3. stack[k].rec \in 1..(R - 1)
      BY <2>2
    <2>4. stack[k].rec # R /\ stack[k].rec \in 1..Len(home)
      BY <1>5, <1>6, <2>3
    <2> QED
      BY <1>9, <1>12, <2>1, <2>4
  <1>18. \A k \in DOMAIN stack' : k \in 1..(K - 1) \/ k = K
    BY <1>6, <1>14
  <1>19. \A r \in DOMAIN home : home'[r].within = home[r].within /\ home'[r].fields = home[r].fields
    BY <1>9, <1>12
  <1>20. ASSUME NEW k \in DOMAIN stack'
         PROVE  /\ k \in DOMAIN stack /\ stack'[k].rec = stack[k].rec /\ stack'[k].start = stack[k].start
                /\ stack[k].rec \in DOMAIN home
                /\ {stack'[j].rec : j \in 1..(k - 1)} = {stack[j].rec : j \in 1..(k - 1)}
    <2>1. k \in DOMAIN stack /\ stack'[k].rec = stack[k].rec /\ stack'[k].start = stack[k].start
      BY <1>6, <1>12, <1>14, <1>17, <1>18
    <2>2. \A j \in 1..(k - 1) : stack'[j] = stack[j]
      BY <1>6, <1>14
    <2> QED
      BY <1>6, <1>12, <1>17, <1>18, <2>1, <2>2
  <1>21. Nesting'
    <2>1. ASSUME NEW r \in DOMAIN home'
          PROVE  home'[r].within \subseteq 1..(r - 1)
      BY <1>0, <1>12, <1>19 DEF Nesting
    <2>2. ASSUME NEW k \in DOMAIN stack'
          PROVE  /\ stack'[k].e = home'[stack'[k].rec].e
                 /\ home'[stack'[k].rec].within = {stack'[j].rec : j \in 1..(k - 1)}
      <3>1. /\ stack[k].e = home[stack[k].rec].e
            /\ home[stack[k].rec].within = {stack[j].rec : j \in 1..(k - 1)}
        BY <1>0, <1>20 DEF Nesting
      <3>2. stack'[k].e = home'[stack'[k].rec].e
        BY <1>9, <1>14, <1>17, <1>18, <3>1
      <3> QED
        BY <1>19, <1>20, <3>1, <3>2
    <2> QED
      BY <2>1, <2>2 DEF Nesting
  <1>22. ASSUME NEW i \in DOMAIN ops
         PROVE  /\ ops'[i].rec = ops[i].rec /\ i \in 1..Len(ops) /\ i \in Nat
                /\ ops[i].rec # 0 => ops[i].rec \in DOMAIN home
                /\ ops'[i].e = IF i > S THEN e ELSE ops[i].e
    <2>1. /\ ops'[i].rec = ops[i].rec /\ i \in 1..Len(ops)
          /\ ops'[i].e = IF i > S THEN e ELSE ops[i].e
      BY <1>8, <1>11, <1>12
    <2>2. ops[i].rec \in 0..Len(home)
      BY <1>5, <1>12, OperationParts
    <2> QED
      BY <1>5, <1>12, <2>1, <2>2
  <1>23. Spans'
    <2> SUFFICES ASSUME NEW i \in DOMAIN ops', ops'[i].rec # 0, NEW k \in DOMAIN stack'
                 PROVE  i > stack'[k].start <=> \/ stack'[k].rec = ops'[i].rec
                                                \/ stack'[k].rec \in home'[ops'[i].rec].within
      BY DEF Spans
    <2>1. CASE i \in DOMAIN ops
      <3>1. i > stack[k].start <=> \/ stack[k].rec = ops[i].rec
                                   \/ stack[k].rec \in home[ops[i].rec].within
        BY <1>0, <1>20, <1>22, <2>1 DEF Spans
      <3>2. home'[ops'[i].rec].within = home[ops[i].rec].within
        BY <1>19, <1>22, <2>1
      <3> QED
        BY <1>20, <1>22, <2>1, <3>1, <3>2
    <2>2. CASE i = Len(ops) + 1
      <3>1. ops'[i].rec = R
        BY <1>11, <1>13, <2>2
      <3>2. stack[k].start \in 0..Len(ops)
        <4>1. k \in 1..Len(stack)
          BY <1>1, <1>12, <1>20
        <4> QED
          BY <1>5, <4>1, FrameParts
      <3>3. i > stack'[k].start
        BY <1>5, <1>20, <2>2, <3>2
      <3>4. home'[R].within = {stack[j].rec : j \in 1..(K - 1)}
        BY <1>0, <1>6, <1>9, <1>12 DEF Nesting
      <3>5. stack'[k].rec = R \/ stack'[k].rec \in home'[R].within
        BY <1>14, <1>17, <1>18, <3>4
      <3> QED
        BY <3>1, <3>3, <3>5
    <2> QED
      BY <1>12, <2>1, <2>2
  <1>24. ASSUME NEW i \in DOMAIN ops, ops[i].rec # 0, ops[i].rec # R,
                R \notin home[ops[i].rec].within
         PROVE  i <= S
    <2>1. K \in DOMAIN stack
      BY <1>6, <1>12
    <2>2. i > stack[K].start <=> \/ stack[K].rec = ops[i].rec
                                 \/ stack[K].rec \in home[ops[i].rec].within
      BY <1>0, <1>24, <2>1 DEF Spans
    <2>3. ~(i > S)
      BY <1>6, <1>24, <2>2
    <2> QED
      BY <1>6, <1>22, <2>3
  <1>25. [rec |-> R, from |-> F] \in moved' /\ moved \subseteq moved'
    BY <1>4
  <1>26. RecordWholeUnlessNested'
    <2> SUFFICES ASSUME NEW i \in DOMAIN ops', ops'[i].rec # 0,
                        \A m \in moved' : m.rec \notin home'[ops'[i].rec].within
                 PROVE  ops'[i].e = home'[ops'[i].rec].e
      BY DEF RecordWholeUnlessNested
    <2>1. CASE i \in DOMAIN ops
      <3>1. ops'[i].rec = ops[i].rec /\ ops[i].rec \in DOMAIN home
        BY <1>22, <2>1
      <3>2. \A m \in moved' : m.rec \notin home[ops[i].rec].within
        BY <1>19, <3>1
      <3>3. R \notin home[ops[i].rec].within
        BY <1>25, <3>2
      <3>4. CASE ops[i].rec = R
        <4>1. K \in DOMAIN stack
          BY <1>6, <1>12
        <4>2. i > stack[K].start
          BY <1>0, <1>6, <2>1, <3>1, <3>4, <4>1 DEF Spans
        <4> QED
          BY <1>6, <1>9, <1>22, <2>1, <3>1, <3>4, <4>2
      <3>5. CASE ops[i].rec # R
        <4>1. i <= S
          BY <1>24, <2>1, <3>1, <3>3, <3>5
        <4>2. ~(i > S)
          BY <1>6, <1>22, <2>1, <4>1
        <4>3. ops[i].e = home[ops[i].rec].e
          BY <1>0, <1>25, <2>1, <3>1, <3>2 DEF RecordWholeUnlessNested
        <4>4. home'[ops[i].rec] = home[ops[i].rec]
          BY <1>9, <1>12, <3>1, <3>5
        <4> QED
          BY <1>22, <2>1, <3>1, <4>2, <4>3, <4>4
      <3> QED
        BY <3>4, <3>5
    <2>2. CASE i = Len(ops) + 1
      BY <1>9, <1>11, <1>13, <2>2
    <2> QED
      BY <1>12, <2>1, <2>2
  <1>27. TokenOneEntity'
    <2> SUFFICES ASSUME NEW use \in uses
                 PROVE  use.id = alloc'.tempids[use.t] \/ \E m \in moved' : m.from = use.id
      BY <1>4 DEF TokenOneEntity
    <2>1. use.t \in DOMAIN alloc.tempids
      BY <1>0 DEF PlanOK
    <2>2. use.id = alloc.tempids[use.t] \/ \E m \in moved : m.from = use.id
      BY <1>0 DEF TokenOneEntity
    <2>3. CASE use.id = F
      BY <1>25, <2>3
    <2>4. CASE use.id = alloc.tempids[use.t] /\ use.id # F
      BY <1>7, <2>1, <2>4
    <2> QED
      BY <1>25, <2>2, <2>3, <2>4
  <1>28. Waiting' /\ FieldsLeft' /\ Given'
    <2>1. /\ P \in Seq(Operations(alloc'.top, Len(home')))
          /\ FieldOp \in Operations(alloc'.top, Len(home'))
          /\ stack' \in Seq(Frames(alloc'.top, Len(ops'), Len(home')))
      BY <1>7, <1>8, <1>9, <1>10, <1>14
    <2>2. \A j \in 1..Len(ops) : /\ P[j].op = ops[j].op /\ P[j].rec = ops[j].rec
                                 /\ P[j].a = ops[j].a /\ P[j].v = ops[j].v
      BY <1>8
    <2>3. DOMAIN home' = DOMAIN home /\ \A r \in DOMAIN home : home'[r].fields = home[r].fields
      BY <1>12, <1>19
    <2>4. /\ Len(stack') = Len(stack) /\ \A i \in 1..(Len(stack) - 1) : stack'[i] = stack[i]
          /\ stack'[Len(stack)].rec = Frame.rec /\ stack'[Len(stack)].fields = Tail(Frame.fields)
      BY <1>1, <1>14
    <2>5. ops' = Append(P, FieldOp) /\ Len(P) = Len(ops)
      BY <1>4, <1>8
    <2> QED
      BY <2>1, <2>2, <2>3, <2>4, <2>5, FieldDone
  <1>29. FirstOwns'
    <2> SUFFICES ASSUME NEW i \in DOMAIN ops', NEW a \in Unique,
                        ops'[i].op = "assert", ops'[i].a = ids'[a], ops'[i].rec # 0,
                        Settled(ops[i].rec)'
                 PROVE  UniqueOwnerIncludingPlan(a, ops[i].v)' = ops'[i].e
      BY DEF FirstOwns
    <2>1. PICK v, r : v = ops'[i].v /\ r = ops'[i].rec
      OBVIOUS
    <2>2. \A m \in moved' : m.rec \notin home'[r].within /\ m.rec # r
      BY <2>1 DEF Settled, NestedInMoved
    <2>3. R # r /\ R \notin home'[r].within
      BY <1>25, <2>2
    <2>4. i \in DOMAIN ops
      BY <1>11, <1>12, <1>13, <2>1, <2>3
    <2>5. ops[i].rec = r /\ r \in DOMAIN home /\ ops[i].v = v /\ ops[i].op = "assert" /\ ops[i].a = ids[a]
      BY <1>4, <1>8, <1>11, <1>12, <1>22, <2>1, <2>4
    <2>6. home'[r].within = home[r].within
      BY <1>19, <2>5
    <2>7. i <= S
      BY <1>24, <2>1, <2>3, <2>4, <2>5, <2>6
    <2>8. Settled(r)
      BY <1>25, <2>2, <2>6 DEF Settled, NestedInMoved
    <2>9. UniqueOwnerIncludingPlan(a, v) = ops[i].e
      BY <1>0, <2>1, <2>4, <2>5, <2>8 DEF FirstOwns
    <2>10. UniqueOwnerIncludingPlan(a, ops[i].v)' = OwnerIn(ops', ids[a], v, UniqueOwner(a, v))
      <3>1. UniqueOwnerIncludingPlan(a, ops[i].v)' = OwnerIn(ops', ids'[a], v, UniqueOwner(a, ops[i].v)')
        BY <2>1 DEF UniqueOwnerIncludingPlan
      <3>2. UniqueOwner(a, ops[i].v)' = UniqueOwner(a, v)
        BY <1>4, <2>1 DEF UniqueOwner
      <3> QED
        BY <1>4, <3>1, <3>2
    <2>11. OwnerIn(ops', ids[a], v, UniqueOwner(a, v)) = OwnerIn(ops, ids[a], v, UniqueOwner(a, v))
      <3>1. S \in 0..Len(ops) /\ S <= Len(ops') /\ i \in 1..S
        BY <1>5, <1>6, <1>11, <1>22, <2>4, <2>7
      <3>2. \A j \in 1..S : ops'[j] = ops[j]
        <4>1. \A j \in 1..S : j \in 1..Len(ops) /\ j <= S
          BY <1>5, <1>6
        <4> QED
          BY <1>8, <1>11, <4>1
      <3>3. Asserts(ops[i], ids[a], v)
        BY <2>5 DEF Asserts
      <3> QED
        <4>1. PICK X, s, t, ida, d : /\ X = Operations(alloc.top, Len(home)) /\ s = ops /\ t = ops'
                                     /\ ida = ids[a] /\ d = UniqueOwner(a, v)
          OBVIOUS
        <4>2. /\ s \in Seq(X) /\ t \in Seq(X) /\ S \in 0..Len(s) /\ S <= Len(t) /\ i \in 1..S
              /\ \A j \in 1..S : t[j] = s[j]
          BY <1>5, <1>11, <3>1, <3>2, <4>1
        <4>3. Asserts(s[i], ida, v)
          BY <3>3, <4>1
        <4>4. OwnerIn(t, ida, v, d) = OwnerIn(s, ida, v, d)
          BY <4>2, <4>3, OwnerPrefix
        <4> QED
          BY <4>1, <4>4
    <2>12. UniqueOwnerIncludingPlan(a, v) = OwnerIn(ops, ids[a], v, UniqueOwner(a, v))
      BY DEF UniqueOwnerIncludingPlan
    <2>13. ops'[i].e = ops[i].e
      BY <1>6, <1>22, <2>4, <2>7
    <2> QED
      BY <2>9, <2>10, <2>11, <2>12, <2>13
  <1> QED
    BY <1>15, <1>16, <1>21, <1>23, <1>26, <1>27, <1>28, <1>29 DEF PlanInv

LEMMA PlanFieldStep ==
    ASSUME PlanInv, PlanField
    PROVE  PlanInv'
  BY FieldStays, FieldMoves

-----------------------------------------------------------------------------
(* planMap returns. *)

LEMMA LeaveLast ==
    ASSUME PlanInv, Leave, Len(stack) = 1
    PROVE  PlanInv'
  <1>0. /\ StoreOK /\ PlanOK /\ Nesting /\ Spans /\ RecordWholeUnlessNested
        /\ TokenOneEntity /\ FieldsLeft /\ Given /\ FirstOwns
    BY DEF PlanInv
  <1>1. /\ ids' = ids /\ next' = next /\ live' = live /\ busy' = busy /\ home' = home
        /\ moved' = moved /\ ops' = ops /\ alloc' = alloc /\ uses' = uses /\ items' = items
        /\ stack' = <<>> /\ stack # <<>> /\ Frame.fields = <<>>
    BY DEF Leave, store
  <1>2. /\ stack \in Seq(Frames(alloc.top, Len(ops), Len(home)))
        /\ home \in Seq(Homes(alloc.top))
        /\ DOMAIN stack = {1} /\ DOMAIN stack' = {} /\ DOMAIN home = 1..Len(home)
        /\ stack[1].fields = <<>>
    BY <1>0, <1>1 DEF PlanOK, Frame
  <1>3. busy
    BY <1>0, <1>1 DEF PlanOK
  <1>4. StoreOK' /\ RecordWholeUnlessNested' /\ TokenOneEntity'
    BY <1>0, <1>1 DEF StoreOK, RecordWholeUnlessNested, TokenOneEntity
  <1>5. PlanOK'
    <2>1. AllocatorOK(alloc)'
      BY <1>0, <1>1 DEF PlanOK, AllocatorOK
    <2>2. stack' \in Seq(Frames(alloc'.top, Len(ops'), Len(home')))
      BY <1>1
    <2> QED
      BY <1>0, <1>1, <1>3, <2>1, <2>2 DEF PlanOK
  <1>6. Nesting' /\ Spans' /\ FieldsLeft' /\ Waiting'
    BY <1>0, <1>1, <1>2 DEF Nesting, Spans, FieldsLeft, Waiting
  <1>7. Given'
    <2> SUFFICES ASSUME NEW r \in DOMAIN home, NEW i \in DOMAIN home[r].fields,
                        home[r].fields[i].a \in Unique
                 PROVE  PlannedValue(r, i)'
      BY <1>1 DEF Given
    <2>1. \/ PlannedValue(r, i)
          \/ \E k \in DOMAIN stack : stack[k].rec = r /\ i > Pending(k)
      BY <1>0 DEF Given
    <2>2. home[r].fields \in Seq(RecordField)
      BY <1>2, HomeParts
    <2>3. ASSUME stack[1].rec = r, i > Pending(1)
          PROVE  FALSE
      <3>1. Pending(1) = Len(home[r].fields)
        BY <1>2, <2>2, <2>3 DEF Pending
      <3> QED
        BY <2>2, <2>3, <3>1
    <2>4. PlannedValue(r, i)
      BY <1>2, <2>1, <2>3
    <2> QED
      BY <1>1, <2>4 DEF PlannedValue
  <1>8. FirstOwns'
    <2> SUFFICES ASSUME NEW i \in DOMAIN ops, NEW a \in Unique,
                        ops[i].op = "assert", ops[i].a = ids[a], ops[i].rec # 0,
                        Settled(ops[i].rec)'
                 PROVE  UniqueOwnerIncludingPlan(a, ops[i].v)' = ops[i].e
      BY <1>1 DEF FirstOwns
    <2>1. Settled(ops[i].rec)
      BY <1>1 DEF Settled, NestedInMoved
    <2>2. UniqueOwnerIncludingPlan(a, ops[i].v)' = UniqueOwnerIncludingPlan(a, ops[i].v)
      BY <1>1 DEF UniqueOwnerIncludingPlan, UniqueOwner
    <2> QED
      BY <1>0, <2>1, <2>2 DEF FirstOwns
  <1> QED
    BY <1>4, <1>5, <1>6, <1>7, <1>8 DEF PlanInv

(* The caller refers to the record that was nested in it. *)
LEMMA LeaveChild ==
    ASSUME PlanInv, Leave, Len(stack) # 1
    PROVE  PlanInv'
  <1>0. StoreOK /\ PlanOK /\ Waiting
    BY DEF PlanInv
  <1>1. PICK K, caller, op :
            /\ K = Len(stack) - 1 /\ caller = stack[Len(stack) - 1]
            /\ op = Assertion(caller.e, ids[Head(caller.fields).a], RefTo(Frame.e), caller.rec)
    OBVIOUS
  <1>2. /\ ids' = ids /\ UNCHANGED <<store, busy, home, moved>> /\ alloc' = alloc /\ uses' = uses
        /\ items' = items /\ home' = home /\ ops' = Append(ops, op)
        /\ stack' = [Front(stack) EXCEPT ![K].fields = Tail(@)]
        /\ stack # <<>> /\ Frame.fields = <<>>
    BY <1>1 DEF Leave, store
  <1>3. /\ stack \in Seq(Frames(alloc.top, Len(ops), Len(home)))
        /\ ops \in Seq(Operations(alloc.top, Len(home)))
        /\ Len(stack) \in Nat /\ Len(ops) \in Nat /\ Len(home) \in Nat
        /\ AllocatorOK(alloc) /\ alloc.top \in Nat /\ items \in Seq(Item)
        /\ uses \subseteq [t : DOMAIN alloc.tempids, id : Nat]
    BY <1>0 DEF PlanOK, AllocatorOK
  <1>4. /\ Len(stack) = K + 1 /\ K \in 1..Len(stack) /\ K \in Nat /\ stack[K] = caller
        /\ K \in 1..(Len(stack) - 1) /\ Frame = stack[K + 1] /\ K + 1 \in 1..Len(stack)
    <2>a. stack # <<>>
      BY <1>2
    <2>b. Len(stack) # 0
      BY <1>3, <2>a
    <2>c. PICK n : n = Len(stack)
      OBVIOUS
    <2>d. n \in Nat /\ n # 0 /\ n # 1
      BY <1>3, <2>b, <2>c
    <2>e. n > 1
      BY <2>d
    <2>1. Len(stack) > 1
      BY <2>c, <2>e
    <2> QED
      BY <1>1, <1>3, <2>1 DEF Frame
  <1>5. /\ caller \in Frames(alloc.top, Len(ops), Len(home))
        /\ caller.e \in 1..(alloc.top - 1) /\ caller.rec \in 1..Len(home)
        /\ caller.fields \in Seq(RecordField) /\ Frame.e \in 1..(alloc.top - 1)
    BY <1>3, <1>4, FrameParts
  <1>6. caller.fields # <<>> /\ Head(caller.fields).a \in RefTyped
    BY <1>0, <1>4 DEF Waiting
  <1>7. /\ Head(caller.fields).a \in DOMAIN ids
        /\ ids[Head(caller.fields).a] \in 1..(alloc.top - 1)
    BY <1>0, <1>3, <1>6 DEF StoreOK, Declared, AllocatorOK
  <1>8. /\ op.op = "assert" /\ op.e = caller.e /\ op.a = ids[Head(caller.fields).a]
        /\ op.v = RefTo(Frame.e) /\ op.rec = caller.rec
    BY <1>1 DEF Assertion
  <1>9. op \in Operations(alloc.top, Len(home))
    <2>1. RefTo(Frame.e) \in Values(alloc.top)
      BY <1>5 DEF Values
    <2> QED
      BY <1>1, <1>3, <1>5, <1>7, <2>1 DEF Assertion, Operations
  <1>10. PICK f : f = [caller EXCEPT !.fields = Tail(@)]
    OBVIOUS
  <1>11. /\ f \in Frames(alloc.top, Len(ops), Len(home))
         /\ f.e = caller.e /\ f.start = caller.start /\ f.rec = caller.rec
         /\ f.fields = Tail(caller.fields)
    <2>1. Tail(caller.fields) \in Seq(RecordField)
      BY <1>5, <1>6
    <2> QED
      BY <1>5, <1>10, <2>1 DEF Frames
  <1>12. /\ Front(stack) \in Seq(Frames(alloc.top, Len(ops), Len(home)))
         /\ Len(Front(stack)) = K /\ \A i \in 1..K : Front(stack)[i] = stack[i]
    BY <1>3, <1>4 DEF Front
  <1>13. stack' = [Front(stack) EXCEPT ![K] = f]
    <2>1. PICK F : F = Front(stack)
      OBVIOUS
    <2>2. F[K] = caller /\ stack' = [F EXCEPT ![K].fields = Tail(@)]
      BY <1>2, <1>4, <1>12, <2>1
    <2>3. [F EXCEPT ![K].fields = Tail(@)] = [F EXCEPT ![K] = [F[K] EXCEPT !.fields = Tail(@)]]
      OBVIOUS
    <2> QED
      BY <1>10, <2>1, <2>2, <2>3
  <1>14. /\ stack' \in Seq(Frames(alloc.top, Len(ops), Len(home))) /\ Len(stack') = K
         /\ stack'[K] = f /\ \A i \in 1..(K - 1) : stack'[i] = stack[i]
    <2>1. PICK F : F = Front(stack)
      OBVIOUS
    <2>2. F \in Seq(Frames(alloc.top, Len(ops), Len(home))) /\ Len(F) = K /\ K \in 1..Len(F)
      BY <1>4, <1>12, <2>1
    <2>3. /\ [F EXCEPT ![K] = f] \in Seq(Frames(alloc.top, Len(ops), Len(home)))
          /\ Len([F EXCEPT ![K] = f]) = K
          /\ \A j \in 1..Len(F) : [F EXCEPT ![K] = f][j] = IF j = K THEN f ELSE F[j]
      BY <1>11, <2>2, ExceptSeq
    <2>4. \A j \in 1..(K - 1) : j \in 1..K /\ j # K
      BY <1>4
    <2> QED
      BY <1>4, <1>12, <1>13, <2>1, <2>2, <2>3, <2>4
  <1>15. /\ Len(ops') = Len(ops) + 1 /\ ops'[Len(ops) + 1] = op
         /\ \A i \in 1..Len(ops) : ops'[i] = ops[i]
         /\ ops' \in Seq(Operations(alloc.top, Len(home)))
    BY <1>2, <1>3, <1>9, AppendProperties
  <1>16. Waiting' /\ FieldsLeft' /\ Given'
    <2>1. stack' \in Seq(Frames(alloc'.top, Len(ops'), Len(home')))
      <3>1. PICK u, k, l, m : u = alloc.top /\ k = Len(ops) /\ l = Len(ops') /\ m = Len(home)
        OBVIOUS
      <3>2. u \in Nat /\ k \in Nat /\ l \in Nat /\ m \in Nat /\ u <= u /\ k <= l /\ m <= m
        BY <1>3, <1>15, <3>1
      <3>3. Seq(Frames(u, k, m)) \subseteq Seq(Frames(u, l, m))
        BY <3>2, FramesGrow
      <3> QED
        BY <1>2, <1>14, <3>1, <3>3
    <2>2. \A k \in 1..(K - 1) : stack'[k].rec = stack[k].rec /\ stack'[k].fields = stack[k].fields
      BY <1>14
    <2>3. /\ stack'[K].rec = stack[K].rec /\ stack[K].fields # <<>>
          /\ stack'[K].fields = Tail(stack[K].fields) /\ Len(stack') = K
      BY <1>4, <1>6, <1>11, <1>14
    <2>4. \A k \in (K + 1)..Len(stack) : stack[k].fields = <<>>
      <3>1. \A k \in (K + 1)..Len(stack) : k = K + 1
        BY <1>4
      <3> QED
        BY <1>2, <1>4, <3>1
    <2>5. DOMAIN home' = DOMAIN home /\ \A r \in DOMAIN home : home'[r].fields = home[r].fields
      BY <1>2
    <2>6. /\ DOMAIN ops \subseteq DOMAIN ops'
          /\ \A j \in DOMAIN ops : /\ ops'[j].op = ops[j].op /\ ops'[j].rec = ops[j].rec
                                   /\ ops'[j].a = ops[j].a /\ ops'[j].v = ops[j].v
      <3>1. DOMAIN ops = 1..Len(ops) /\ DOMAIN ops' = 1..(Len(ops) + 1)
        BY <1>3, <1>15
      <3> QED
        BY <1>3, <1>15, <3>1
    <2>7. Head(stack[K].fields).a \notin Unique
      BY <1>4, <1>6, EntitiesAssumption
    <2> QED
      BY <1>2, <1>4, <2>1, <2>2, <2>3, <2>4, <2>5, <2>6, <2>7, FieldsStep
  <1>17. Adds(op)
    <2>1. /\ Grown(alloc, alloc') /\ alloc' = alloc
      BY <1>2, <1>3, GrownSelf
    <2>2. \A k \in 1..Len(stack') : /\ stack'[k].e = stack[k].e /\ stack'[k].start = stack[k].start
                                    /\ stack'[k].rec = stack[k].rec
      <3>1. \A k \in 1..Len(stack') : k \in 1..(K - 1) \/ k = K
        BY <1>4, <1>14
      <3> QED
        BY <1>4, <1>11, <1>14, <3>1
    <2>3. op.rec # 0 => /\ Len(stack') > 0
                        /\ op.rec = stack'[Len(stack')].rec /\ op.e = stack'[Len(stack')].e
      BY <1>4, <1>8, <1>11, <1>14
    <2>4. \A a \in Unique :
              op.op = "assert" /\ op.a = ids[a] /\ op.rec # 0 =>
                  UniqueOwnerIncludingPlan(a, op.v) \in {None, op.e}
      <3> SUFFICES ASSUME NEW a \in Unique, op.a = ids[a]
                   PROVE  FALSE
        OBVIOUS
      <3>1. a \in DOMAIN ids
        BY <1>0 DEF StoreOK, Declared
      <3>2. a = Head(caller.fields).a
        BY <1>0, <1>7, <1>8, <3>1 DEF StoreOK
      <3> QED
        BY <1>6, <3>2, EntitiesAssumption
    <2>5. Len(stack') <= Len(stack) /\ items' \in Seq(Item)
      BY <1>2, <1>3, <1>4, <1>14
    <2>6. op \in Operations(alloc'.top, Len(home)) /\ stack' \in Seq(Frames(alloc'.top, Len(ops), Len(home)))
      BY <1>9, <1>14, <2>1
    <2>7. /\ uses' \subseteq [t : DOMAIN alloc'.tempids, id : Nat]
          /\ \A use \in uses' :
                use \in uses \/ (use.t \in DOMAIN alloc'.tempids /\ use.id = alloc'.tempids[use.t])
      BY <1>2, <1>3
    <2> QED
      BY <1>2, <2>1, <2>2, <2>3, <2>4, <2>5, <2>6, <2>7, Zenon DEF Adds
  <1>18. busy
    BY <1>0, <1>2 DEF PlanOK
  <1> QED
    BY <1>16, <1>17, <1>18, AddsStep

LEMMA LeaveStep ==
    ASSUME PlanInv, Leave
    PROVE  PlanInv'
  BY LeaveLast, LeaveChild

-----------------------------------------------------------------------------
(* Operations of the request. *)

(* Only the items of the request are fewer. *)
LEMMA ItemsStep ==
    ASSUME PlanInv, items' \in Seq(Item),
           UNCHANGED <<store, busy, alloc, ops, stack, home, uses, moved>>
    PROVE  PlanInv'
  <1>1. /\ ids' = ids /\ next' = next /\ live' = live /\ busy' = busy /\ home' = home
        /\ moved' = moved /\ ops' = ops /\ alloc' = alloc /\ uses' = uses /\ stack' = stack
    BY DEF store
  <1>2. StoreOK'
    BY <1>1 DEF PlanInv, StoreOK
  <1>3. PlanOK'
    BY <1>1 DEF PlanInv, PlanOK, AllocatorOK
  <1>4. Nesting' /\ Spans' /\ RecordWholeUnlessNested' /\ TokenOneEntity' /\ Waiting'
    <2>0. Nesting /\ Waiting
      BY DEF PlanInv
    <2>a. Waiting'
      BY <1>1, <2>0 DEF Waiting
    <2>b. \A k : {stack'[j].rec : j \in 1..(k - 1)} = {stack[j].rec : j \in 1..(k - 1)}
      BY <1>1
    <2>c. \A k \in DOMAIN stack : /\ stack[k].e = home[stack[k].rec].e
                                  /\ home[stack[k].rec].within = {stack[j].rec : j \in 1..(k - 1)}
      BY <2>0 DEF Nesting
    <2>d. \A k \in DOMAIN stack' : /\ stack'[k].e = home'[stack'[k].rec].e
                                   /\ home'[stack'[k].rec].within = {stack'[j].rec : j \in 1..(k - 1)}
      BY <1>1, <2>b, <2>c
    <2>e. \A r \in DOMAIN home' : home'[r].within \subseteq 1..(r - 1)
      BY <1>1, <2>0 DEF Nesting
    <2>1. Nesting' /\ Waiting'
      BY <2>a, <2>d, <2>e DEF Nesting
    <2>2. Spans'
      BY <1>1 DEF PlanInv, Spans
    <2>3. RecordWholeUnlessNested' /\ TokenOneEntity'
      BY <1>1 DEF PlanInv, RecordWholeUnlessNested, TokenOneEntity
    <2> QED
      BY <2>1, <2>2, <2>3
  <1>5. FieldsLeft' /\ Given'
    <2>1. \A k : Pending(k)' = Pending(k)
      BY <1>1 DEF Pending
    <2>2. FieldsLeft'
      BY <1>1, <2>1 DEF PlanInv, FieldsLeft
    <2>3. \A r, i : PlannedValue(r, i)' = PlannedValue(r, i)
      BY <1>1 DEF PlannedValue
    <2>4. Given'
      BY <1>1, <2>1, <2>3 DEF PlanInv, Given
    <2> QED
      BY <2>2, <2>4
  <1>6. FirstOwns'
    <2> SUFFICES ASSUME NEW i \in DOMAIN ops, NEW a \in Unique,
                        ops[i].op = "assert", ops[i].a = ids[a], ops[i].rec # 0,
                        Settled(ops[i].rec)'
                 PROVE  UniqueOwnerIncludingPlan(a, ops[i].v)' = ops[i].e
      BY <1>1 DEF FirstOwns
    <2>1. Settled(ops[i].rec)
      BY <1>1 DEF Settled, NestedInMoved
    <2>2. UniqueOwnerIncludingPlan(a, ops[i].v)' = UniqueOwnerIncludingPlan(a, ops[i].v)
      BY <1>1 DEF UniqueOwnerIncludingPlan, UniqueOwner
    <2> QED
      BY <2>1, <2>2 DEF FirstOwns, PlanInv
  <1> QED
    BY <1>2, <1>3, <1>4, <1>5, <1>6 DEF PlanInv

(* An operation is added while no record is being planned. *)
LEMMA OperationStep ==
    ASSUME PlanInv, busy, stack = <<>>, stack' = <<>>, NEW op, Adds(op)
    PROVE  PlanInv'
  <1>0. PlanOK /\ Given
    BY DEF PlanInv
  <1>1. home' = home /\ ids' = ids /\ ops' = Append(ops, op)
    BY DEF Adds, store
  <1>2. DOMAIN stack = {} /\ DOMAIN stack' = {} /\ Len(stack') = 0
    OBVIOUS
  <1>3. ops \in Seq(Operations(alloc'.top, Len(home)))
    <2>1. PICK t, u, m : t = alloc.top /\ u = alloc'.top /\ m = Len(home)
      OBVIOUS
    <2>2. /\ t \in Nat /\ u \in Nat /\ t <= u /\ m \in Nat /\ m <= m
          /\ ops \in Seq(Operations(t, m))
      BY <1>0, <2>1 DEF PlanOK, AllocatorOK, Adds, Grown
    <2>3. Seq(Operations(t, m)) \subseteq Seq(Operations(u, m))
      BY <2>2, OperationsGrow
    <2> QED
      BY <2>1, <2>2, <2>3
  <1>4. op \in Operations(alloc'.top, Len(home))
    BY DEF Adds
  <1>5. /\ Len(ops') = Len(ops) + 1 /\ \A i \in 1..Len(ops) : ops'[i] = ops[i]
        /\ ops' \in Seq(Operations(alloc'.top, Len(home)))
    BY <1>1, <1>3, <1>4, AppendProperties
  <1>6. DOMAIN ops = 1..Len(ops) /\ DOMAIN ops' = 1..(Len(ops) + 1) /\ Len(ops) \in Nat
    BY <1>3, <1>5
  <1>7. \A j \in DOMAIN ops : j \in DOMAIN ops' /\ ops'[j] = ops[j]
    BY <1>5, <1>6
  <1>8. Waiting' /\ FieldsLeft'
    BY <1>2 DEF Waiting, FieldsLeft
  <1>9. Given'
    <2> SUFFICES ASSUME NEW r \in DOMAIN home, NEW i \in DOMAIN home[r].fields,
                        home[r].fields[i].a \in Unique
                 PROVE  PlannedValue(r, i)'
      BY <1>1 DEF Given
    <2>1. PlannedValue(r, i)
      BY <1>0, <1>2 DEF Given
    <2> QED
      BY <1>1, <1>7, <2>1 DEF PlannedValue
  <1> QED
    BY <1>8, <1>9, AddsStep

LEMMA HeadItem ==
    ASSUME PlanInv, items # <<>>
    PROVE  Head(items) \in Item /\ Tail(items) \in Seq(Item)
  BY DEF PlanInv, PlanOK

LEMMA PlanRetractStep ==
    ASSUME PlanInv, PlanRetract
    PROVE  PlanInv'
  <1>0. StoreOK /\ PlanOK /\ AllocatorOK(alloc)
    BY DEF PlanInv, PlanOK
  <1>1. PICK item, e : item = Head(items) /\ e = Existing(item.e)
    OBVIOUS
  <1>2. /\ busy /\ stack = <<>> /\ items # <<>> /\ item.op = "retract" /\ Resolvable(item.e)
        /\ items' = Tail(items) /\ UNCHANGED <<store, busy, alloc, stack, home, uses, moved>>
        /\ e = None => ops' = ops
        /\ e # None => ops' = Append(ops, [op |-> "retract", e |-> e, a |-> None, v |-> None, rec |-> 0])
    BY <1>1 DEF PlanRetract
  <1>3. item \in Item /\ items' \in Seq(Item)
    BY <1>1, <1>2, HeadItem
  <1>4. item.e \in EntitySpec
    BY <1>2, <1>3 DEF Item
  <1>5. CASE e = None
    <2>1. UNCHANGED <<store, busy, alloc, ops, stack, home, uses, moved>>
      BY <1>2, <1>5
    <2> QED
      BY <1>3, <2>1, ItemsStep
  <1>6. CASE e # None
    <2>1. PICK op : op = [op |-> "retract", e |-> e, a |-> None, v |-> None, rec |-> 0]
      OBVIOUS
    <2>2. next - 1 \in Int /\ 1..(next - 1) \subseteq 1..(alloc.top - 1) /\ next..(alloc.top - 1) \subseteq 1..(alloc.top - 1)
      BY <1>0 DEF StoreOK, AllocatorOK
    <2>3. e \in 1..(alloc.top - 1)
      <3>1. CASE item.e.kind = "name" /\ item.e.x \in DOMAIN ids
        <4>1. e = ids[item.e.x]
          BY <1>0, <1>1, <3>1 DEF Existing, AllocatorOK
        <4> QED
          BY <1>0, <2>2, <3>1, <4>1 DEF StoreOK
      <3>2. CASE item.e.kind = "name" /\ item.e.x \notin DOMAIN ids /\ item.e.x \in DOMAIN alloc.fresh
        <4>1. e = alloc.fresh[item.e.x]
          BY <1>1, <3>2 DEF Existing
        <4> QED
          BY <1>0, <2>2, <3>2, <4>1 DEF AllocatorOK
      <3>3. CASE item.e.kind = "tmp" /\ item.e.x \in DOMAIN alloc.tempids
        <4>1. e = alloc.tempids[item.e.x]
          BY <1>1, <3>3 DEF Existing
        <4> QED
          BY <1>0, <3>3, <4>1 DEF AllocatorOK
      <3>4. CASE item.e.kind = "lookup"
        <4>1. e = UniqueOwner(item.e.x, Scalar(item.e.y))
          BY <1>1, <3>4 DEF Existing
        <4>2. item.e.x \in Unique
          BY <1>2, <3>4 DEF Resolvable
        <4>3. e \in 1..(next - 1) \cup {None}
          BY <1>0, <4>1, <4>2, UniqueOwnerType
        <4> QED
          BY <1>6, <2>2, <4>3
      <3>5. \/ item.e.kind = "name" /\ item.e.x \in DOMAIN ids
            \/ item.e.kind = "name" /\ item.e.x \notin DOMAIN ids /\ item.e.x \in DOMAIN alloc.fresh
            \/ item.e.kind = "tmp" /\ item.e.x \in DOMAIN alloc.tempids
            \/ item.e.kind = "lookup"
        BY <1>1, <1>6 DEF Existing
      <3> QED
        BY <3>1, <3>2, <3>3, <3>4, <3>5
    <2>4. /\ op.op = "retract" /\ op.rec = 0 /\ op \in Operations(alloc.top, Len(home))
      BY <2>1, <2>3 DEF Operations
    <2>5. Adds(op)
      <3>1. alloc' = alloc /\ Grown(alloc, alloc') /\ stack' = <<>> /\ ops' = Append(ops, op)
        BY <1>0, <1>2, <1>6, <2>1, GrownSelf
      <3>2. /\ op \in Operations(alloc'.top, Len(home))
            /\ stack' \in Seq(Frames(alloc'.top, Len(ops), Len(home)))
            /\ Len(stack') <= Len(stack) /\ Len(stack') = 0
        BY <1>2, <2>4, <3>1
      <3>3. /\ uses' \subseteq [t : DOMAIN alloc'.tempids, id : Nat]
            /\ \A use \in uses' :
                  use \in uses \/ (use.t \in DOMAIN alloc'.tempids /\ use.id = alloc'.tempids[use.t])
        BY <1>0, <1>2, <3>1 DEF PlanOK
      <3>4. \A k \in 1..Len(stack') : FALSE
        BY <3>2
      <3>5. UNCHANGED <<store, busy, home, moved>>
        BY <1>2
      <3> QED
        BY <1>3, <2>4, <3>1, <3>2, <3>3, <3>4, <3>5, Zenon DEF Adds
    <2> QED
      BY <1>2, <2>5, OperationStep
  <1> QED
    BY <1>5, <1>6

LEMMA PlanAssertStep ==
    ASSUME PlanInv, PlanAssert
    PROVE  PlanInv'
  <1>0. StoreOK /\ PlanOK /\ AllocatorOK(alloc)
    BY DEF PlanInv, PlanOK
  <1>1. PICK item, entity : item = Head(items) /\ entity = Resolve(alloc, item.e)
    OBVIOUS
  <1>2. PICK attr : attr = Named(entity.alloc, item.a)
    OBVIOUS
  <1>3. PICK value : value = Stored(attr.alloc, item.v)
    OBVIOUS
  <1>4. /\ busy /\ stack = <<>> /\ items # <<>> /\ item.op = "assert" /\ Resolvable(item.e)
        /\ items' = Tail(items) /\ UNCHANGED <<store, busy, stack, home, moved>>
        /\ entity.e = None => UNCHANGED <<ops, alloc, uses>>
        /\ entity.e # None =>
              /\ value.found /\ (item.v.kind = "ref" => Resolvable(item.v.x))
              /\ ops' = Append(ops, Assertion(entity.e, attr.e, value.v, 0))
              /\ alloc' = value.alloc
              /\ uses' = Uses(item.e, entity.e)
                            \cup (IF item.v.kind = "ref" THEN Uses(item.v.x, value.v.x) ELSE {})
    BY <1>1, <1>2, <1>3 DEF PlanAssert
  <1>5. item \in Item /\ items' \in Seq(Item)
    BY <1>1, <1>4, HeadItem
  <1>6. item.e \in EntitySpec /\ item.a \in Attr /\ item.v \in PlainValue
    BY <1>4, <1>5 DEF Item
  <1>7. CASE entity.e = None
    <2>1. UNCHANGED <<store, busy, alloc, ops, stack, home, uses, moved>>
      BY <1>4, <1>7
    <2> QED
      BY <1>5, <2>1, ItemsStep
  <1>8. CASE entity.e # None
    <2>1. Found(alloc, item.e, entity)
      BY <1>0, <1>1, <1>4, <1>6, ResolveOK
    <2>2. Grown(alloc, entity.alloc) /\ AllocatorOK(entity.alloc)
      BY <2>1 DEF Found, Grown
    <2>3. Grown(entity.alloc, attr.alloc) /\ attr.e \in 1..(attr.alloc.top - 1)
      BY <1>0, <1>2, <1>6, <2>2, NamedOK
    <2>4. AllocatorOK(attr.alloc)
      BY <2>3 DEF Grown
    <2>5. StoredAs(attr.alloc, item.v, value)
      BY <1>0, <1>3, <1>4, <1>6, <1>8, <2>4, StoredOK
    <2>6. Grown(attr.alloc, value.alloc) /\ value.v \in Values(value.alloc.top)
      BY <1>4, <1>8, <2>5 DEF StoredAs
    <2>7. Grown(entity.alloc, value.alloc)
      BY <2>2, <2>3, <2>6, GrownTwice
    <2>8. Grown(alloc, value.alloc)
      BY <1>0, <2>2, <2>7, GrownTwice
    <2>9. /\ entity.e \in 1..(value.alloc.top - 1) /\ attr.e \in 1..(value.alloc.top - 1)
      BY <1>8, <2>1, <2>2, <2>3, <2>4, <2>6, <2>7 DEF Found, Grown, AllocatorOK
    <2>10. item.e.kind = "tmp" => /\ item.e.x \in DOMAIN value.alloc.tempids
                                  /\ entity.e = value.alloc.tempids[item.e.x]
      BY <2>1, <2>7 DEF Found, Grown
    <2>11. item.v.kind = "ref" /\ item.v.x.kind = "tmp" =>
              /\ item.v.x.x \in DOMAIN value.alloc.tempids
              /\ value.v.x = value.alloc.tempids[item.v.x.x]
      BY <2>5 DEF StoredAs
    <2>12. PICK op : op = Assertion(entity.e, attr.e, value.v, 0)
      OBVIOUS
    <2>13. /\ op.rec = 0 /\ op \in Operations(value.alloc.top, Len(home))
      <3>1. 0 \in 0..Len(home)
        BY <1>0 DEF PlanOK
      <3> QED
        BY <2>6, <2>9, <2>12, <3>1 DEF Operations, Assertion
    <2>14. /\ ops' = Append(ops, op) /\ alloc' = value.alloc /\ stack' = <<>>
           /\ uses' = Uses(item.e, entity.e)
                         \cup (IF item.v.kind = "ref" THEN Uses(item.v.x, value.v.x) ELSE {})
      BY <1>4, <1>8, <2>12
    <2>15. \A use \in uses' :
              \/ use \in uses
              \/ item.e.kind = "tmp" /\ use = [t |-> item.e.x, id |-> entity.e]
              \/ item.v.kind = "ref" /\ item.v.x.kind = "tmp" /\ use = [t |-> item.v.x.x, id |-> value.v.x]
      BY <2>14 DEF Uses
    <2>16. AllocatorOK(value.alloc)
      BY <2>8 DEF Grown
    <2>17. ASSUME NEW use \in uses'
           PROVE  /\ use \in [t : DOMAIN alloc'.tempids, id : Nat]
                  /\ use \in uses \/ (use.t \in DOMAIN alloc'.tempids /\ use.id = alloc'.tempids[use.t])
      <3>1. \A t \in DOMAIN value.alloc.tempids : value.alloc.tempids[t] \in Nat
        BY <2>16 DEF AllocatorOK
      <3>2. CASE use \in uses
        BY <1>0, <2>8, <2>14, <3>2 DEF PlanOK, Grown
      <3>3. CASE item.e.kind = "tmp" /\ use = [t |-> item.e.x, id |-> entity.e]
        BY <2>10, <2>14, <3>1, <3>3
      <3>4. CASE item.v.kind = "ref" /\ item.v.x.kind = "tmp" /\ use = [t |-> item.v.x.x, id |-> value.v.x]
        BY <2>11, <2>14, <3>1, <3>4
      <3> QED
        BY <2>15, <3>2, <3>3, <3>4
    <2>18. Adds(op)
      <3>1. /\ op \in Operations(alloc'.top, Len(home)) /\ Grown(alloc, alloc')
            /\ stack' \in Seq(Frames(alloc'.top, Len(ops), Len(home)))
            /\ Len(stack') <= Len(stack) /\ Len(stack') = 0
        BY <1>4, <2>8, <2>13, <2>14
      <3>2. \A k \in 1..Len(stack') : FALSE
        BY <3>1
      <3>3. uses' \subseteq [t : DOMAIN alloc'.tempids, id : Nat]
        BY <2>17
      <3>4. UNCHANGED <<store, busy, home, moved>>
        BY <1>4
      <3> QED
        BY <1>5, <2>13, <2>14, <2>17, <3>1, <3>2, <3>3, <3>4, Zenon DEF Adds
    <2> QED
      BY <1>4, <2>14, <2>18, OperationStep
  <1> QED
    BY <1>7, <1>8

LEMMA PlanMapStep ==
    ASSUME PlanInv, PlanMap
    PROVE  PlanInv'
  <1>1. PICK rec : rec = Head(items).rec
    OBVIOUS
  <1>2. /\ busy /\ stack = <<>> /\ items # <<>> /\ Head(items).op = "map"
        /\ items' = Tail(items) /\ UNCHANGED <<store, busy, ops, moved>>
        /\ IdentityOnly(rec) => UNCHANGED <<alloc, uses, stack, home>>
        /\ ~IdentityOnly(rec) => Enter(rec)
    BY <1>1 DEF PlanMap
  <1>3. rec \in Records /\ items' \in Seq(Item)
    BY <1>1, <1>2, HeadItem DEF Item
  <1>4. CASE IdentityOnly(rec)
    <2>1. UNCHANGED <<store, busy, alloc, ops, stack, home, uses, moved>>
      BY <1>2, <1>4
    <2> QED
      BY <1>3, <2>1, ItemsStep
  <1>5. CASE ~IdentityOnly(rec)
    BY <1>2, <1>3, <1>5, EnterStep
  <1> QED
    BY <1>4, <1>5

LEMMA EnterChildStep ==
    ASSUME PlanInv, EnterChild
    PROVE  PlanInv'
  <1>0. PlanOK
    BY DEF PlanInv
  <1>1. /\ stack # <<>> /\ Frame.fields # <<>> /\ Field.v.kind = "rec" /\ Field.a \in RefTyped
        /\ Enter(Field.v.x) /\ items' = items /\ UNCHANGED <<store, busy, ops, moved>>
    BY DEF EnterChild
  <1>2. busy /\ items' \in Seq(Item) /\ stack \in Seq(Frames(alloc.top, Len(ops), Len(home)))
    BY <1>0, <1>1 DEF PlanOK
  <1>3. Len(stack) \in 1..Len(stack)
    BY <1>1, <1>2
  <1>4. Frame.fields \in Seq(RecordField)
    BY <1>2, <1>3, FrameParts DEF Frame
  <1>5. Field \in RecordField
    BY <1>1, <1>4 DEF Field
  <1>6. PICK rec : rec = Field.v.x
    OBVIOUS
  <1>7. rec \in Records
    BY <1>1, <1>5, <1>6 DEF RecordField, PlainValue
  <1> QED
    BY <1>1, <1>2, <1>6, <1>7, EnterStep

-----------------------------------------------------------------------------
(* A plan begins, is given up or is applied. *)

LEMMA NothingAllocated ==
    ASSUME NEW n \in Nat, n > 0
    PROVE  /\ NoAllocation(n).top = n
           /\ DOMAIN NoAllocation(n).fresh = {} /\ DOMAIN NoAllocation(n).tempids = {}
           /\ NoAllocation(n).fresh \in [{} -> n..(n - 1)]
           /\ NoAllocation(n).tempids \in [{} -> 1..(n - 1)]
           /\ NoAllocation(n) = [fresh |-> NoAllocation(n).fresh, tempids |-> NoAllocation(n).tempids,
                                 top |-> NoAllocation(n).top]
  <1>1. NoAllocation(n) = [fresh |-> <<>>, tempids |-> <<>>, top |-> n]
    BY DEF NoAllocation
  <1>2. \A S : << >> \in [{} -> S]
    <2> TAKE S
    <2>1. << >> \in Seq(S) /\ Len(<< >>) = 0
      OBVIOUS
    <2>2. << >> \in [1..0 -> S]
      BY <2>1
    <2>3. 1..0 = {}
      OBVIOUS
    <2> QED
      BY <2>2, <2>3
  <1>3. DOMAIN << >> = {}
    BY <1>2
  <1> QED
    BY <1>1, <1>2, <1>3

Empty ==
    /\ busy \in BOOLEAN /\ items \in Seq(Item) /\ alloc = NoAllocation(next)
    /\ ops = <<>> /\ stack = <<>> /\ home = <<>> /\ uses = {} /\ moved = {}

LEMMA EmptyPlan ==
    ASSUME StoreOK, Empty
    PROVE  PlanInv
  <1>1. AllocatorOK(alloc)
    <2>1. next \in Nat /\ next > 0
      BY DEF StoreOK
    <2>2. PICK n : n = next
      OBVIOUS
    <2>3. alloc = NoAllocation(n) /\ n \in Nat /\ n > 0
      BY <2>1, <2>2 DEF Empty
    <2> QED
      BY <2>2, <2>3, NothingAllocated DEF AllocatorOK
  <1>2. DOMAIN ops = {} /\ DOMAIN stack = {} /\ DOMAIN home = {} /\ Len(stack) = 0 /\ Len(home) = 0
    BY DEF Empty
  <1>3. \A S : <<>> \in Seq(S)
    OBVIOUS
  <1>4. PlanOK
    BY <1>1, <1>3 DEF Empty, PlanOK
  <1>5. Nesting /\ Spans /\ RecordWholeUnlessNested /\ TokenOneEntity
    BY <1>2 DEF Empty, Nesting, Spans, RecordWholeUnlessNested, TokenOneEntity
  <1>6. Waiting /\ FieldsLeft /\ Given /\ FirstOwns
    BY <1>2 DEF Waiting, FieldsLeft, Given, FirstOwns
  <1> QED
    BY <1>4, <1>5, <1>6 DEF PlanInv

LEMMA EmptyPlanNext ==
    ASSUME StoreOK', Empty'
    PROVE  PlanInv'
  <1>1. AllocatorOK(alloc)'
    <2>1. next' \in Nat /\ next' > 0
      BY DEF StoreOK
    <2>2. PICK n : n = next'
      OBVIOUS
    <2>3. alloc' = NoAllocation(n) /\ n \in Nat /\ n > 0
      BY <2>1, <2>2 DEF Empty
    <2>4. /\ NoAllocation(n).top = n
          /\ DOMAIN NoAllocation(n).fresh = {} /\ DOMAIN NoAllocation(n).tempids = {}
          /\ NoAllocation(n).fresh \in [{} -> n..(n - 1)]
          /\ NoAllocation(n).tempids \in [{} -> 1..(n - 1)]
          /\ NoAllocation(n) = [fresh |-> NoAllocation(n).fresh, tempids |-> NoAllocation(n).tempids,
                                top |-> NoAllocation(n).top]
      BY <2>3, NothingAllocated
    <2> QED
      BY <2>2, <2>3, <2>4 DEF AllocatorOK
  <1>2. DOMAIN ops' = {} /\ DOMAIN stack' = {} /\ DOMAIN home' = {} /\ Len(stack') = 0 /\ Len(home') = 0
    BY DEF Empty
  <1>3. \A S : <<>> \in Seq(S)
    OBVIOUS
  <1>4. PlanOK'
    BY <1>1, <1>3 DEF Empty, PlanOK
  <1>5. Nesting' /\ Spans' /\ RecordWholeUnlessNested' /\ TokenOneEntity'
    BY <1>2 DEF Empty, Nesting, Spans, RecordWholeUnlessNested, TokenOneEntity
  <1>6. Waiting' /\ FieldsLeft' /\ Given' /\ FirstOwns'
    BY <1>2 DEF Waiting, FieldsLeft, Given, FirstOwns
  <1> QED
    BY <1>4, <1>5, <1>6 DEF PlanInv

LEMMA InitHolds ==
    ASSUME Init
    PROVE  PlanInv
  <1>1. IsFiniteSet(Declared)
    <2>1. IsFiniteSet({Member, Required})
      <3>1. IsFiniteSet({Member} \cup {Required})
        BY FS_Singleton, FS_AddElement
      <3>2. {Member} \cup {Required} = {Member, Required}
        OBVIOUS
      <3> QED
        BY <3>1, <3>2
    <2>2. IsFiniteSet((Unique \cup RefTyped) \cup {Member, Required})
      BY <2>1, EntitiesAssumption, FS_Union
    <2> QED
      BY <2>2 DEF Declared
  <1>2. PICK n : n = Cardinality(Declared)
    OBVIOUS
  <1>3. n \in Nat /\ ExistsBijection(1..n, Declared)
    BY <1>1, <1>2, FS_CardinalityType
  <1>4. ExistsBijection(Declared, 1..n)
    BY <1>3, Fun_ExistsBijSymmetric
  <1>5. ids \in Bijection(Declared, 1..n)
    BY <1>2, <1>4 DEF Init, ExistsBijection
  <1>6. /\ ids \in [Declared -> 1..n] /\ \A a, b \in Declared : ids[a] = ids[b] => a = b
    BY <1>5 DEF Bijection, Injection, IsInjective
  <1>7. next = n + 2 /\ live = {}
    BY <1>2 DEF Init
  <1>8. 1..n \subseteq 1..(next - 1) /\ next \in Nat /\ next > 0
    BY <1>3, <1>7
  <1>9. Declared \subseteq Attr
    BY EntitiesAssumption DEF Declared
  <1>10. DOMAIN ids = Declared /\ ids \in [DOMAIN ids -> 1..(next - 1)]
    BY <1>6, <1>8
  <1>11. StoreOK
    BY <1>6, <1>7, <1>8, <1>9, <1>10 DEF StoreOK
  <1>12. Empty
    <2>1. <<>> \in Seq(Item) /\ FALSE \in BOOLEAN
      OBVIOUS
    <2> QED
      BY <2>1, Zenon DEF Init, Empty
  <1> QED
    BY <1>11, <1>12, EmptyPlan

LEMMA BeginStep ==
    ASSUME PlanInv, NEW r \in DOMAIN Requests, Begin(Requests[r])
    PROVE  PlanInv'
  <1>1. StoreOK'
    BY DEF PlanInv, StoreOK, Begin, store
  <1>2. Empty'
    <2>1. ops = <<>> /\ stack = <<>> /\ home = <<>> /\ uses = {} /\ moved = {}
      BY DEF PlanInv, PlanOK, Begin
    <2>2. Requests[r] \in Seq(Item)
      BY RequestsAssumption
    <2> QED
      BY <2>1, <2>2 DEF Begin, Empty, store
  <1> QED
    BY <1>1, <1>2, EmptyPlanNext

LEMMA AbortStep ==
    ASSUME PlanInv, UNCHANGED store, Discard
    PROVE  PlanInv'
  <1>1. StoreOK'
    BY DEF PlanInv, StoreOK, store
  <1>2. Empty'
    <2>1. <<>> \in Seq(Item) /\ FALSE \in BOOLEAN
      OBVIOUS
    <2> QED
      BY <2>1, Zenon DEF Discard, Empty
  <1> QED
    BY <1>1, <1>2, EmptyPlanNext

-----------------------------------------------------------------------------
(* Compaction. *)

Rank(K, id) == Cardinality({k \in K : k < id})

(* Numbers are told apart by how many there are below them, and those are the
   first numbers. *)
LEMMA Ranks ==
    ASSUME NEW n \in Nat, NEW m \in Nat, NEW K \in SUBSET (n..(m - 1))
    PROVE  /\ IsFiniteSet(K) /\ Cardinality(K) \in Nat
           /\ \A id \in K : Rank(K, id) \in 0..(Cardinality(K) - 1)
           /\ \A i, j \in K : Rank(K, i) = Rank(K, j) => i = j
           /\ \A x \in 0..(Cardinality(K) - 1) : \E id \in K : Rank(K, id) = x
  <1>1. IsFiniteSet(K) /\ Cardinality(K) \in Nat
    <2>1. IsFiniteSet(n..(m - 1))
      BY FS_Interval
    <2>2. IsFiniteSet(K)
      BY <2>1, FS_Subset
    <2> QED
      BY <2>2, FS_CardinalityType
  <1>2. K \subseteq Nat
    OBVIOUS
  <1> DEFINE Below(id) == {k \in K : k < id}
  <1>3. ASSUME NEW id \in K
        PROVE  /\ IsFiniteSet(Below(id)) /\ Cardinality(Below(id)) \in Nat
               /\ Cardinality(Below(id)) < Cardinality(K)
    <2>1. Below(id) \in SUBSET K /\ Below(id) # K
      BY <1>2
    <2>2. /\ IsFiniteSet(Below(id)) /\ Cardinality(Below(id)) <= Cardinality(K)
          /\ Cardinality(K) = Cardinality(Below(id)) => K = Below(id)
      BY <1>1, <2>1, FS_Subset
    <2>3. Cardinality(Below(id)) \in Nat
      BY <2>2, FS_CardinalityType
    <2> QED
      BY <1>1, <2>1, <2>2, <2>3
  <1>4. ASSUME NEW i \in K, NEW j \in K, i < j
        PROVE  Cardinality(Below(i)) < Cardinality(Below(j))
    <2>1. PICK B, C : B = Below(i) /\ C = Below(j)
      OBVIOUS
    <2>2. /\ \A k : k \in B <=> k \in K /\ k < i
          /\ \A k : k \in C <=> k \in K /\ k < j
      BY <2>1
    <2>3. i \in Nat /\ j \in Nat /\ \A k \in K : k \in Nat
      BY <1>2
    <2>4. i \in C /\ i \notin B
      BY <1>4, <2>2, <2>3
    <2>5. ASSUME NEW k \in B
          PROVE  k \in C
      <3>1. k \in K /\ k < i /\ k \in Nat
        BY <2>2, <2>3, <2>5
      <3>2. k < j
        BY <1>4, <2>3, <3>1
      <3> QED
        BY <2>2, <3>1, <3>2
    <2>6. /\ IsFiniteSet(C) /\ Cardinality(C) \in Nat /\ Cardinality(B) \in Nat
      BY <1>3, <2>1
    <2>7. /\ Cardinality(B) <= Cardinality(C)
          /\ Cardinality(C) = Cardinality(B) => C = B
      <3>1. B \in SUBSET C
        BY <2>5
      <3> QED
        BY <2>6, <3>1, FS_Subset
    <2>8. Cardinality(B) < Cardinality(C)
      BY <2>4, <2>6, <2>7
    <2> QED
      BY <2>1, <2>8
  <1>5. \A id \in K : Rank(K, id) = Cardinality(Below(id))
    BY DEF Rank
  <1> HIDE DEF Below
  <1>6. \A id \in K : Rank(K, id) \in 0..(Cardinality(K) - 1)
    BY <1>1, <1>3, <1>5
  <1>7. ASSUME NEW i \in K, NEW j \in K, Rank(K, i) = Rank(K, j)
        PROVE  i = j
    <2>1. i \in Nat /\ j \in Nat
      BY <1>2
    <2>2. ~(i < j) /\ ~(j < i)
      BY <1>3, <1>4, <1>5, <1>7
    <2> QED
      BY <2>1, <2>2
  <1>8. PICK T : T = 0..(Cardinality(K) - 1)
    OBVIOUS
  <1>9. IsFiniteSet(T) /\ Cardinality(T) = Cardinality(K)
    <2>1. PICK b : b = Cardinality(K) - 1
      OBVIOUS
    <2>2. b \in Int /\ 0 \in Int
      BY <1>1, <2>1
    <2>3. IsFiniteSet(0..b) /\ Cardinality(0..b) = IF 0 > b THEN 0 ELSE b - 0 + 1
      BY <2>2, FS_Interval
    <2> QED
      BY <1>1, <1>8, <2>1, <2>3
  <1>10. PICK g : g = [id \in K |-> Rank(K, id)]
    OBVIOUS
  <1>11. g \in [K -> T]
    BY <1>6, <1>8, <1>10
  <1>12. g \in Injection(K, T)
    BY <1>7, <1>10, <1>11 DEF Injection, IsInjective
  <1>13. g \in Surjection(K, T)
    BY <1>9, <1>12, FS_Injection
  <1>14. \A x \in T : \E id \in K : g[id] = x
    BY <1>13, Fun_SurjectionProperties
  <1> QED
    BY <1>1, <1>6, <1>7, <1>8, <1>10, <1>14

Used == 1..(next - 1) \cup Kept

(* What the facts of the result mention was there before, or is kept; and what
   is kept gets the next identities. *)
Compact ==
    /\ Kept \subseteq next..(alloc.top - 1) /\ Cardinality(Kept) \in Nat
    /\ \A id \in 1..(next - 1) : Remap(id) = id
    /\ \A id \in Kept : Remap(id) \in next..(next + Cardinality(Kept) - 1)
    /\ \A i, j \in Used : Remap(i) = Remap(j) => i = j
    /\ \A x \in next..(next + Cardinality(Kept) - 1) : \E id \in Kept : Remap(id) = x
    /\ \A n \in DOMAIN alloc.fresh : alloc.fresh[n] \in Kept
    /\ \A f \in Result : /\ f \in Facts(alloc.top) /\ f.e \in Used /\ f.a \in Used
                         /\ f.v.tag = "ref" => f.v.x \in Used

LEMMA CompactHolds ==
    ASSUME StoreOK, PlanOK
    PROVE  Compact
  <1>1. /\ next \in Nat /\ alloc.top \in Nat /\ alloc.top >= next /\ next > 0
        /\ live \subseteq Facts(next) /\ ops \in Seq(Operations(alloc.top, Len(home)))
        /\ \A n \in DOMAIN alloc.fresh : alloc.fresh[n] \in next..(alloc.top - 1)
    BY DEF StoreOK, PlanOK, AllocatorOK
  <1>2. Facts(next) \subseteq Facts(alloc.top)
    BY <1>1, FactsGrow
  <1>3. ASSUME NEW f \in Result
        PROVE  f \in Facts(alloc.top)
    <2>1. CASE f \in live
      BY <1>1, <1>2, <2>1
    <2>2. CASE f \notin live
      <3>1. PICK i \in 1..Len(ops) : ops[i].op = "assert" /\ f = Fact(ops[i])
        BY <2>2 DEF Result, After
      <3>2. /\ ops[i].e \in 1..(alloc.top - 1) /\ ops[i].a \in 1..(alloc.top - 1)
            /\ ops[i].v \in Values(alloc.top)
        BY <1>1, <3>1, OperationParts
      <3> QED
        BY <3>1, <3>2 DEF Fact, Facts
    <2> QED
      BY <2>1, <2>2
  <1>4. ASSUME NEW f \in Facts(alloc.top)
        PROVE  /\ f.e \in 1..(alloc.top - 1) /\ f.a \in 1..(alloc.top - 1)
               /\ f.v.tag = "ref" => f.v.x \in 1..(alloc.top - 1)
    <2>1. f.e \in 1..(alloc.top - 1) /\ f.a \in 1..(alloc.top - 1) /\ f.v \in Values(alloc.top)
      BY DEF Facts
    <2>2. f.v.tag = "ref" => f.v.x \in 1..(alloc.top - 1)
      BY <2>1 DEF Values, Scalar, RefTo
    <2> QED
      BY <2>1, <2>2
  <1>4b. ASSUME NEW f \in live
         PROVE  /\ f.e \in 1..(next - 1) /\ f.a \in 1..(next - 1)
                /\ f.v.tag = "ref" => f.v.x \in 1..(next - 1)
    <2>1. f.e \in 1..(next - 1) /\ f.a \in 1..(next - 1) /\ f.v \in Values(next)
      BY <1>1 DEF Facts
    <2>2. f.v.tag = "ref" => f.v.x \in 1..(next - 1)
      BY <2>1 DEF Values, Scalar, RefTo
    <2> QED
      BY <2>1, <2>2
  <1>5. Kept \subseteq next..(alloc.top - 1)
    <2> SUFFICES ASSUME NEW id \in Kept
                 PROVE  id \in next..(alloc.top - 1)
      OBVIOUS
    <2>1. CASE \E n \in DOMAIN alloc.fresh : id = alloc.fresh[n]
      BY <1>1, <2>1
    <2>2. CASE id \in Mentioned(Result \ live) /\ id >= next
      <3>1. PICK f \in Result : id = f.e \/ id = f.a \/ (f.v.tag = "ref" /\ id = f.v.x)
        BY <2>2 DEF Mentioned
      <3>2. id \in 1..(alloc.top - 1)
        BY <1>3, <1>4, <3>1
      <3> QED
        BY <1>1, <2>2, <3>2
    <2> QED
      BY <2>1, <2>2 DEF Kept
  <1>6. PICK n, m, K : n = next /\ m = alloc.top /\ K = Kept
    OBVIOUS
  <1>7. /\ IsFiniteSet(K) /\ Cardinality(K) \in Nat
        /\ \A id \in K : Rank(K, id) \in 0..(Cardinality(K) - 1)
        /\ \A i, j \in K : Rank(K, i) = Rank(K, j) => i = j
        /\ \A x \in 0..(Cardinality(K) - 1) : \E id \in K : Rank(K, id) = x
    <2>1. n \in Nat /\ m \in Nat /\ K \in SUBSET (n..(m - 1))
      BY <1>1, <1>5, <1>6
    <2> QED
      BY <2>1, Ranks
  <1>8. \A id \in K : Remap(id) = n + Rank(K, id)
    BY <1>6 DEF Remap, Rank
  <1>9. \A id : id \notin K => Remap(id) = id
    BY <1>6 DEF Remap
  <1>10. PICK c : c = Cardinality(K)
    OBVIOUS
  <1>11. c \in Nat /\ n \in Nat
    BY <1>1, <1>6, <1>7, <1>10
  <1>12. \A id \in K : Remap(id) \in n..(n + c - 1)
    BY <1>7, <1>8, <1>10, <1>11
  <1>13. ASSUME NEW x \in n..(n + c - 1)
         PROVE  \E id \in K : Remap(id) = x
    <2>1. x - n \in 0..(c - 1)
      BY <1>11
    <2>2. PICK id \in K : Rank(K, id) = x - n
      BY <1>7, <1>10, <2>1
    <2>3. n + (x - n) = x
      BY <1>11
    <2> QED
      BY <1>8, <2>2, <2>3
  <1>14. \A id \in 1..(n - 1) : id \notin K
    BY <1>5, <1>6, <1>11
  <1>15. ASSUME NEW i \in Used, NEW j \in Used, Remap(i) = Remap(j)
         PROVE  i = j
    <2>1. (i \in 1..(n - 1) \/ i \in K) /\ (j \in 1..(n - 1) \/ j \in K)
      BY <1>6 DEF Used
    <2>2. CASE i \in K /\ j \in K
      BY <1>7, <1>8, <1>11, <1>15, <2>2
    <2>3. CASE i \in 1..(n - 1) /\ j \in 1..(n - 1)
      BY <1>9, <1>14, <1>15, <2>3
    <2>4. CASE i \in 1..(n - 1) /\ j \in K
      <3>1. Remap(i) = i /\ Remap(j) \in n..(n + c - 1)
        BY <1>9, <1>12, <1>14, <2>4
      <3> QED
        BY <1>11, <1>15, <2>4, <3>1
    <2>5. CASE i \in K /\ j \in 1..(n - 1)
      <3>1. Remap(j) = j /\ Remap(i) \in n..(n + c - 1)
        BY <1>9, <1>12, <1>14, <2>5
      <3> QED
        BY <1>11, <1>15, <2>5, <3>1
    <2> QED
      BY <2>1, <2>2, <2>3, <2>4, <2>5
  <1>16. ASSUME NEW f \in Result
         PROVE  f.e \in Used /\ f.a \in Used /\ (f.v.tag = "ref" => f.v.x \in Used)
    <2>1. CASE f \in live
      BY <1>4b, <2>1 DEF Used
    <2>2. CASE f \notin live
      <3>1. /\ f.e \in 1..(alloc.top - 1) /\ f.a \in 1..(alloc.top - 1)
            /\ f.v.tag = "ref" => f.v.x \in 1..(alloc.top - 1)
        BY <1>3, <1>4
      <3>2. /\ f.e \in Mentioned(Result \ live) /\ f.a \in Mentioned(Result \ live)
            /\ f.v.tag = "ref" => f.v.x \in Mentioned(Result \ live)
        BY <2>2 DEF Mentioned
      <3>3. ASSUME NEW id \in 1..(alloc.top - 1), id \in Mentioned(Result \ live)
            PROVE  id \in Used
        <4>1. CASE id >= next
          BY <3>3, <4>1 DEF Kept, Used
        <4>2. CASE ~(id >= next)
          BY <1>1, <4>2 DEF Used
        <4> QED
          BY <4>1, <4>2
      <3> QED
        BY <3>1, <3>2, <3>3
    <2> QED
      BY <2>1, <2>2
  <1>17. \A l \in DOMAIN alloc.fresh : alloc.fresh[l] \in Kept
    BY DEF Kept
  <1> QED
    BY <1>3, <1>5, <1>6, <1>7, <1>9, <1>10, <1>12, <1>13, <1>14, <1>15, <1>16, <1>17 DEF Compact

CommittedFacts == (Result \cap live) \cup {Remapped(f) : f \in Result \ live}
CommittedIds ==
    [n \in DOMAIN ids \cup DOMAIN alloc.fresh |->
        IF n \in DOMAIN ids THEN ids[n] ELSE Remap(alloc.fresh[n])]

(* Every fact that is committed is one of the result's, with its identities
   remapped: a fact that was there has none to remap. *)
LEMMA CommittedRemapped ==
    ASSUME StoreOK, PlanOK
    PROVE  CommittedFacts = {Remapped(f) : f \in Result}
  <1>1. ASSUME NEW f \in live
        PROVE  Remapped(f) = f
    <2>0. Compact
      BY CompactHolds
    <2>1. f \in Facts(next)
      BY DEF StoreOK
    <2>2. /\ f = [e |-> f.e, a |-> f.a, v |-> f.v] /\ f.e \in 1..(next - 1) /\ f.a \in 1..(next - 1)
          /\ f.v \in Values(next)
      BY <2>1 DEF Facts
    <2>3. Remap(f.e) = f.e /\ Remap(f.a) = f.a
      BY <2>0, <2>2 DEF Compact
    <2>4. (IF f.v.tag = "ref" THEN RefTo(Remap(f.v.x)) ELSE f.v) = f.v
      <3>1. CASE \E v \in Val : f.v = Scalar(v)
        BY <3>1 DEF Scalar
      <3>2. CASE \E id \in 1..(next - 1) : f.v = RefTo(id)
        <4>1. PICK id \in 1..(next - 1) : f.v = RefTo(id)
          BY <3>2
        <4>2. f.v.x = id /\ Remap(id) = id
          BY <2>0, <4>1 DEF Compact, RefTo
        <4> QED
          BY <4>1, <4>2
      <3> QED
        BY <2>2, <3>1, <3>2 DEF Values
    <2> QED
      BY <2>2, <2>3, <2>4 DEF Remapped
  <1> QED
    BY <1>1 DEF CommittedFacts

LEMMA CommitStep ==
    ASSUME PlanInv, Commit
    PROVE  PlanInv'
  <1>0. StoreOK /\ PlanOK /\ AllocatorOK(alloc) /\ Compact
    BY CompactHolds DEF PlanInv, PlanOK
  <1>1. PICK c : c = Cardinality(Kept)
    OBVIOUS
  <1>2. /\ live' = CommittedFacts /\ ids' = CommittedIds /\ next' = next + c + 1 /\ Discard
    BY <1>1 DEF Commit, CommittedFacts, CommittedIds
  <1>3. /\ next \in Nat /\ next > 0 /\ c \in Nat /\ next' \in Nat /\ next' > 0
        /\ next <= next' /\ next' - 1 = next + c
    BY <1>0, <1>1, <1>2 DEF StoreOK, Compact
  <1>4. /\ 1..(next - 1) \subseteq 1..(next' - 1)
        /\ next..(next + c - 1) \subseteq 1..(next' - 1)
    <2>1. PICK n, m : n = next /\ m = next' - 1
      OBVIOUS
    <2>2. n \in Nat /\ n > 0 /\ m = n + c /\ c \in Nat
      BY <1>3, <2>1
    <2>3. 1..(n - 1) \subseteq 1..m /\ n..(n + c - 1) \subseteq 1..m
      BY <2>2
    <2> QED
      BY <2>1, <2>3
  <1>5. \A id \in Used : Remap(id) \in 1..(next' - 1)
    BY <1>0, <1>1, <1>4 DEF Compact, Used
  <1>6. DOMAIN ids' = DOMAIN ids \cup DOMAIN alloc.fresh
    BY <1>2 DEF CommittedIds
  <1>7. \A n \in DOMAIN ids' : \E id \in Used : /\ ids'[n] = Remap(id)
                                                /\ n \in DOMAIN ids => id = ids[n]
                                                /\ n \notin DOMAIN ids => id = alloc.fresh[n]
    <2> SUFFICES ASSUME NEW n \in DOMAIN ids'
                 PROVE  \E id \in Used : /\ ids'[n] = Remap(id)
                                         /\ n \in DOMAIN ids => id = ids[n]
                                         /\ n \notin DOMAIN ids => id = alloc.fresh[n]
      OBVIOUS
    <2>1. CASE n \in DOMAIN ids
      <3>1. ids'[n] = ids[n] /\ ids[n] \in 1..(next - 1)
        BY <1>0, <1>2, <2>1 DEF CommittedIds, StoreOK
      <3>2. Remap(ids[n]) = ids[n] /\ ids[n] \in Used
        BY <1>0, <3>1 DEF Compact, Used
      <3> QED
        BY <2>1, <3>1, <3>2
    <2>2. CASE n \notin DOMAIN ids
      <3>1. n \in DOMAIN alloc.fresh /\ ids'[n] = Remap(alloc.fresh[n])
        BY <1>2, <1>6, <2>2 DEF CommittedIds
      <3>2. alloc.fresh[n] \in Used
        BY <1>0, <3>1 DEF Compact, Used
      <3> QED
        BY <2>2, <3>1, <3>2
    <2> QED
      BY <2>1, <2>2
  <1>8. \A n \in DOMAIN ids' : ids'[n] \in 1..(next' - 1)
    BY <1>5, <1>7
  <1>9. ids' \in [DOMAIN ids' -> 1..(next' - 1)]
    <2>1. ids' = [n \in DOMAIN ids' |-> ids'[n]]
      BY <1>2 DEF CommittedIds
    <2> QED
      BY <1>8, <2>1
  <1>10. ASSUME NEW m \in DOMAIN ids', NEW n \in DOMAIN ids', ids'[m] = ids'[n]
         PROVE  m = n
    <2>1. PICK x \in Used : /\ ids'[m] = Remap(x) /\ (m \in DOMAIN ids => x = ids[m])
                            /\ (m \notin DOMAIN ids => x = alloc.fresh[m])
      BY <1>7
    <2>2. PICK y \in Used : /\ ids'[n] = Remap(y) /\ (n \in DOMAIN ids => y = ids[n])
                            /\ (n \notin DOMAIN ids => y = alloc.fresh[n])
      BY <1>7
    <2>3. x = y
      BY <1>0, <1>10, <2>1, <2>2 DEF Compact
    <2>4. \A k \in DOMAIN ids : ids[k] \in 1..(next - 1)
      BY <1>0 DEF StoreOK
    <2>5. \A k \in DOMAIN alloc.fresh : alloc.fresh[k] \in next..(alloc.top - 1)
      BY <1>0 DEF AllocatorOK
    <2>6. \A k \in DOMAIN ids, l \in DOMAIN alloc.fresh : ids[k] # alloc.fresh[l]
      BY <1>3, <2>4, <2>5
    <2>7. /\ \A k, l \in DOMAIN ids : ids[k] = ids[l] => k = l
          /\ \A k, l \in DOMAIN alloc.fresh : alloc.fresh[k] = alloc.fresh[l] => k = l
      BY <1>0 DEF StoreOK, AllocatorOK
    <2>8. /\ m \notin DOMAIN ids => m \in DOMAIN alloc.fresh
          /\ n \notin DOMAIN ids => n \in DOMAIN alloc.fresh
      BY <1>6
    <2> QED
      BY <2>1, <2>2, <2>3, <2>6, <2>7, <2>8
  <1>11. live' \subseteq Facts(next')
    <2>1. live' = {Remapped(f) : f \in Result}
      BY <1>0, <1>2, CommittedRemapped
    <2>2. ASSUME NEW f \in Result
          PROVE  Remapped(f) \in Facts(next')
      <3>1. /\ f \in Facts(alloc.top) /\ f.e \in Used /\ f.a \in Used
            /\ f.v.tag = "ref" => f.v.x \in Used
        BY <1>0 DEF Compact
      <3>2. f.v \in Values(alloc.top)
        BY <3>1 DEF Facts
      <3>3. (IF f.v.tag = "ref" THEN RefTo(Remap(f.v.x)) ELSE f.v) \in Values(next')
        <4>1. CASE f.v.tag = "ref"
          BY <1>5, <3>1, <4>1 DEF Values
        <4>2. CASE f.v.tag # "ref"
          BY <3>2, <4>2 DEF Values, RefTo
        <4> QED
          BY <4>1, <4>2
      <3> QED
        BY <1>5, <3>1, <3>3 DEF Remapped, Facts
    <2> QED
      BY <2>1, <2>2
  <1>12. StoreOK'
    <2>1. Declared \subseteq DOMAIN ids' /\ DOMAIN ids' \subseteq Attr \cup Name
      BY <1>0, <1>6 DEF StoreOK, AllocatorOK
    <2> QED
      BY <1>3, <1>9, <1>10, <1>11, <2>1 DEF StoreOK
  <1>13. Empty'
    <2>1. <<>> \in Seq(Item) /\ FALSE \in BOOLEAN
      OBVIOUS
    <2> QED
      BY <1>2, <2>1, Zenon DEF Discard, Empty
  <1> QED
    BY <1>12, <1>13, EmptyPlanNext

-----------------------------------------------------------------------------
(* The invariant holds throughout. *)

(* Whatever requests are planned, however deep their records nest, and whether
   they are committed, found to change nothing or given up: the calls of
   planMap under way are the records around the innermost one, what was
   planned since a call began is what its record and those nested in it say,
   the fields that are left are the last ones, and the first assertion of a
   unique value has the entity of every settled record that gives it. *)
THEOREM PlanInvariance == Spec => []PlanInv
  <1>1. Init => PlanInv
    BY InitHolds
  <1>2. PlanInv /\ [Next]_vars => PlanInv'
    <2> SUFFICES ASSUME PlanInv, [Next]_vars
                 PROVE  PlanInv'
      OBVIOUS
    <2>1. ASSUME NEW r \in DOMAIN Requests, Begin(Requests[r])
          PROVE  PlanInv'
      BY <2>1, BeginStep
    <2>2. CASE PlanMap
      BY <2>2, PlanMapStep
    <2>3. CASE PlanField
      BY <2>3, PlanFieldStep
    <2>4. CASE EnterChild
      BY <2>4, EnterChildStep
    <2>5. CASE Leave
      BY <2>5, LeaveStep
    <2>6. CASE PlanAssert
      BY <2>6, PlanAssertStep
    <2>7. CASE PlanRetract
      BY <2>7, PlanRetractStep
    <2>8. CASE Commit
      BY <2>8, CommitStep
    <2>9. CASE Noop
      BY <2>9, AbortStep DEF Noop
    <2>10. CASE Abort
      BY <2>10, AbortStep DEF Abort
    <2>11. CASE UNCHANGED vars
      <3>1. /\ UNCHANGED <<store, busy, alloc, ops, stack, home, uses, moved>> /\ items' = items
        BY <2>11 DEF vars
      <3>2. items' \in Seq(Item)
        BY <3>1 DEF PlanInv, PlanOK
      <3> QED
        BY <3>1, <3>2, ItemsStep
    <2> QED
      BY <2>1, <2>2, <2>3, <2>4, <2>5, <2>6, <2>7, <2>8, <2>9, <2>10, <2>11 DEF Next
  <1> QED
    BY <1>1, <1>2, PTL DEF Spec

LEMMA PlanInvSound ==
    ASSUME PlanInv
    PROVE  PlanSound
  <1>0. StoreOK /\ PlanOK /\ AllocatorOK(alloc) /\ RecordWholeUnlessNested /\ TokenOneEntity
    BY DEF PlanInv, PlanOK
  <1>1. /\ next \in Nat /\ alloc.top \in Nat /\ alloc.top >= next
        /\ DOMAIN ids \subseteq Attr \cup Name
        /\ \A n \in DOMAIN ids : ids[n] \in 1..(next - 1)
    BY <1>0 DEF StoreOK, AllocatorOK
  <1>2. Mentioned(live) \subseteq 1..(next - 1)
    <2> SUFFICES ASSUME NEW f \in live
                 PROVE  /\ f.e \in 1..(next - 1) /\ f.a \in 1..(next - 1)
                        /\ f.v.tag = "ref" => f.v.x \in 1..(next - 1)
      BY DEF Mentioned
    <2>1. f.e \in 1..(next - 1) /\ f.a \in 1..(next - 1) /\ f.v \in Values(next)
      BY <1>0 DEF StoreOK, Facts
    <2> QED
      BY <2>1 DEF Values, Scalar, RefTo
  <1>3. ASSUME NEW i \in DOMAIN ops
        PROVE  ops[i].e < alloc.top /\ (ops[i].op = "assert" => ops[i].v \in Value)
    <2>1. ops \in Seq(Operations(alloc.top, Len(home))) /\ i \in 1..Len(ops)
      BY <1>0 DEF PlanOK
    <2>2. /\ ops[i].e \in 1..(alloc.top - 1)
          /\ ops[i].op = "assert" => ops[i].v \in Values(alloc.top)
      BY <2>1, OperationParts
    <2>3. Values(alloc.top) = Value
      BY DEF Values, Value
    <2> QED
      BY <1>1, <2>2, <2>3
  <1>4. ASSUME NEW i \in DOMAIN stack
        PROVE  stack[i].rec \in DOMAIN home /\ stack[i].start <= Len(ops)
    <2>1. /\ stack \in Seq(Frames(alloc.top, Len(ops), Len(home))) /\ i \in 1..Len(stack)
          /\ DOMAIN home = 1..Len(home) /\ Len(ops) \in Nat
      BY <1>0 DEF PlanOK
    <2>2. stack[i].rec \in 1..Len(home) /\ stack[i].start \in 0..Len(ops)
      BY <2>1, FrameParts
    <2> QED
      BY <2>1, <2>2
  <1>5. TypeOK
    BY <1>1, <1>2, <1>3, <1>4 DEF TypeOK
  <1> QED
    BY <1>0, <1>5 DEF PlanSound

(* While a request is planned its identities are in range, what a record says
   is on the record's entity even if planMap found half way through that the
   record is another one, and a token stands for one entity. *)
THEOREM PlansAreSound == Spec => []PlanSound
  <1>1. PlanInv => PlanSound
    BY PlanInvSound
  <1> QED
    BY <1>1, PlanInvariance, PTL

-----------------------------------------------------------------------------
(* Who owns a unique value. *)

(* What a record gives is in the plan once all is planned, on its entity. *)
LEMMA GivenPlanned ==
    ASSUME PlanInv, Planned, NEW r \in DOMAIN home, NEW a \in Unique, NEW v \in Val, Gives(r, a, v),
           ~NestedInMoved(r)
    PROVE  \E j \in 1..Len(ops) : /\ Asserts(ops[j], ids[a], Scalar(v))
                                  /\ ops[j].rec = r /\ ops[j].rec # 0 /\ ops[j].e = home[r].e
  <1>1. PICK i \in DOMAIN home[r].fields :
            home[r].fields[i].a = a /\ home[r].fields[i].v = [kind |-> "val", x |-> v]
    BY DEF Gives
  <1>2. home[r].fields[i].v.x = v
    BY <1>1
  <1>3. DOMAIN stack = {}
    BY DEF Planned
  <1>4. PlannedValue(r, i)
    BY <1>1, <1>3 DEF PlanInv, Given
  <1>5. PICK j \in DOMAIN ops : /\ ops[j].op = "assert" /\ ops[j].rec = r
                                /\ ops[j].a = ids[a] /\ ops[j].v = Scalar(v)
    BY <1>1, <1>2, <1>4 DEF PlannedValue
  <1>6. r # 0 /\ j \in 1..Len(ops)
    BY DEF PlanInv, PlanOK
  <1>7. ops[j].e = home[r].e
    BY <1>5, <1>6 DEF PlanInv, RecordWholeUnlessNested, NestedInMoved
  <1> QED
    BY <1>5, <1>6, <1>7 DEF Asserts

LEMMA RecordsMeetHolds ==
    ASSUME PlanInv
    PROVE  RecordsMeet
  <1> SUFFICES ASSUME Planned, NEW r \in DOMAIN home, NEW s \in DOMAIN home,
                      NEW a \in Unique, NEW v \in Val,
                      Gives(r, a, v), Gives(s, a, v), Settled(r), Settled(s)
               PROVE  home[r].e = home[s].e
    BY DEF RecordsMeet
  <1>1. PICK i \in 1..Len(ops) : /\ Asserts(ops[i], ids[a], Scalar(v))
                                 /\ ops[i].rec = r /\ ops[i].rec # 0 /\ ops[i].e = home[r].e
    BY GivenPlanned DEF Settled
  <1>2. PICK j \in 1..Len(ops) : /\ Asserts(ops[j], ids[a], Scalar(v))
                                 /\ ops[j].rec = s /\ ops[j].rec # 0 /\ ops[j].e = home[s].e
    BY GivenPlanned DEF Settled
  <1>3. i \in DOMAIN ops /\ j \in DOMAIN ops
    BY DEF PlanInv, PlanOK
  <1>4. UniqueOwnerIncludingPlan(a, Scalar(v)) = ops[i].e
    BY <1>1, <1>3 DEF PlanInv, FirstOwns, Asserts
  <1>5. UniqueOwnerIncludingPlan(a, Scalar(v)) = ops[j].e
    BY <1>2, <1>3 DEF PlanInv, FirstOwns, Asserts
  <1> QED
    BY <1>1, <1>2, <1>4, <1>5

(* The diff accepts no second owner: by the first assertion that would be one. *)
LEMMA OneOwnerAccepted ==
    ASSUME PlanInv, DiffAccepts, NEW a \in Unique, NEW v \in Val,
           ~OwnerRetracted(a, v), OneLiveOwner(a, v),
           NEW f \in live \cup {Fact(ops[i]) : i \in 1..Len(ops)}, f.a = ids[a], f.v = Scalar(v),
           f \notin live => \E i \in 1..Len(ops) : ops[i].op = "assert" /\ f = Fact(ops[i]),
           NEW j \in 1..Len(ops), Asserts(ops[j], ids[a], Scalar(v))
    PROVE  f.e = ops[j].e
  <1>0. /\ ops \in Seq(Operations(alloc.top, Len(home))) /\ Len(ops) \in Nat /\ DOMAIN ops = 1..Len(ops)
    BY DEF PlanInv, PlanOK
  <1> DEFINE Is(i) == Asserts(ops[i], ids[a], Scalar(v))
             Mine(g) == g.a = ids[a] /\ g.v = Scalar(v)
             Bad == {n \in 1..Len(ops) :
                        /\ Is(n)
                        /\ \/ \E g \in live : Mine(g) /\ g.e # ops[n].e
                           \/ \E k \in 1..(n - 1) : Is(k) /\ ops[k].e # ops[n].e}
  <1>1. \A i \in 1..Len(ops) : /\ Fact(ops[i]).e = ops[i].e /\ Fact(ops[i]).a = ops[i].a
                               /\ Fact(ops[i]).v = ops[i].v
    BY DEF Fact
  <1>2. ASSUME NEW g \in live \cup {Fact(ops[i]) : i \in 1..Len(ops)}, Mine(g),
               NEW k \in 1..Len(ops), Retracts(ops[k], g)
        PROVE  FALSE
    <2>1. g.v # RefTo(ops[k].e)
      BY <1>2 DEF Scalar, RefTo
    <2>2. ops[k].op = "retract" /\ g.e = ops[k].e
      BY <1>2, <2>1 DEF Retracts
    <2> QED
      BY <1>0, <1>2, <2>2 DEF OwnerRetracted
  <1>3. ASSUME NEW n \in 1..Len(ops), NEW g \in live, Mine(g)
        PROVE  g \in After(n - 1)
    <2>1. \A k \in 1..(n - 1) : k \in 1..Len(ops)
      BY <1>0
    <2> QED
      BY <1>2, <1>3, <2>1 DEF After
  <1>4. ASSUME NEW n \in 1..Len(ops), NEW k \in 1..(n - 1), Is(k)
        PROVE  Fact(ops[k]) \in After(n - 1) /\ Mine(Fact(ops[k]))
    <2>1. k \in 1..Len(ops) /\ \A l \in (k + 1)..(n - 1) : l \in 1..Len(ops)
      BY <1>0
    <2>2. Mine(Fact(ops[k])) /\ ops[k].op = "assert"
      BY <1>1, <1>4, <2>1 DEF Asserts
    <2>3. ~ \E l \in (k + 1)..(n - 1) : Retracts(ops[l], Fact(ops[k]))
      BY <1>2, <2>1, <2>2
    <2> QED
      BY <2>2, <2>3 DEF After
  <1>5. ASSUME NEW n \in 1..Len(ops), NEW g \in After(n - 1), Mine(g)
        PROVE  g \in live \/ \E k \in 1..(n - 1) : Is(k) /\ g = Fact(ops[k])
    <2> SUFFICES ASSUME g \notin live
                 PROVE  \E k \in 1..(n - 1) : Is(k) /\ g = Fact(ops[k])
      OBVIOUS
    <2>1. PICK k \in 1..(n - 1) : ops[k].op = "assert" /\ g = Fact(ops[k])
      BY <1>5 DEF After
    <2>2. k \in 1..Len(ops)
      BY <1>0
    <2>3. Is(k)
      BY <1>1, <1>5, <2>1, <2>2 DEF Asserts
    <2> QED
      BY <2>1, <2>3
  <1>6. Bad = {}
    <2> SUFFICES ASSUME Bad # {}
                 PROVE  FALSE
      OBVIOUS
    <2>1. Bad \in SUBSET Nat
      OBVIOUS
    <2>2. PICK n \in Bad : \A m \in Bad : n <= m
      BY <2>1, LeastNumber
    <2>3. n \in 1..Len(ops) /\ Is(n)
      OBVIOUS
    <2>4. ASSUME NEW k \in 1..(n - 1), Is(k)
          PROVE  /\ \A g \in live : Mine(g) => g.e = ops[k].e
                 /\ \A l \in 1..(k - 1) : Is(l) => ops[l].e = ops[k].e
      <3>1. k \in 1..Len(ops) /\ k < n
        BY <1>0, <2>3
      <3>2. k \notin Bad
        BY <1>0, <2>2, <2>3, <3>1
      <3> QED
        BY <2>4, <3>1, <3>2
    <2>5. ASSUME NEW k \in 1..(n - 1), Is(k), NEW l \in 1..(n - 1), Is(l)
          PROVE  ops[k].e = ops[l].e
      <3>1. k = l \/ k \in 1..(l - 1) \/ l \in 1..(k - 1)
        BY <1>0, <2>3
      <3> QED
        BY <2>4, <2>5, <3>1
    <2>6. \A g, h \in live : Mine(g) /\ Mine(h) => g.e = h.e
      BY DEF OneLiveOwner
    <2>7. \/ \E g \in live : Mine(g) /\ g.e # ops[n].e
          \/ \E k \in 1..(n - 1) : Is(k) /\ ops[k].e # ops[n].e
      BY <2>2
    <2>8. PICK h \in After(n - 1) : Mine(h) /\ h.e # ops[n].e
      <3>1. CASE \E g \in live : Mine(g) /\ g.e # ops[n].e
        BY <1>3, <2>3, <3>1
      <3>2. CASE \E k \in 1..(n - 1) : Is(k) /\ ops[k].e # ops[n].e
        <4>1. PICK k \in 1..(n - 1) : Is(k) /\ ops[k].e # ops[n].e
          BY <3>2
        <4>2. k \in 1..Len(ops)
          BY <1>0, <2>3
        <4> QED
          BY <1>1, <1>4, <2>3, <4>1, <4>2
      <3> QED
        BY <2>7, <3>1, <3>2
    <2>9. ops[n].op = "assert" /\ ops[n].a = ids[a] /\ ops[n].v = Scalar(v)
      BY <2>3 DEF Asserts
    <2>10. Mine(Fact(ops[n])) /\ Fact(ops[n]).e = ops[n].e
      BY <1>1, <2>3, <2>9
    <2> HIDE DEF Bad
    <2>11. ASSUME NEW g, Mine(g), g \in live \/ \E k \in 1..(n - 1) : Is(k) /\ g = Fact(ops[k]),
                  NEW o, Mine(o), o \in live \/ \E k \in 1..(n - 1) : Is(k) /\ o = Fact(ops[k])
           PROVE  g.e = o.e
      <3>1. \A k \in 1..(n - 1) : Fact(ops[k]).e = ops[k].e
        BY <1>0, <1>1, <2>3
      <3>2. CASE g \in live /\ o \in live
        BY <2>6, <2>11, <3>2
      <3>3. ASSUME NEW k \in 1..(n - 1), Is(k), g = Fact(ops[k]), o \in live
            PROVE  g.e = o.e
        BY <2>4, <2>11, <3>1, <3>3
      <3>4. ASSUME NEW k \in 1..(n - 1), Is(k), o = Fact(ops[k]), g \in live
            PROVE  g.e = o.e
        BY <2>4, <2>11, <3>1, <3>4
      <3>5. ASSUME NEW k \in 1..(n - 1), Is(k), g = Fact(ops[k]),
                   NEW l \in 1..(n - 1), Is(l), o = Fact(ops[l])
            PROVE  g.e = o.e
        BY <2>5, <3>1, <3>5
      <3> QED
        BY <2>11, <3>2, <3>3, <3>4, <3>5
    <2>12. h \in live \/ \E k \in 1..(n - 1) : Is(k) /\ h = Fact(ops[k])
      BY <1>5, <2>3, <2>8
    <2>13. Fact(ops[n]) \notin live \cup After(n - 1)
      <3> SUFFICES ASSUME Fact(ops[n]) \in live \cup After(n - 1)
                   PROVE  FALSE
        OBVIOUS
      <3>1. Fact(ops[n]) \in live \/ \E k \in 1..(n - 1) : Is(k) /\ Fact(ops[n]) = Fact(ops[k])
        BY <1>5, <2>3, <2>10
      <3>2. Fact(ops[n]).e = h.e
        BY <2>8, <2>10, <2>11, <2>12, <3>1
      <3> QED
        BY <2>8, <2>10, <3>2
    <2>14. ~ \E g \in After(n - 1) : g.a = ops[n].a /\ g.v = ops[n].v /\ g.e # ops[n].e
      BY <1>0, <2>3, <2>9, <2>13 DEF DiffAccepts
    <2> QED
      BY <2>8, <2>9, <2>14
  <1>7. CASE f \in live
    BY <1>6, <1>7
  <1>8. CASE f \notin live
    <2>1. PICK i \in 1..Len(ops) : ops[i].op = "assert" /\ f = Fact(ops[i])
      BY <1>8
    <2>2. Is(i) /\ f.e = ops[i].e
      BY <1>1, <2>1 DEF Asserts
    <2>3. i = j \/ i \in 1..(j - 1) \/ j \in 1..(i - 1)
      BY <1>0
    <2> QED
      BY <1>6, <2>2, <2>3
  <1> QED
    BY <1>7, <1>8

LEMMA RecordOwnsValueHolds ==
    ASSUME PlanInv
    PROVE  RecordOwnsValue
  <1> SUFFICES ASSUME Planned, DiffAccepts, NEW r \in DOMAIN home, NEW a \in Unique, NEW v \in Val,
                      Gives(r, a, v), ~NestedInMoved(r), ~OwnerRetracted(a, v), OneLiveOwner(a, v),
                      NEW f \in Result, f.a = ids[a], f.v = Scalar(v)
               PROVE  f.e = home[r].e
    BY DEF RecordOwnsValue
  <1>1. PICK j \in 1..Len(ops) : Asserts(ops[j], ids[a], Scalar(v)) /\ ops[j].e = home[r].e
    BY GivenPlanned
  <1>2. f \notin live => \E i \in 1..Len(ops) : ops[i].op = "assert" /\ f = Fact(ops[i])
    BY DEF Result, After
  <1>3. f \in live \cup {Fact(ops[i]) : i \in 1..Len(ops)}
    BY <1>2
  <1>4. f.e = ops[j].e
    BY <1>1, <1>2, <1>3, OneOwnerAccepted
  <1> QED
    BY <1>1, <1>4

(* Records that give one unique value are one entity, and the entity of a
   record that gives a unique value is the one that owns it once the plan is
   applied; for every request and any nesting of its records. *)
THEOREM ValuesHaveOneOwner == Spec => []OwnerOfValue
  <1>1. PlanInv => OwnerOfValue
    BY RecordsMeetHolds, RecordOwnsValueHolds DEF OwnerOfValue
  <1> QED
    BY <1>1, PlanInvariance, PTL

-----------------------------------------------------------------------------
(* What a commit leaves. *)

SentOK == sent \in Nat

LEMMA OnlyCommit ==
    ASSUME [Next]_vars
    PROVE  Commit \/ UNCHANGED store
  BY DEF Next, vars, Begin, PlanMap, PlanField, EnterChild, Leave, PlanAssert, PlanRetract, Noop, Abort

LEMMA SentInvariance == Spec => []SentOK
  <1>1. Init => SentOK
    BY DEF Init, SentOK
  <1>2. SentOK /\ [Next]_vars => SentOK'
    <2> SUFFICES ASSUME SentOK, [Next]_vars
                 PROVE  SentOK'
      OBVIOUS
    <2>1. CASE Commit
      BY <2>1 DEF SentOK, Commit
    <2>2. CASE UNCHANGED store
      BY <2>2 DEF SentOK, store
    <2> QED
      BY <2>1, <2>2, OnlyCommit
  <1> QED
    BY <1>1, <1>2, PTL DEF Spec

Names(names, id) == {n \in DOMAIN names : names[n] = id}
RenderedFact(f, names) ==
    [e |-> Names(names, f.e), a |-> Names(names, f.a),
     v |-> IF f.v.tag = "ref" THEN RefTo(Names(names, f.v.x)) ELSE f.v]

LEMMA RenderedFacts ==
    ASSUME NEW facts, NEW names
    PROVE  Rendered(facts, names) = {RenderedFact(f, names) : f \in facts}
  BY DEF Rendered, RenderedFact, Names

(* An identity has the names it had, under its new number. *)
LEMMA NamesKept ==
    ASSUME PlanInv, NEW id \in Used
    PROVE  Names(CommittedIds, Remap(id)) = Names(PlannedNames, id)
  <1>0. StoreOK /\ PlanOK /\ AllocatorOK(alloc) /\ Compact
    BY CompactHolds DEF PlanInv, PlanOK
  <1>1. /\ DOMAIN CommittedIds = DOMAIN ids \cup DOMAIN alloc.fresh
        /\ DOMAIN PlannedNames = DOMAIN ids \cup DOMAIN alloc.fresh
    BY DEF CommittedIds, PlannedNames
  <1>2. ASSUME NEW n \in DOMAIN ids \cup DOMAIN alloc.fresh
        PROVE  CommittedIds[n] = Remap(PlannedNames[n]) /\ PlannedNames[n] \in Used
    <2>1. CASE n \in DOMAIN ids
      <3>1. CommittedIds[n] = ids[n] /\ PlannedNames[n] = ids[n] /\ ids[n] \in 1..(next - 1)
        BY <1>0, <2>1 DEF CommittedIds, PlannedNames, StoreOK
      <3> QED
        BY <1>0, <3>1 DEF Compact, Used
    <2>2. CASE n \notin DOMAIN ids
      <3>1. CommittedIds[n] = Remap(alloc.fresh[n]) /\ PlannedNames[n] = alloc.fresh[n]
        BY <2>2 DEF CommittedIds, PlannedNames
      <3>2. alloc.fresh[n] \in Used
        BY <1>0, <2>2 DEF Compact, Used
      <3> QED
        BY <3>1, <3>2
    <2> QED
      BY <2>1, <2>2
  <1>3. \A n \in DOMAIN ids \cup DOMAIN alloc.fresh :
            CommittedIds[n] = Remap(id) <=> PlannedNames[n] = id
    BY <1>0, <1>2 DEF Compact
  <1> QED
    BY <1>1, <1>3 DEF Names

LEMMA NamesOfFacts ==
    ASSUME PlanInv, NEW f \in Result
    PROVE  RenderedFact(Remapped(f), CommittedIds) = RenderedFact(f, PlannedNames)
  <1>0. Compact
    BY CompactHolds DEF PlanInv
  <1>1. f.e \in Used /\ f.a \in Used /\ (f.v.tag = "ref" => f.v.x \in Used)
    BY <1>0 DEF Compact
  <1>2. PICK g : g = Remapped(f)
    OBVIOUS
  <1>3. /\ g.e = Remap(f.e) /\ g.a = Remap(f.a)
        /\ f.v.tag = "ref" => g.v = RefTo(Remap(f.v.x))
        /\ f.v.tag # "ref" => g.v = f.v
    BY <1>2 DEF Remapped
  <1>4. /\ Names(CommittedIds, g.e) = Names(PlannedNames, f.e)
        /\ Names(CommittedIds, g.a) = Names(PlannedNames, f.a)
    BY <1>1, <1>3, NamesKept
  <1>5. CASE f.v.tag = "ref"
    <2>1. g.v.tag = "ref" /\ g.v.x = Remap(f.v.x)
      BY <1>3, <1>5 DEF RefTo
    <2>2. Names(CommittedIds, g.v.x) = Names(PlannedNames, f.v.x)
      BY <1>1, <1>5, <2>1, NamesKept
    <2> QED
      BY <1>2, <1>4, <1>5, <2>1, <2>2 DEF RenderedFact
  <1>6. CASE f.v.tag # "ref"
    BY <1>2, <1>3, <1>4, <1>6 DEF RenderedFact
  <1> QED
    BY <1>5, <1>6

LEMMA CommitStored ==
    ASSUME PlanInv, Commit
    PROVE  Rendered(live', ids') = Rendered(Result, PlannedNames)
  <1>1. live' = {Remapped(f) : f \in Result} /\ ids' = CommittedIds
    <2>1. live' = CommittedFacts /\ ids' = CommittedIds
      BY DEF Commit, CommittedFacts, CommittedIds
    <2> QED
      BY <2>1, CommittedRemapped DEF PlanInv
  <1>2. PICK L, N : L = live' /\ N = ids'
    OBVIOUS
  <1>3. Rendered(L, N) = {RenderedFact(g, N) : g \in L}
    BY RenderedFacts
  <1>4. PICK F, M : F = Result /\ M = PlannedNames
    OBVIOUS
  <1>5. Rendered(F, M) = {RenderedFact(f, M) : f \in F}
    BY RenderedFacts
  <1>6. \A f \in F : RenderedFact(Remapped(f), N) = RenderedFact(f, M)
    BY <1>1, <1>2, <1>4, NamesOfFacts
  <1>7. L = {Remapped(f) : f \in F}
    BY <1>1, <1>2, <1>4
  <1>8. {RenderedFact(g, N) : g \in L} = {RenderedFact(f, M) : f \in F}
    BY <1>6, <1>7
  <1> QED
    BY <1>2, <1>3, <1>4, <1>5, <1>8

LEMMA CommitNoOrphans ==
    ASSUME PlanInv, Commit, NEW id \in next..(next' - 2)
    PROVE  id \in Mentioned(live') \cup {ids'[n] : n \in DOMAIN ids'}
  <1>0. StoreOK /\ PlanOK /\ AllocatorOK(alloc) /\ Compact
    BY CompactHolds DEF PlanInv, PlanOK
  <1>1. PICK c : c = Cardinality(Kept)
    OBVIOUS
  <1>2. next' = next + c + 1 /\ live' = CommittedFacts /\ ids' = CommittedIds
    BY <1>1 DEF Commit, CommittedFacts, CommittedIds
  <1>3. live' = {Remapped(f) : f \in Result}
    BY <1>0, <1>2, CommittedRemapped
  <1>4. next \in Nat /\ c \in Nat
    BY <1>0, <1>1 DEF StoreOK, Compact
  <1>5. id \in next..(next + c - 1)
    <2>1. PICK m : m = next' - 2
      OBVIOUS
    <2>2. m = next + c - 1
      BY <1>2, <1>4, <2>1
    <2> QED
      BY <2>1, <2>2
  <1>6. PICK k \in Kept : Remap(k) = id
    BY <1>0, <1>1, <1>5 DEF Compact
  <1>7. CASE \E n \in DOMAIN alloc.fresh : k = alloc.fresh[n]
    <2>1. PICK n \in DOMAIN alloc.fresh : k = alloc.fresh[n]
      BY <1>7
    <2>2. n \notin DOMAIN ids
      BY <1>0 DEF AllocatorOK
    <2>3. n \in DOMAIN ids' /\ ids'[n] = Remap(k)
      BY <1>2, <2>1, <2>2 DEF CommittedIds
    <2> QED
      BY <1>6, <2>3
  <1>8. CASE k \in Mentioned(Result \ live)
    <2>1. PICK f \in Result : k = f.e \/ k = f.a \/ (f.v.tag = "ref" /\ k = f.v.x)
      BY <1>8 DEF Mentioned
    <2>2. PICK g : g = Remapped(f)
      OBVIOUS
    <2>3. g \in live'
      BY <1>3, <2>2
    <2>4. /\ g.e = Remap(f.e) /\ g.a = Remap(f.a)
          /\ f.v.tag = "ref" => g.v.tag = "ref" /\ g.v.x = Remap(f.v.x)
      BY <2>2 DEF Remapped, RefTo
    <2>5. id = g.e \/ id = g.a \/ (g.v.tag = "ref" /\ id = g.v.x)
      BY <1>6, <2>1, <2>4
    <2> QED
      BY <2>3, <2>5 DEF Mentioned
  <1> QED
    BY <1>6, <1>7, <1>8 DEF Kept

(* Closing the gaps between the identities a transaction allocated changes no
   fact as far as names tell, and every identity it leaves is in a fact or has
   a name, whatever the plan allocated and then dropped. *)
THEOREM CompactionIsFaithful == Spec => CompactionFaithful
  <1>1. PlanInv /\ SentOK /\ [Next]_vars =>
            (sent' > sent => Rendered(live', ids') = Rendered(Result, PlannedNames))
    <2> SUFFICES ASSUME PlanInv, SentOK, [Next]_vars, sent' > sent
                 PROVE  Rendered(live', ids') = Rendered(Result, PlannedNames)
      OBVIOUS
    <2>1. Commit
      <3>1. ASSUME UNCHANGED store
            PROVE  FALSE
        BY <3>1 DEF SentOK, store
      <3> QED
        BY <3>1, OnlyCommit
    <2> QED
      BY <2>1, CommitStored
  <1>2. PlanInv /\ SentOK /\ [Next]_vars =>
            \A id \in next..(next' - 2) :
                id \in Mentioned(live') \cup {ids'[n] : n \in DOMAIN ids'}
    <2> SUFFICES ASSUME PlanInv, [Next]_vars, NEW id \in next..(next' - 2)
                 PROVE  id \in Mentioned(live') \cup {ids'[n] : n \in DOMAIN ids'}
      OBVIOUS
    <2>1. CASE Commit
      BY <2>1, CommitNoOrphans
    <2>2. CASE UNCHANGED store
      <3>1. next \in Nat /\ next' = next
        BY <2>2 DEF PlanInv, StoreOK, store
      <3> QED
        BY <3>1
    <2> QED
      BY <2>1, <2>2, OnlyCommit
  <1>3. Spec => StoredUnderNames
    BY <1>1, PlanInvariance, SentInvariance, PTL DEF Spec, StoredUnderNames
  <1>4. Spec => NoOrphans
    BY <1>2, PlanInvariance, SentInvariance, PTL DEF Spec, NoOrphans
  <1> QED
    BY <1>3, <1>4 DEF CompactionFaithful

LEMMA CommitComplies ==
    ASSUME PlanInv, Commit, \A id \in Kept : Remap(id) = id,
           \A e \in Mentioned(live) : Complies(e, live), NEW e \in Mentioned(live')
    PROVE  (LosesRequired(e) /\ \A i \in DOMAIN ops : ops[i].e # e) \/ Complies(e, live')
  <1>0. StoreOK /\ PlanOK /\ Compact
    BY CompactHolds DEF PlanInv
  <1>1. live' = CommittedFacts /\ (\A d \in Touched(CommittedFacts) : Complies(d, CommittedFacts))
    BY DEF Commit, CommittedFacts
  <1>2. \A id \in Used : Remap(id) = id
    BY <1>0 DEF Compact, Used
  <1>3. ASSUME NEW f \in Result
        PROVE  Remapped(f) = f
    <2>1. /\ f \in Facts(alloc.top) /\ f.e \in Used /\ f.a \in Used
          /\ f.v.tag = "ref" => f.v.x \in Used
      BY <1>0 DEF Compact
    <2>2. f = [e |-> f.e, a |-> f.a, v |-> f.v] /\ f.v \in Values(alloc.top)
      BY <2>1 DEF Facts
    <2>3. f.v.tag = "ref" => RefTo(f.v.x) = f.v
      BY <2>2 DEF Values, Scalar, RefTo
    <2>4. (IF f.v.tag = "ref" THEN RefTo(Remap(f.v.x)) ELSE f.v) = f.v
      BY <1>2, <2>1, <2>3
    <2> QED
      BY <1>2, <2>1, <2>2, <2>4 DEF Remapped
  <1>4. live' = Result
    <2>1. live' = {Remapped(f) : f \in Result}
      BY <1>0, <1>1, CommittedRemapped
    <2> QED
      BY <1>3, <2>1
  <1>5. CASE ops = <<>>
    <2>1. e \in Touched(CommittedFacts)
      BY <1>1, <1>5 DEF Touched
    <2> QED
      BY <1>1, <2>1
  <1>6. CASE ops # <<>> /\ \E i \in DOMAIN ops : ops[i].e = e
    <2>1. e \in Touched(CommittedFacts)
      BY <1>6 DEF Touched
    <2> QED
      BY <1>1, <2>1
  <1>7. CASE \A i \in DOMAIN ops : ops[i].e # e
    <2> SUFFICES ASSUME ~LosesRequired(e), \E f \in live' : f.e = e /\ f.a = ids[Member]
                 PROVE  \E g \in live' : g.e = e /\ g.a = ids[Required]
      BY <1>7 DEF Complies
    <2>0. DOMAIN ops = 1..Len(ops)
      BY <1>0 DEF PlanOK
    <2>1. PICK f \in Result : f.e = e /\ f.a = ids[Member]
      BY <1>4
    <2>2. f \in live
      <3>1. \A i \in 1..Len(ops) : Fact(ops[i]).e = ops[i].e
        BY DEF Fact
      <3> QED
        BY <1>7, <2>0, <2>1, <3>1 DEF Result, After
    <2>3. e \in Mentioned(live)
      BY <2>1, <2>2 DEF Mentioned
    <2>4. PICK g \in live : g.e = e /\ g.a = ids[Required]
      BY <2>1, <2>2, <2>3 DEF Complies
    <2>5. \A j \in 1..Len(ops) : ~Retracts(ops[j], g)
      BY <1>7, <2>0, <2>4 DEF Retracts, LosesRequired
    <2>6. g \in Result
      BY <2>4, <2>5 DEF Result, After
    <2> QED
      BY <1>4, <2>4, <2>6
  <1> QED
    BY <1>5, <1>6, <1>7

(* Validating the entities the plan names is enough for every member to have
   what its shape requires, as long as no identity moves and no required
   reference goes with the entity it refers to. *)
THEOREM MembersHaveRequired == Spec => MembersComply
  <1>1. PlanInv /\ SentOK /\ [Next]_vars =>
            (/\ sent' > sent
             /\ \A id \in Kept : Remap(id) = id
             /\ \A e \in Mentioned(live) : Complies(e, live)
             => \A e \in Mentioned(live') :
                   (LosesRequired(e) /\ \A i \in DOMAIN ops : ops[i].e # e) \/ Complies(e, live'))
    <2> SUFFICES ASSUME PlanInv, SentOK, [Next]_vars, sent' > sent,
                        \A id \in Kept : Remap(id) = id,
                        \A e \in Mentioned(live) : Complies(e, live),
                        NEW e \in Mentioned(live')
                 PROVE  (LosesRequired(e) /\ \A i \in DOMAIN ops : ops[i].e # e) \/ Complies(e, live')
      OBVIOUS
    <2>1. Commit
      <3>1. ASSUME UNCHANGED store
            PROVE  FALSE
        BY <3>1 DEF SentOK, store
      <3> QED
        BY <3>1, OnlyCommit
    <2> QED
      BY <2>1, CommitComplies
  <1> QED
    BY <1>1, PlanInvariance, SentInvariance, PTL DEF Spec, MembersComply
=============================================================================
