------------------------------ MODULE FactRows ------------------------------
(***************************************************************************)
(* The rows of fgraph_facts and the questions the code asks of them: which *)
(* rows are live, which were visible as of a transaction, what an          *)
(* attribute's schema declarations say, and what a retraction request      *)
(* matches.  Pure operators, shared by every module about the fact store.  *)
(*                                                                         *)
(* A row is one fact: entity e, attribute a, value v, asserted by          *)
(* transaction tx and retracted by transaction rx (Null while live).  The  *)
(* AUTOINCREMENT id is kept as its order: rows of an earlier transaction   *)
(* first, then ord, the position within the transaction.                   *)
(***************************************************************************)
EXTENDS Naturals

CONSTANTS Ent,   \* application entities
          Attr,  \* application attributes; attributes are entities too
          Val,   \* values that are not references
          None   \* an absent attribute or value in a request

ASSUME NoneAssumption == None \notin Ent \cup Attr \cup Val

(* rx IS NULL: transaction ids start at 1, so 0 is free. *)
Null == 0

Flags == {"fgraph/many", "fgraph/unique", "fgraph/nohistory"}
SchemaAttr == Flags \cup {"fgraph/type"}
DefinitionAttr == {"fgraph/shape-required", "fgraph/shape-allowed", "fgraph/shape-closed"}
ShapeAttr == DefinitionAttr \cup {"fgraph/shape"}
AuditAttr == {"fgraph/excised", "fgraph/undoes"}

(* A reference is stored as the referenced entity. *)
Ref == Ent \cup Attr
Setting == {"true", "false"} \cup {"int", "ref"}
Value == Val \cup Ref \cup Setting

(* The tag of a stored value, as far as the declared types tell it apart. *)
TagOf(v) == IF v \in Ref THEN "ref" ELSE IF v \in Val THEN "int" ELSE "setting"

TagCompatible(typeName, v) == typeName = "unset" \/ TagOf(v) = typeName

Triple(f) == [e |-> f.e, a |-> f.a, v |-> f.v]

Before(f, g) == f.tx < g.tx \/ (f.tx = g.tx /\ f.ord < g.ord)

Live(rows) == {f \in rows : f.rx = Null}

(* The rows a view at transaction t shows. *)
AsOf(rows, t) == {f \in rows : f.tx <= t /\ (f.rx = Null \/ f.rx > t)}

(* Rows about application entities: not the audit facts on a transaction. *)
Domain(rows) == {f \in rows : f.a \notin AuditAttr}

Triples(rows) == {Triple(f) : f \in rows}

Mentions(k, x) == k.e = x \/ k.a = x \/ k.v = x

(* Whether a retraction request matches a planned assertion or a stored
   row: a whole-entity request also matches references to the entity. *)
Matches(req, f) ==
    IF req.a = None
    THEN f.e = req.e \/ f.v = req.e
    ELSE /\ f.e = req.e
         /\ f.a = req.a
         /\ req.v = None \/ f.v = req.v

(* The planned assertions no later retraction of the same plan cancels. *)
ActivePlanAssertions(plan) ==
    {i \in DOMAIN plan :
        /\ plan[i].op = "assert"
        /\ ~ \E j \in DOMAIN plan : /\ j > i
                                    /\ plan[j].op = "retract"
                                    /\ Matches(plan[j], plan[i])}

(* A stored row is taken as retracted when any request matches it. *)
RawRetracted(plan, f) ==
    \E j \in DOMAIN plan : plan[j].op = "retract" /\ Matches(plan[j], f)

(* The declaration with the highest id wins. *)
LastDeclared(rows) ==
    IF rows = {} THEN "unset"
    ELSE (CHOOSE f \in rows : \A g \in rows : ~Before(f, g)).v

Declarations(rows, attr, flag) ==
    {f \in Live(rows) : f.a = flag /\ f.e = attr}

(* The genesis transaction declares two system attributes many; nobody can
   write on system attributes afterwards. *)
SystemMany(attr, flag) ==
    flag = "fgraph/many" /\ attr \in {"fgraph/shape-required", "fgraph/shape-allowed"}

(* What the stored declarations alone say. *)
SchemaFor(rows, attr, flag) ==
    IF SystemMany(attr, flag) THEN "true" ELSE LastDeclared(Declarations(rows, attr, flag))

(* What they will say once the plan is applied: surviving rows first, then
   the plan's active assertions in order. *)
SchemaForPlan(rows, plan, attr, flag) ==
    LET planned == {i \in ActivePlanAssertions(plan) :
                        plan[i].e = attr /\ plan[i].a = flag}
    IN  IF SystemMany(attr, flag) THEN "true"
        ELSE IF planned # {}
        THEN plan[CHOOSE i \in planned : \A j \in planned : j <= i].v
        ELSE LastDeclared({f \in Declarations(rows, attr, flag) :
                               ~RawRetracted(plan, f)})
=============================================================================
