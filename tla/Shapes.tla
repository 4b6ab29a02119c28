------------------------------- MODULE Shapes -------------------------------
(***************************************************************************)
(* Shapes and schema manifests, as the rows define them.  A shape is an    *)
(* entity with definition facts; an entity opts in with a fgraph/shape     *)
(* reference.  A manifest is the complete application schema: what every   *)
(* attribute declares and every shape's definition.                        *)
(***************************************************************************)
EXTENDS FactRows, Sequences

NoShape == [required |-> {}, allowed |-> {}, closed |-> "unset"]
ShapeSet == [required : SUBSET Attr, allowed : SUBSET Attr, closed : {"true", "false"}]
                \cup {NoShape}
Manifest == [declared : [Attr -> [SchemaAttr -> Setting \cup {"unset"}]],
             shapes : [Ent -> ShapeSet]]

Cell(rows, e, a) == {f \in Live(rows) : f.e = e /\ f.a = a}

(* The definition of shape s; NoShape where no definition fact is live. *)
ReadShape(rows, s) ==
    LET refs(a) == {f.v : f \in Cell(rows, s, a)}
        closed == LastDeclared(Cell(rows, s, "fgraph/shape-closed"))
        required == refs("fgraph/shape-required")
        allowed == refs("fgraph/shape-allowed")
    IN  IF required \cup allowed # {} /\ closed = "unset"
        THEN [required |-> required, allowed |-> allowed, closed |-> "false"]
        ELSE [required |-> required, allowed |-> allowed, closed |-> closed]

(* A closed shape allows what it requires. *)
Normalized(shape) ==
    IF shape.closed = "true" THEN [shape EXCEPT !.allowed = @ \cup shape.required]
    ELSE shape

-----------------------------------------------------------------------------
(* Validation: the memberships of the targets (of every entity, if there are
   none) that break their shape. *)
Present(rows, e) == {f.a : f \in {f \in Live(rows) : f.e = e}}

Violates(rows, e, s) ==
    LET shape == ReadShape(rows, s)
    IN  \/ ~(shape.required \subseteq Present(rows, e))
        \/ /\ shape.closed = "true"
           /\ ~(shape.required \cup (Present(rows, e) \cap Attr) \subseteq shape.allowed)

Memberships(rows) == {f \in Live(rows) : f.a = "fgraph/shape"}

ShapeIssues(rows, targets) ==
    {f \in Memberships(rows) :
        (targets = {} \/ f.e \in targets) /\ Violates(rows, f.e, f.v)}

(* The entities a plan names; of a shape it defines, the members too. *)
Touched_NotTheMembers(plan, rows) == {plan[i].e : i \in DOMAIN plan}

Touched(plan, rows) ==
    LET changed == {plan[i].e : i \in {i \in DOMAIN plan :
                        \/ plan[i].a \in DefinitionAttr
                        \/ plan[i].op = "retract" /\ plan[i].a = None}}
    IN  {plan[i].e : i \in DOMAIN plan}
        \cup {f.e : f \in {f \in Memberships(rows) : f.v \in changed}}

-----------------------------------------------------------------------------
(* Manifests: reading one, and the operations that install one.  These come in
   groups, a sequence of sets: the operations of a group commute, and their
   order is that of the caller's map. *)
ManifestOf(rows) ==
    [declared |-> [a \in Attr |-> [flag \in SchemaAttr |-> SchemaFor(rows, a, flag)]],
     shapes |-> [s \in Ent |-> Normalized(ReadShape(rows, s))]]

(* An operation of a plan. *)
Op(op, e, a, v) == [op |-> op, e |-> e, a |-> a, v |-> v, cas |-> FALSE]

RetractCells(e, attrs) == {Op("retract", e, a, None) : a \in attrs}

DefineShape(s, shape) ==
    IF shape = NoShape THEN {}
    ELSE {Op("assert", s, "fgraph/shape-closed", shape.closed)}
         \cup {Op("assert", s, "fgraph/shape-required", a) : a \in shape.required}
         \cup {Op("assert", s, "fgraph/shape-allowed", a) : a \in shape.allowed}

(* DeclareShape: the definition is retracted and asserted anew. *)
ShapeOperations(s, shape) ==
    << RetractCells(s, DefinitionAttr), DefineShape(s, Normalized(shape)) >>

Declares(declared) == \E flag \in SchemaAttr : declared[flag] # "unset"

(* Retract every declaration and definition of these attributes and shapes,
   then assert what the manifest says of them. *)
Install(attrs, shapes, manifest) ==
    LET declare(a) == {Op("assert", a, flag, manifest.declared[a][flag]) :
                          flag \in {flag \in SchemaAttr : manifest.declared[a][flag] # "unset"}}
    IN  << UNION {RetractCells(a, SchemaAttr) : a \in attrs},
           UNION {declare(a) : a \in attrs},
           UNION {RetractCells(s, DefinitionAttr) : s \in shapes},
           UNION {DefineShape(s, manifest.shapes[s]) : s \in shapes} >>

SchemaReplacement_DesiredOnly(current, desired) ==
    Install({a \in Attr : Declares(desired.declared[a])},
            {s \in Ent : desired.shapes[s] # NoShape}, desired)

(* A full replacement covers what either manifest names. *)
SchemaReplacementOperations(current, desired) ==
    Install({a \in Attr : Declares(current.declared[a]) \/ Declares(desired.declared[a])},
            {s \in Ent : current.shapes[s] # NoShape \/ desired.shapes[s] # NoShape}, desired)

NormalizeSchemaManifest(manifest) ==
    [manifest EXCEPT !.shapes = [s \in Ent |-> Normalized(manifest.shapes[s])]]
=============================================================================
