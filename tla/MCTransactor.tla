--------------------------- MODULE MCTransactor ---------------------------
(* Small instances of the transactor: what the seed declared and what the
   callers ask for, one workload per question. *)
EXTENDS Transactor, TLC

CONSTANTS e1, e2, k, u, v1, v2

Fact(e, a, v) == [e |-> e, a |-> a, v |-> v]
Add(e, a, v) == [op |-> "assert", e |-> e, a |-> a, v |-> v, new |-> None]
Retract(e, a, v) == [op |-> "retract", e |-> e, a |-> a, v |-> v, new |-> None]
Cas(e, a, v, w) == [op |-> "cas", e |-> e, a |-> a, v |-> v, new |-> w]
Patch(flags) == flags @@ [flag \in SchemaAttr |-> "unset"]

(* u is a unique, typed, cardinality-one attribute; k is undeclared. Asserts,
   swaps and a whole-entity retraction meet on the same cells. *)
UniqueLoad(maxTx) ==
    [seed |-> << Fact(u, "fgraph/type", "int"), Fact(u, "fgraph/unique", "true"),
                 Fact(e1, u, v1), Fact(e2, k, e1) >>,
     ops |-> { Add(e1, u, v1), Add(e1, u, v2), Add(e2, u, v1),
               Add(e2, k, e1), Retract(e1, u, v1), Retract(e1, None, None),
               Cas(e1, u, v1, v2), Cas(e2, k, e1, v2), Cas(e2, k, e1, None) },
     calls |-> {}, audits |-> FALSE, maxOps |-> 3, maxTx |-> maxTx]

(* k is declared many and holds two values. *)
SchemaLoad ==
    [seed |-> << Fact(k, "fgraph/many", "true"), Fact(e1, k, v1), Fact(e1, k, v2) >>,
     ops |-> { Add(k, "fgraph/many", "false"), Add(k, "fgraph/many", "true"),
               Retract(k, "fgraph/many", None), Retract(e1, k, None),
               Add(k, "fgraph/nohistory", "true"), Retract(k, None, None),
               Add(e1, k, v1), Add(e1, k, v2), Retract(e1, k, v1) },
     calls |-> { [kind |-> "declare", attr |-> k, patch |-> Patch("fgraph/many" :> "false")],
                 [kind |-> "declare", attr |-> k, patch |-> Patch("fgraph/type" :> "int" @@
                                                                  "fgraph/unique" :> "true")] },
     audits |-> TRUE, maxOps |-> 2, maxTx |-> 4]

(* e2 is a closed shape that requires u, e1 a member that also has k. *)
ShapeLoad(maxTx) ==
    [seed |-> << Fact(e2, "fgraph/shape-required", u), Fact(e2, "fgraph/shape-allowed", u),
                 Fact(e2, "fgraph/shape-allowed", k), Fact(e2, "fgraph/shape-closed", "true"),
                 Fact(e1, u, v1), Fact(e1, k, e2), Fact(e1, "fgraph/shape", e2) >>,
     ops |-> { Retract(e1, u, None), Retract(e1, k, None), Add(e1, u, v2),
               Add(e1, "fgraph/shape", e2), Retract(e1, "fgraph/shape", None),
               Retract(e2, "fgraph/shape-allowed", k), Add(e2, k, v1),
               Retract(u, None, None), Retract(e2, None, None) },
     calls |-> { [kind |-> "shape", shape |-> e2,
                  definition |-> [required |-> {u, k}, allowed |-> {}, closed |-> "true"]],
                 [kind |-> "shape", shape |-> e2,
                  definition |-> [required |-> {k}, allowed |-> {}, closed |-> "false"]],
                 [kind |-> "manifest", manifest |->
                    [declared |-> [a \in Attr |-> Patch(IF a = u THEN "fgraph/type" :> "int"
                                                        ELSE <<>>)],
                     shapes |-> [s \in Ent |-> NoShape]]],
                 [kind |-> "manifest", manifest |->
                    [declared |-> [a \in Attr |-> Patch(IF a = k THEN "fgraph/many" :> "true"
                                                        ELSE <<>>)],
                     shapes |-> [s \in Ent |-> IF s = e1 THEN NoShape
                         ELSE [required |-> {u}, allowed |-> {}, closed |-> "true"]]]] },
     audits |-> FALSE, maxOps |-> 2, maxTx |-> maxTx]

(* Plain history: one attribute, two entities that refer to one another. *)
HistoryLoad ==
    [seed |-> << Fact(e1, k, v1), Fact(e2, k, e1) >>,
     ops |-> { Add(e1, k, v1), Add(e1, k, v2), Add(e2, k, v1),
               Add(e2, k, e1), Retract(e1, None, None), Retract(e2, k, None) },
     calls |-> {}, audits |-> TRUE, maxOps |-> 2, maxTx |-> 5]

(* k turns from many to one and back while its values come and go, with undos:
   cells may keep several values of an attribute that is no longer many. *)
UndoLoad ==
    [seed |-> << Fact(k, "fgraph/many", "true"), Fact(e1, k, v1), Fact(e1, k, v2) >>,
     ops |-> { Add(k, "fgraph/many", "false"), Retract(k, "fgraph/many", None),
               Add(e1, k, v1), Retract(e1, k, v1) },
     calls |-> {}, audits |-> TRUE, maxOps |-> 2, maxTx |-> 5]

(* e2 is a shape that requires k, and the k of its member e1 refers to an entity
   that may go. *)
ReferenceLoad ==
    [seed |-> << Fact(e2, "fgraph/shape-required", k), Fact(e1, "fgraph/shape", e2),
                 Fact(e1, k, u) >>,
     ops |-> { Add(e1, k, v1), Retract(e1, k, None), Retract(u, None, None) },
     calls |-> {}, audits |-> FALSE, maxOps |-> 2, maxTx |-> 3]

(* u is unique, and its one value goes to another entity and back in one
   request. *)
HandOverLoad ==
    [seed |-> << Fact(u, "fgraph/type", "int"), Fact(u, "fgraph/unique", "true"), Fact(e1, u, v1) >>,
     ops |-> { Retract(e1, u, v1), Add(e2, u, v1), Add(e1, u, v1), Add(e2, u, v2) },
     calls |-> {}, audits |-> FALSE, maxOps |-> 3, maxTx |-> 3]

(* k keeps no history; its value is replaced and retracted. *)
NoHistoryLoad ==
    [seed |-> << Fact(k, "fgraph/nohistory", "true"), Fact(e1, k, v1) >>,
     ops |-> { Add(e1, k, v2), Retract(e1, k, None) },
     calls |-> {}, audits |-> FALSE, maxOps |-> 1, maxTx |-> 4]

(* A swap to a reference, and a retraction of what it refers to. *)
SwapLoad ==
    [seed |-> << Fact(e1, k, v1), Fact(e2, u, v1) >>,
     ops |-> { Cas(e1, k, v1, e2), Cas(e1, k, v1, v2), Retract(e2, None, None) },
     calls |-> {}, audits |-> FALSE, maxOps |-> 3, maxTx |-> 3]

WriteLoads == { UniqueLoad(4), SchemaLoad, ShapeLoad(4), HistoryLoad, UndoLoad }
ReferenceLoads == { ReferenceLoad }
HandOverLoads == { HandOverLoad }
NoHistoryLoads == { NoHistoryLoad }
SwapLoads == { SwapLoad }
=============================================================================
