--------------------------- MODULE MCReplication ---------------------------
(* Instances of Replication. *)
EXTENDS Replication, TLC

CONSTANTS p1, p2, p3, e1, e2, a, v1, v2

F(e, v) == [e |-> e, a |-> a, v |-> v]

Req(retract, assert) == [retract |-> retract, assert |-> assert]

(* Three peers and two entities: creation of one or of both, and removal of
   both at once. *)
MergeLoad ==
    [peers |-> {p1, p2, p3},
     requests |-> {Req(<<>>, <<F(e1, v1)>>), Req(<<>>, <<F(e2, v1)>>),
                   Req(<<>>, <<F(e1, v1), F(e2, v1)>>), Req(<<>>, <<F(e1, v2)>>),
                   Req(<<F(e1, v1), F(e2, v1)>>, <<>>)},
     maxEvents |-> 3, maxExcisions |-> 0]

(* Two peers and one cell that is written, emptied, written again and excised. *)
CellLoad ==
    [peers |-> {p1, p2},
     requests |-> {Req(<<>>, <<F(e1, v1)>>), Req(<<F(e1, v1)>>, <<>>), Req(<<>>, <<F(e1, v2)>>)},
     maxEvents |-> 5, maxExcisions |-> 1]

PeerLoads == { MergeLoad, CellLoad }

(* p3 is set apart by CellLoad. *)
PeerSymmetry == Permutations({p1, p2})
=============================================================================
