----------------------------- MODULE MCHandles -----------------------------
(* Two processes on one file; the first has two writing goroutines. *)
EXTENDS Handles, TLC

CONSTANTS h1, h2, c1, c2, c3, a, b

MCHandleOf == [c \in Caller |-> IF c = c3 THEN h2 ELSE h1]

Tx(name, op, guarded) == [kind |-> "transact", name |-> name, op |-> op, guarded |-> guarded]
Ev(name, op) == [kind |-> "apply", name |-> name, op |-> op, guarded |-> FALSE]

(* A guarded write, its operation id reused for another entity, and an
   imported event. *)
MixedRequests == { Tx(a, 1, TRUE), Tx(b, 1, FALSE), Ev(b, 2) }
OneRequest == { Tx(a, 1, TRUE) }
(* The two goroutines of one process are interchangeable. *)
Goroutines == Permutations({c1, c2})

ImportRequests == { Tx(a, 0, FALSE), Ev(a, 2) }
=============================================================================
