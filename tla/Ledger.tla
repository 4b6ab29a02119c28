------------------------------- MODULE Ledger -------------------------------
(***************************************************************************)
(* What a database file promises its writers, whatever processes, caches,  *)
(* locks and crashes are behind it: a ledger in which a request takes      *)
(* effect at one instant between the call and the answer, or never.        *)
(*                                                                         *)
(* Identities and transaction numbers are gone: an entry says what it is   *)
(* about, and an answer or a guard is a position in the ledger.            *)
(***************************************************************************)
EXTENDS Naturals, Sequences

CONSTANTS Caller, Requests, NoRequest, None

VARIABLES
    ledger,    \* what has taken effect, oldest first
    asked,     \* the last request of each caller
    waiting,   \* whether it is still waiting for an answer
    guard,     \* the position its request insists on, None if any will do
    answer     \* the last answer it got

vars == <<ledger, asked, waiting, guard, answer>>

Silence == [status |-> "none", at |-> 0]
Foundation == [name |-> None, op |-> 0]

Init ==
    /\ ledger = <<>>
    /\ asked = [c \in Caller |-> NoRequest]
    /\ waiting = [c \in Caller |-> FALSE]
    /\ guard = [c \in Caller |-> None]
    /\ answer = [c \in Caller |-> Silence]

(* The first process to come lays the foundation, once. *)
Found ==
    /\ ledger = <<>>
    /\ ledger' = <<Foundation>>
    /\ UNCHANGED <<asked, waiting, guard, answer>>

Ask(c, r) ==
    /\ ~waiting[c]
    /\ ledger # <<>>
    /\ asked' = [asked EXCEPT ![c] = r]
    /\ waiting' = [waiting EXCEPT ![c] = TRUE]
    /\ guard' = [guard EXCEPT ![c] = IF r.guarded THEN Len(ledger) ELSE None]
    /\ answer' = [answer EXCEPT ![c] = Silence]
    /\ UNCHANGED ledger

Answer(c, s, i) ==
    /\ waiting[c]
    /\ waiting' = [waiting EXCEPT ![c] = FALSE]
    /\ guard' = [guard EXCEPT ![c] = None]
    /\ answer' = [answer EXCEPT ![c] = [status |-> s, at |-> i]]
    /\ UNCHANGED asked

(* A request takes effect once, on top of the position it insists on. *)
Apply(c) ==
    /\ Answer(c, "applied", Len(ledger) + 1)
    /\ asked[c].op # 0 => \A i \in DOMAIN ledger : ledger[i].op # asked[c].op
    /\ guard[c] \in {None, Len(ledger)}
    /\ ledger' = Append(ledger, [name |-> asked[c].name, op |-> asked[c].op])

(* A repeated request is told where it took effect. *)
Repeat(c) ==
    /\ waiting[c] /\ asked[c].op # 0
    /\ \E i \in DOMAIN ledger :
         /\ ledger[i] = [name |-> asked[c].name, op |-> asked[c].op]
         /\ Answer(c, "already_applied", i)
    /\ UNCHANGED ledger

(* Any request may be refused, and then has not taken effect. *)
Refuse(c) == Answer(c, "error", 0) /\ UNCHANGED ledger

(* Callers that die with their process get no answer; a request of theirs
   has not taken effect and never will. *)
Lose(dead) ==
    /\ waiting' = [c \in Caller |-> waiting[c] /\ c \notin dead]
    /\ guard' = [c \in Caller |-> IF c \in dead THEN None ELSE guard[c]]
    /\ answer' = [c \in Caller |-> IF c \in dead THEN Silence ELSE answer[c]]
    /\ UNCHANGED <<ledger, asked>>

Next ==
    \/ Found
    \/ \E c \in Caller : Apply(c) \/ Repeat(c) \/ Refuse(c) \/ \E r \in Requests : Ask(c, r)
    \/ \E dead \in SUBSET Caller : Lose(dead)

Spec == Init /\ [][Next]_vars
=============================================================================
