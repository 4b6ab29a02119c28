------------------------------- MODULE Handles -------------------------------
(***************************************************************************)
(* Several store handles (processes) on one database file, each with its   *)
(* mutex, its single connection and its cache of entity names, and the     *)
(* callers that write through them.                                        *)
(*                                                                         *)
(* A request writes one fact on the entity called name.  "transact" is     *)
(* Transact with an operation id and a basis guard; "apply" is a stream of *)
(* one portable event whose UUID is op.  What a transaction writes besides *)
(* identities and its event is the subject of Transactor.                  *)
(*                                                                         *)
(* SQLite is external: BEGIN IMMEDIATE is an exclusive lock, COMMIT is     *)
(* atomic, and PRAGMA data_version changes on a connection exactly when    *)
(* another connection commits a change.                                    *)
(***************************************************************************)
EXTENDS Naturals, Sequences

CONSTANTS Handle,       \* open stores; each has one mutex and one connection
          Caller,       \* goroutines that write
          HandleOf,     \* the handle each caller uses
          Name,         \* entity names
          Requests,     \* what callers ask for
          None,
          MaxEvents,    \* bound: events in the log
          CommitMayFail,\* the kinds of request whose COMMIT can fail
          MaxFailures   \* bound: failed commits, failed operations and crashes

Kind == {"transact", "apply"}
Request == [kind : Kind, name : Name, op : Nat, guarded : BOOLEAN]

ASSUME HandleOfAssumption == HandleOf \in [Caller -> Handle]
(* An operation id and an event UUID are different columns; an event always
   has a UUID and carries no basis guard. *)
ASSUME RequestsAssumption ==
    /\ Requests \subseteq Request
    /\ \A r, s \in Requests : r.op = s.op /\ r.op # 0 => r.kind = s.kind
    /\ \A r \in Requests : r.kind = "apply" => r.op # 0 /\ ~r.guarded
ASSUME BoundAssumption == MaxEvents \in Nat /\ MaxFailures \in Nat
ASSUME NoneIsFresh == None \notin Caller \cup Handle \cup Nat \cup Name
ASSUME CommitMayFailAssumption == CommitMayFail \subseteq Kind

VARIABLES
    ids,       \* fgraph_ids by name, 0 where there is no row
    next,      \* fgraph_meta next_id
    log,       \* fgraph_events
    lock,      \* the handle in BEGIN IMMEDIATE
    mutex,     \* store.mu: the caller that holds it
    status,    \* "closed", "init" or "open"
    names,     \* store.names of each handle, 0 where absent
    current,   \* store.dataVersion = PRAGMA data_version
    pc,        \* where each caller is
    req,       \* its request
    basis,     \* the basis it read before the call
    id,        \* the entity id its transaction resolved, 0 before
    fresh,     \* whether the transaction allocated that id
    reply,     \* what it was told last: [status, tx]
    failures   \* failures injected so far

file == <<ids, next, log>>
vars == <<ids, next, log, lock, mutex, status, names, current,
          pc, req, basis, id, fresh, reply, failures>>

GenesisTx == 64
FirstUserID == 65

NoNames == [n \in Name |-> 0]
NoReply == [status |-> "none", tx |-> 0]
GenesisEvent == [tx |-> GenesisTx, prior |-> 0, name |-> None, id |-> 0,
                 op |-> 0, guard |-> None]
NoRequest == [kind |-> "none", name |-> None, op |-> 0, guarded |-> FALSE]

Basis == IF log = <<>> THEN 0 ELSE log[Len(log)].tx

(* The index of the event recorded under an operation id. *)
Recorded(op) == {i \in DOMAIN log : op # 0 /\ log[i].op = op}

Init ==
    /\ ids = NoNames /\ next = 0 /\ log = <<>>
    /\ lock = None
    /\ mutex = [h \in Handle |-> None]
    /\ status = [h \in Handle |-> "closed"]
    /\ names = [h \in Handle |-> NoNames]
    /\ current = [h \in Handle |-> FALSE]
    /\ pc = [c \in Caller |-> "idle"]
    /\ req = [c \in Caller |-> NoRequest]
    /\ basis = [c \in Caller |-> None]
    /\ id = [c \in Caller |-> 0]
    /\ fresh = [c \in Caller |-> FALSE]
    /\ reply = [c \in Caller |-> NoReply]
    /\ failures = 0

-----------------------------------------------------------------------------
(* Opening the file. *)

callers == <<pc, req, basis, id, fresh, reply>>

(* refreshNames: a full reload unless data_version is the one last seen. *)
Refresh(h) ==
    /\ names' = [names EXCEPT ![h] = IF current[h] THEN names[h] ELSE ids]
    /\ current' = [current EXCEPT ![h] = TRUE]

(* checkOrInit reads the markers without a lock. *)
OpenExisting(h) ==
    /\ status[h] \in {"closed", "init"}
    /\ log # <<>>
    /\ status' = [status EXCEPT ![h] = "open"]
    /\ Refresh(h)
    /\ UNCHANGED <<file, lock, mutex, callers, failures>>

OpenPristine(h) ==
    /\ status[h] = "closed"
    /\ log = <<>>
    /\ status' = [status EXCEPT ![h] = "init"]
    /\ UNCHANGED <<file, lock, mutex, names, current, callers, failures>>

(* initializeTransaction, under the lock: only if the file is still empty. *)
Initialize(h) ==
    /\ status[h] = "init"
    /\ lock = None
    /\ log = <<>>
    /\ ids' = ids
    /\ next' = FirstUserID
    /\ log' = Append(log, GenesisEvent)
    /\ UNCHANGED <<lock, mutex, status, names, current, callers, failures>>

(* withRead: a read call holds the mutex from its snapshot to its answer, so
   all another caller can see of it is the refreshed cache. *)
Read(h) ==
    /\ status[h] = "open"
    /\ mutex[h] = None
    /\ Refresh(h)
    /\ UNCHANGED <<file, lock, mutex, status, callers, failures>>

-----------------------------------------------------------------------------
(* One write call, from the caller's request to the reply. *)

Goto(c, label) == pc' = [pc EXCEPT ![c] = label]

(* The call is over and its locals are gone. *)
Return(c) ==
    /\ Goto(c, "idle")
    /\ basis' = [basis EXCEPT ![c] = None]
    /\ id' = [id EXCEPT ![c] = 0]
    /\ fresh' = [fresh EXCEPT ![c] = FALSE]

(* A guarded caller pins the basis it sees when it calls. *)
Call(c, r) ==
    /\ pc[c] = "idle"
    /\ status[HandleOf[c]] = "open"
    /\ Goto(c, "lock")
    /\ req' = [req EXCEPT ![c] = r]
    /\ basis' = [basis EXCEPT ![c] = IF r.guarded THEN Basis ELSE None]
    /\ reply' = [reply EXCEPT ![c] = NoReply]
    /\ UNCHANGED <<file, lock, mutex, status, names, current, id, fresh, failures>>

Lock(c) ==
    /\ pc[c] = "lock"
    /\ mutex[HandleOf[c]] = None
    /\ mutex' = [mutex EXCEPT ![HandleOf[c]] = c]
    /\ Goto(c, "begin")
    /\ UNCHANGED <<file, lock, status, names, current, req, basis, id, fresh, reply, failures>>

BeginImmediate(c) ==
    /\ pc[c] = "begin"
    /\ lock = None
    /\ lock' = HandleOf[c]
    /\ Goto(c, "receipt")
    /\ UNCHANGED <<file, mutex, status, names, current, req, basis, id, fresh, reply, failures>>

Reply(c, s, tx) == reply' = [reply EXCEPT ![c] = [status |-> s, tx |-> tx]]
Unlock(c) == mutex' = [mutex EXCEPT ![HandleOf[c]] = None]

(* Faulty variants, one per way the code could get this wrong, stand before
   the definition they are a variant of; only the runs that show a property
   can fail use them. *)
Busy_KeepsMutex(c) ==
    /\ pc[c] = "begin"
    /\ lock # None
    /\ Reply(c, "error", 0)
    /\ mutex' = mutex
    /\ Return(c)
    /\ UNCHANGED <<file, lock, status, names, current, req, failures>>

(* busy_timeout ran out while another handle held the lock. *)
Busy(c) ==
    /\ pc[c] = "begin"
    /\ lock # None
    /\ Reply(c, "error", 0)
    /\ Unlock(c)
    /\ Return(c)
    /\ UNCHANGED <<file, lock, status, names, current, req, failures>>

(* ROLLBACK, and the cache is distrusted. *)
Rollback(c) ==
    /\ Reply(c, "error", 0)
    /\ Unlock(c)
    /\ Return(c)
    /\ lock' = None
    /\ UNCHANGED <<file, status, names, req>>

Distrust_Forgotten(h) == current' = current

Distrust(h) == current' = [current EXCEPT ![h] = FALSE]

AlreadyApplied_AnyRequest(c) ==
    \E i \in Recorded(req[c].op) :
        /\ pc[c] = "receipt"
        /\ Reply(c, "already_applied", log[i].tx)
        /\ Unlock(c)
        /\ Return(c)
        /\ lock' = None
        /\ current' = [current EXCEPT ![HandleOf[c]] = @ /\ req[c].kind = "transact"]
        /\ UNCHANGED <<file, status, names, req, failures>>

(* The receipt of an earlier commit answers a retry before the basis guard
   is looked at; the open transaction is committed empty. *)
AlreadyApplied(c) ==
    \E i \in Recorded(req[c].op) :
        /\ pc[c] = "receipt"
        /\ log[i].name = req[c].name
        /\ Reply(c, "already_applied", log[i].tx)
        /\ Unlock(c)
        /\ Return(c)
        /\ lock' = None
        /\ current' = [current EXCEPT ![HandleOf[c]] = @ /\ req[c].kind = "transact"]
        /\ UNCHANGED <<file, status, names, req, failures>>

OperationReused(c) ==
    /\ pc[c] = "receipt"
    /\ \E i \in Recorded(req[c].op) : log[i].name # req[c].name
    /\ Rollback(c)
    /\ Distrust(HandleOf[c])
    /\ UNCHANGED failures

BasisConflict(c) ==
    /\ pc[c] = "receipt"
    /\ Recorded(req[c].op) = {}
    /\ basis[c] \notin {None, Basis}
    /\ Rollback(c)
    /\ Distrust(HandleOf[c])
    /\ UNCHANGED failures

CheckRequest_NoReceipt(c) ==
    /\ pc[c] = "receipt"
    /\ basis[c] \in {None, Basis}
    /\ Refresh(HandleOf[c])
    /\ Goto(c, "plan")
    /\ UNCHANGED <<file, lock, mutex, status, req, basis, id, fresh, reply, failures>>

CheckRequest(c) ==
    /\ pc[c] = "receipt"
    /\ Recorded(req[c].op) = {}
    /\ basis[c] \in {None, Basis}
    /\ Refresh(HandleOf[c])
    /\ Goto(c, "plan")
    /\ UNCHANGED <<file, lock, mutex, status, req, basis, id, fresh, reply, failures>>

(* allocator.name: the cache, then the table, then a new id. *)
Known(h, n) == IF names[h][n] # 0 THEN names[h][n] ELSE ids[n]

Plan(c) ==
    LET known == Known(HandleOf[c], req[c].name)
    IN  /\ pc[c] = "plan"
        /\ id' = [id EXCEPT ![c] = IF known # 0 THEN known ELSE next]
        /\ fresh' = [fresh EXCEPT ![c] = known = 0]
        /\ Goto(c, "finalize")
        /\ UNCHANGED <<file, lock, mutex, status, names, current, req, basis, reply, failures>>

(* allocator.finalize writes new names into the cache before COMMIT. *)
Finalize(c) ==
    /\ pc[c] = "finalize"
    /\ names' = IF fresh[c]
                THEN [names EXCEPT ![HandleOf[c]][req[c].name] = id[c]]
                ELSE names
    /\ Goto(c, "commit")
    /\ UNCHANGED <<file, lock, mutex, status, current, req, basis, id, fresh, reply, failures>>

TxOf_BeforeNames(c) == next

(* The transaction's own id is allocated last. *)
TxOf(c) == IF fresh[c] THEN next + 1 ELSE next

Commit(c) ==
    LET h == HandleOf[c]
        tx == TxOf(c)
    IN  /\ pc[c] = "commit"
        /\ Len(log) < MaxEvents
        /\ ids' = IF fresh[c] THEN [ids EXCEPT ![req[c].name] = id[c]] ELSE ids
        /\ next' = tx + 1
        /\ log' = Append(log, [tx |-> tx, prior |-> Basis, name |-> req[c].name,
                               id |-> id[c], op |-> req[c].op, guard |-> basis[c]])
        /\ current' = [g \in Handle |-> g = h /\ current[h] /\ req[c].kind = "transact"]
        /\ lock' = None
        /\ Unlock(c)
        /\ Reply(c, "applied", tx)
        /\ Return(c)
        /\ UNCHANGED <<status, names, req, failures>>

(* COMMIT fails: Transact distrusts the cache, atomicPortableWrite (apply)
   returns without doing so. *)
CommitFails(c) ==
    /\ pc[c] = "commit"
    /\ req[c].kind \in CommitMayFail
    /\ failures < MaxFailures
    /\ failures' = failures + 1
    /\ Rollback(c)
    /\ IF req[c].kind = "transact" THEN Distrust(HandleOf[c]) ELSE UNCHANGED current

(* Any error between planning and COMMIT, or no room left in the log. *)
OperationFails(c) ==
    /\ pc[c] \in {"receipt", "plan", "finalize", "commit"}
    /\ \/ failures < MaxFailures /\ failures' = failures + 1
       \/ Len(log) = MaxEvents /\ UNCHANGED failures
    /\ Rollback(c)
    /\ Distrust(HandleOf[c])

(* The process dies: its callers learn nothing, SQLite rolls back, and a new
   process has to open the file again. *)
Crash(h) ==
    LET dead == {c \in Caller : HandleOf[c] = h}
    IN  /\ status[h] # "closed"
        /\ failures < MaxFailures
        /\ failures' = failures + 1
        /\ status' = [status EXCEPT ![h] = "closed"]
        /\ mutex' = [mutex EXCEPT ![h] = None]
        /\ lock' = IF lock = h THEN None ELSE lock
        /\ names' = [names EXCEPT ![h] = NoNames]
        /\ current' = [current EXCEPT ![h] = FALSE]
        /\ pc' = [c \in Caller |-> IF c \in dead THEN "idle" ELSE pc[c]]
        /\ reply' = [c \in Caller |-> IF c \in dead THEN NoReply ELSE reply[c]]
        /\ basis' = [c \in Caller |-> IF c \in dead THEN None ELSE basis[c]]
        /\ id' = [c \in Caller |-> IF c \in dead THEN 0 ELSE id[c]]
        /\ fresh' = [c \in Caller |-> c \notin dead /\ fresh[c]]
        /\ UNCHANGED <<file, req>>

Step(c) ==
    \/ BeginImmediate(c) \/ Busy(c)
    \/ AlreadyApplied(c) \/ OperationReused(c) \/ BasisConflict(c) \/ CheckRequest(c)
    \/ Plan(c) \/ Finalize(c) \/ Commit(c) \/ CommitFails(c) \/ OperationFails(c)

Next ==
    \/ \E h \in Handle : OpenExisting(h) \/ OpenPristine(h) \/ Initialize(h) \/ Read(h) \/ Crash(h)
    \/ \E c \in Caller : Lock(c) \/ Step(c) \/ \E r \in Requests : Call(c, r)

(* A running goroutine keeps running, and Go's mutex hands over to a waiter
   that keeps losing (starvation mode). *)
Fairness == \A c \in Caller : WF_vars(Step(c)) /\ SF_vars(Lock(c))

Spec == Init /\ [][Next]_vars
FairSpec == Spec /\ Fairness

-----------------------------------------------------------------------------
(* Properties. *)

EventSet == [tx : Nat, prior : Nat, name : Name \cup {None}, id : Nat, op : Nat,
             guard : Nat \cup {None}]
Label == {"idle", "lock", "begin", "receipt", "plan", "finalize", "commit"}

TypeOK ==
    /\ ids \in [Name -> Nat] /\ next \in Nat /\ log \in Seq(EventSet)
    /\ lock \in Handle \cup {None}
    /\ mutex \in [Handle -> Caller \cup {None}]
    /\ status \in [Handle -> {"closed", "init", "open"}]
    /\ names \in [Handle -> [Name -> Nat]]
    /\ current \in [Handle -> BOOLEAN]
    /\ pc \in [Caller -> Label]
    /\ req \in [Caller -> Requests \cup {NoRequest}]
    /\ \A c \in Caller : pc[c] # "idle" => req[c] \in Requests
    /\ basis \in [Caller -> Nat \cup {None}]
    /\ id \in [Caller -> Nat] /\ fresh \in [Caller -> BOOLEAN]
    /\ reply \in [Caller -> [status : {"none", "error", "applied", "already_applied"},
                             tx : Nat]]
    /\ failures \in 0..MaxFailures

(* Where a caller holds its handle's mutex, and where it is inside the
   writer transaction. *)
Holding == {"begin", "receipt", "plan", "finalize", "commit"}
Writing == {"receipt", "plan", "finalize", "commit"}

(* From BEGIN IMMEDIATE to COMMIT or ROLLBACK a caller has the writer lock
   and its handle's mutex to itself: the receipt, the basis and the names it
   read are still true when it commits. *)
ExclusiveWriter ==
    \A c \in Caller :
        /\ pc[c] \in Holding => mutex[HandleOf[c]] = c
        /\ pc[c] \in Writing => lock = HandleOf[c]

(* Handles that race to open an empty file initialize it once. *)
OneGenesis == \A i \in DOMAIN log : log[i].tx = GenesisTx <=> i = 1

(* A retried operation id is never applied twice, whichever handle or caller
   retries it and whatever crashed in between. *)
OperationOnce ==
    \A i, j \in DOMAIN log : log[i].op = log[j].op /\ log[i].op # 0 => i = j

(* A caller that was told its request is applied finds that request, and no
   other, under the transaction it was told. *)
ReplyDurable ==
    \A c \in Caller : reply[c].status \in {"applied", "already_applied"} =>
        \E i \in DOMAIN log : /\ log[i].tx = reply[c].tx
                              /\ log[i].name = req[c].name /\ log[i].op = req[c].op

(* Identity numbers are shared by entities and transactions and never given
   out twice. *)
IdsDistinct ==
    /\ \A m, n \in Name : ids[m] = ids[n] /\ ids[m] # 0 => m = n
    /\ \A i \in DOMAIN log, n \in Name : log[i].tx # ids[n]
    /\ \A i, j \in DOMAIN log : i < j => log[i].tx < log[j].tx

(* The entity a committed transaction wrote on is the one its name stands
   for in the identity table. *)
FactsNameRightEntity ==
    \A i \in DOMAIN log : log[i].name # None => log[i].id = ids[log[i].name]

(* A cache that will be trusted without a reload equals the committed
   identity table, except inside the transaction that is extending it. *)
CacheCoherent ==
    \A h \in Handle :
        /\ current[h]
        /\ \A c \in Caller : HandleOf[c] = h => pc[c] # "commit"
        => names[h] = ids

(* A guarded request commits directly on top of the basis it was given. *)
BasisGuarded == \A i \in DOMAIN log : log[i].guard \in {None, log[i].prior}

(* A name keeps its id for ever and the allocator never goes back. *)
IdentityStable ==
    [][next' >= next /\ \A n \in Name : ids[n] # 0 => ids'[n] = ids[n]]_vars

(* Every call returns: no caller waits for ever on the mutex, on the writer
   lock or inside its transaction. *)
CallReturns == \A c \in Caller : pc[c] # "idle" ~> pc[c] = "idle"

-----------------------------------------------------------------------------
(* The ledger that the file, its caches and its locks implement. *)

(* Which entry of a log a transaction number stands for, and which name an
   identity stands for. *)
Position(events, tx) == CHOOSE i \in DOMAIN events : events[i].tx = tx
NameOf(table, e) == IF e # 0 /\ \E n \in Name : table[n] = e
                    THEN CHOOSE n \in Name : table[n] = e ELSE None
Entries(events, table) ==
    [i \in DOMAIN events |-> [name |-> NameOf(table, events[i].id), op |-> events[i].op]]

Waiting == [c \in Caller |-> pc[c] # "idle"]
Guards == [c \in Caller |-> IF basis[c] = None THEN None ELSE Position(log, basis[c])]
Answers == [c \in Caller |->
              [status |-> reply[c].status,
               at |-> IF reply[c].status \in {"applied", "already_applied"}
                      THEN Position(log, reply[c].tx) ELSE 0]]

Promise == INSTANCE Ledger WITH ledger <- Entries(log, ids), asked <- req, waiting <- Waiting,
                                guard <- Guards, answer <- Answers

(* All handles together implement the ledger: a request takes effect at its
   COMMIT and at no other step, on the entity it names, once per operation
   id, on the position it was guarded with, and every answer points at the
   entry it is about. *)
ImplementsLedger == Promise!Spec
=============================================================================
