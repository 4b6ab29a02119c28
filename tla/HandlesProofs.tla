--------------------------- MODULE HandlesProofs ---------------------------
(***************************************************************************)
(* What Handles promises for any number of handles, callers, names,        *)
(* requests, events and failures.                                          *)
(***************************************************************************)
EXTENDS Handles, SequenceTheorems, TLAPS

-----------------------------------------------------------------------------
(* Types. *)

LEMMA RequestFields ==
    ASSUME TypeOK, NEW c \in Caller
    PROVE  /\ req[c].name \in Name \cup {None}
           /\ req[c].op \in Nat
BY RequestsAssumption DEF TypeOK, Request, NoRequest

LEMMA RunningRequest ==
    ASSUME TypeOK, NEW c \in Caller, pc[c] # "idle"
    PROVE  req[c] \in Requests /\ req[c].name \in Name /\ req[c].kind \in Kind
BY RequestsAssumption DEF TypeOK, Request

LEMMA BasisType == TypeOK => Basis \in Nat
<1> SUFFICES ASSUME TypeOK PROVE Basis \in Nat
    OBVIOUS
<1>1. CASE log = <<>>
    BY <1>1 DEF Basis
<1>2. CASE log # <<>>
    <2>1. Len(log) \in 1..Len(log) /\ log \in Seq(EventSet)
        BY <1>2, EmptySeq DEF TypeOK
    <2>2. log[Len(log)] \in EventSet
        BY <2>1, ElementOfSeq
    <2> QED
        BY <1>2, <2>2 DEF Basis, EventSet
<1> QED
    BY <1>1, <1>2

LEMMA RecordedType ==
    ASSUME TypeOK, NEW c \in Caller, NEW i \in Recorded(req[c].op)
    PROVE  i \in 1..Len(log) /\ log[i] \in EventSet /\ log[i].tx \in Nat
<1>1. i \in 1..Len(log)
    BY LenProperties DEF TypeOK, Recorded
<1>2. log[i] \in EventSet
    BY <1>1, ElementOfSeq DEF TypeOK
<1> QED
    BY <1>1, <1>2 DEF EventSet

LEMMA TypeInit == Init => TypeOK
BY BoundAssumption, EmptySeq DEF Init, TypeOK, NoNames, NoReply, Label

LEMMA TypeNext == TypeOK /\ [Next]_vars => TypeOK'
<1> SUFFICES ASSUME TypeOK, [Next]_vars PROVE TypeOK'
    OBVIOUS
<1> USE HandleOfAssumption, BoundAssumption
<1>1. ASSUME NEW h \in Handle, OpenExisting(h) PROVE TypeOK'
    BY <1>1 DEF TypeOK, OpenExisting, Refresh, file, callers
<1>2. ASSUME NEW h \in Handle, OpenPristine(h) PROVE TypeOK'
    BY <1>2 DEF TypeOK, OpenPristine, file, callers
<1>3. ASSUME NEW h \in Handle, Initialize(h) PROVE TypeOK'
    <2>1. GenesisEvent \in EventSet
        BY DEF GenesisEvent, EventSet, GenesisTx
    <2>2. log' \in Seq(EventSet)
        BY <1>3, <2>1, AppendProperties DEF TypeOK, Initialize
    <2> QED
        BY <1>3, <2>2 DEF TypeOK, Initialize, FirstUserID, callers
<1>4. ASSUME NEW h \in Handle, Read(h) PROVE TypeOK'
    BY <1>4 DEF TypeOK, Read, Refresh, file, callers
<1>5. ASSUME NEW h \in Handle, Crash(h) PROVE TypeOK'
    BY <1>5 DEF TypeOK, Crash, NoNames, NoReply, Label, file
<1>6. ASSUME NEW c \in Caller, Lock(c) PROVE TypeOK'
    BY <1>6 DEF TypeOK, Lock, Goto, Label, file
<1>7. ASSUME NEW c \in Caller, NEW r \in Requests, Call(c, r) PROVE TypeOK'
    BY <1>7, BasisType DEF TypeOK, Call, Goto, Label, NoReply, file
<1>8. ASSUME NEW c \in Caller, BeginImmediate(c) PROVE TypeOK'
    BY <1>8 DEF TypeOK, BeginImmediate, Goto, Label, file
<1>9. ASSUME NEW c \in Caller, Busy(c) PROVE TypeOK'
    BY <1>9 DEF TypeOK, Busy, Reply, Unlock, Return, Goto, Label, file
<1>10. ASSUME NEW c \in Caller, AlreadyApplied(c) PROVE TypeOK'
    BY <1>10, RecordedType
       DEF TypeOK, AlreadyApplied, Reply, Unlock, Return, Goto, Label, file
<1>11. ASSUME NEW c \in Caller, Rollback(c), failures' \in 0..MaxFailures,
              current' \in [Handle -> BOOLEAN]
       PROVE TypeOK'
    BY <1>11 DEF TypeOK, Rollback, Reply, Unlock, Return, Goto, Label, file
<1>12. ASSUME NEW c \in Caller, NEW h \in Handle, Distrust(h)
       PROVE current' \in [Handle -> BOOLEAN]
    BY <1>12 DEF TypeOK, Distrust
<1>13. ASSUME NEW c \in Caller, OperationReused(c) \/ BasisConflict(c) PROVE TypeOK'
    BY <1>13, <1>11, <1>12 DEF TypeOK, OperationReused, BasisConflict
<1>14. ASSUME NEW c \in Caller, CheckRequest(c) PROVE TypeOK'
    BY <1>14 DEF TypeOK, CheckRequest, Refresh, Goto, Label, file
<1>15. ASSUME NEW c \in Caller, Plan(c) PROVE TypeOK'
    <2>1. Known(HandleOf[c], req[c].name) \in Nat
        BY <1>15, RunningRequest DEF TypeOK, Plan, Known
    <2> QED
        BY <1>15, <2>1 DEF TypeOK, Plan, Goto, Label, file
<1>16. ASSUME NEW c \in Caller, Finalize(c) PROVE TypeOK'
    BY <1>16 DEF TypeOK, Finalize, Goto, Label, file
<1>17. ASSUME NEW c \in Caller, Commit(c) PROVE TypeOK'
    <2>1. TxOf(c) \in Nat
        BY DEF TypeOK, TxOf
    <2>2. [tx |-> TxOf(c), prior |-> Basis, name |-> req[c].name, id |-> id[c],
           op |-> req[c].op, guard |-> basis[c]] \in EventSet
        BY <2>1, BasisType, RequestFields DEF TypeOK, EventSet
    <2>3. log' \in Seq(EventSet)
        BY <1>17, <2>2, AppendProperties DEF TypeOK, Commit
    <2>4. ids' \in [Name -> Nat] /\ next' \in Nat /\ current' \in [Handle -> BOOLEAN]
        BY <1>17, <2>1, RunningRequest DEF TypeOK, Commit
    <2>5. lock' = None /\ UNCHANGED <<status, names, req, failures>>
        BY <1>17 DEF Commit
    <2>6. pc' = [pc EXCEPT ![c] = "idle"] /\ basis' \in [Caller -> Nat \cup {None}]
          /\ id' \in [Caller -> Nat] /\ fresh' \in [Caller -> BOOLEAN]
        BY <1>17 DEF TypeOK, Commit, Return, Goto
    <2>7. mutex' \in [Handle -> Caller \cup {None}]
        BY <1>17 DEF TypeOK, Commit, Unlock
    <2>8. reply' \in [Caller -> [status : {"none", "error", "applied", "already_applied"},
                                 tx : Nat]]
        BY <1>17, <2>1 DEF TypeOK, Commit, Reply
    <2> QED
        BY <2>3, <2>4, <2>5, <2>6, <2>7, <2>8 DEF TypeOK, Label
<1>18. ASSUME NEW c \in Caller, CommitFails(c) PROVE TypeOK'
    <2>1. failures' \in 0..MaxFailures
        BY <1>18 DEF TypeOK, CommitFails
    <2>2. current' \in [Handle -> BOOLEAN]
        BY <1>18, <1>12 DEF TypeOK, CommitFails
    <2> QED
        BY <1>18, <1>11, <2>1, <2>2 DEF CommitFails
<1>19. ASSUME NEW c \in Caller, OperationFails(c) PROVE TypeOK'
    <2>1. failures' \in 0..MaxFailures
        BY <1>19 DEF TypeOK, OperationFails
    <2> QED
        BY <1>19, <1>11, <1>12, <2>1 DEF OperationFails
<1>20. ASSUME UNCHANGED vars PROVE TypeOK'
    BY <1>20 DEF TypeOK, vars
<1> QED
    BY <1>1, <1>2, <1>3, <1>4, <1>5, <1>6, <1>7, <1>8, <1>9, <1>10, <1>13, <1>14,
       <1>15, <1>16, <1>17, <1>18, <1>19, <1>20 DEF Next, Step

(* Type correctness: every step of every handle and caller keeps the state
   well formed, and a running call always has a request. *)
THEOREM TypeCorrect == Spec => []TypeOK
<1>1. Init => TypeOK
    BY TypeInit
<1>2. TypeOK /\ [Next]_vars => TypeOK'
    BY TypeNext
<1> QED
    BY <1>1, <1>2, PTL DEF Spec

-----------------------------------------------------------------------------
(* The writer is alone. *)

LEMMA Alone ==
    ASSUME TypeOK, ExclusiveWriter, NEW c \in Caller, NEW d \in Caller,
           HandleOf[c] = HandleOf[d], pc[c] \in Holding, pc[d] \in Holding
    PROVE  c = d
BY DEF ExclusiveWriter

LEMMA OneWriter ==
    ASSUME TypeOK, ExclusiveWriter, NEW c \in Caller, NEW d \in Caller,
           pc[c] \in Writing, pc[d] \in Writing
    PROVE  c = d
BY DEF ExclusiveWriter, Writing, Holding

(* A caller that leaves its transaction or gives up on it. *)
LEMMA LeavingKeepsExclusive ==
    ASSUME TypeOK, ExclusiveWriter, NEW c \in Caller, pc[c] \in Holding,
           pc' = [pc EXCEPT ![c] = "idle"], Unlock(c),
           lock' = lock \/ (pc[c] \in Writing /\ lock' = None)
    PROVE  ExclusiveWriter'
<1> SUFFICES ASSUME NEW d \in Caller, pc'[d] \in Holding
             PROVE  mutex'[HandleOf[d]] = d /\ (pc'[d] \in Writing => lock' = HandleOf[d])
    BY DEF ExclusiveWriter, Holding, Writing
<1>1. d # c /\ pc'[d] = pc[d]
    BY DEF TypeOK, Holding
<1>2. HandleOf[d] # HandleOf[c]
    BY <1>1, Alone
<1>3. mutex'[HandleOf[d]] = mutex[HandleOf[d]]
    BY <1>2, HandleOfAssumption DEF Unlock, TypeOK
<1>4. pc[d] \in Writing => pc[c] \notin Writing
    BY <1>1, OneWriter
<1> QED
    BY <1>1, <1>3, <1>4 DEF ExclusiveWriter

LEMMA ExclusiveNext == TypeOK /\ ExclusiveWriter /\ [Next]_vars => ExclusiveWriter'
<1> SUFFICES ASSUME TypeOK, ExclusiveWriter, [Next]_vars PROVE ExclusiveWriter'
    OBVIOUS
<1> USE HandleOfAssumption
<1>1. ASSUME NEW h \in Handle,
             OpenExisting(h) \/ OpenPristine(h) \/ Initialize(h) \/ Read(h)
      PROVE  ExclusiveWriter'
    BY <1>1 DEF ExclusiveWriter, OpenExisting, OpenPristine, Initialize, Read, callers
<1>2. ASSUME NEW h \in Handle, Crash(h) PROVE ExclusiveWriter'
    BY <1>2 DEF ExclusiveWriter, Crash, TypeOK, Holding, Writing
<1>3. ASSUME NEW c \in Caller, Lock(c) PROVE ExclusiveWriter'
    <2> SUFFICES ASSUME NEW d \in Caller
                 PROVE  /\ pc'[d] \in Holding => mutex'[HandleOf[d]] = d
                        /\ pc'[d] \in Writing => lock' = HandleOf[d]
        BY DEF ExclusiveWriter
    <2>1. CASE d = c
        BY <1>3, <2>1 DEF Lock, Goto, TypeOK, Writing
    <2>2. CASE d # c
        <3>1. pc'[d] = pc[d] /\ lock' = lock
            BY <1>3, <2>2 DEF Lock, Goto, TypeOK
        <3>2. pc[d] \in Holding => HandleOf[d] # HandleOf[c]
            BY <1>3, NoneIsFresh DEF Lock, ExclusiveWriter
        <3> QED
            BY <1>3, <3>1, <3>2 DEF Lock, ExclusiveWriter, TypeOK, Holding, Writing
    <2> QED
        BY <2>1, <2>2
<1>4. ASSUME NEW c \in Caller, NEW r \in Requests, Call(c, r) PROVE ExclusiveWriter'
    BY <1>4 DEF ExclusiveWriter, Call, Goto, TypeOK, Holding, Writing
<1>5. ASSUME NEW c \in Caller, BeginImmediate(c) PROVE ExclusiveWriter'
    <2> SUFFICES ASSUME NEW d \in Caller
                 PROVE  /\ pc'[d] \in Holding => mutex'[HandleOf[d]] = d
                        /\ pc'[d] \in Writing => lock' = HandleOf[d]
        BY DEF ExclusiveWriter
    <2>1. CASE d = c
        BY <1>5, <2>1 DEF BeginImmediate, Goto, TypeOK, ExclusiveWriter, Holding
    <2>2. CASE d # c
        <3>1. pc'[d] = pc[d] /\ mutex' = mutex
            BY <1>5, <2>2 DEF BeginImmediate, Goto, TypeOK
        <3>2. pc[d] \notin Writing
            BY <1>5, NoneIsFresh DEF BeginImmediate, ExclusiveWriter
        <3> QED
            BY <3>1, <3>2 DEF ExclusiveWriter
    <2> QED
        BY <2>1, <2>2
<1>6. ASSUME NEW c \in Caller, Busy(c) PROVE ExclusiveWriter'
    BY <1>6, LeavingKeepsExclusive DEF Busy, Return, Goto, Holding
<1>7. ASSUME NEW c \in Caller, AlreadyApplied(c) PROVE ExclusiveWriter'
    BY <1>7, LeavingKeepsExclusive DEF AlreadyApplied, Return, Goto, Holding, Writing
<1>8. ASSUME NEW c \in Caller, pc[c] \in Writing, Rollback(c) PROVE ExclusiveWriter'
    BY <1>8, LeavingKeepsExclusive DEF Rollback, Return, Goto, Holding, Writing
<1>9. ASSUME NEW c \in Caller,
             OperationReused(c) \/ BasisConflict(c) \/ CommitFails(c) \/ OperationFails(c)
      PROVE  ExclusiveWriter'
    BY <1>8, <1>9 DEF OperationReused, BasisConflict, CommitFails, OperationFails, Writing
<1>10. ASSUME NEW c \in Caller, CheckRequest(c) \/ Plan(c) \/ Finalize(c)
       PROVE  ExclusiveWriter'
    BY <1>10 DEF ExclusiveWriter, CheckRequest, Plan, Finalize, Goto, TypeOK, Holding, Writing
<1>11. ASSUME NEW c \in Caller, Commit(c) PROVE ExclusiveWriter'
    BY <1>11, LeavingKeepsExclusive DEF Commit, Return, Goto, Holding, Writing
<1>12. CASE UNCHANGED vars
    BY <1>12 DEF ExclusiveWriter, vars
<1> QED
    BY <1>1, <1>2, <1>3, <1>4, <1>5, <1>6, <1>7, <1>9, <1>10, <1>11, <1>12 DEF Next, Step

(* From BEGIN IMMEDIATE to the end of its transaction a caller is the only
   writer of the file and the only user of its handle. *)
THEOREM WriterExclusive == Spec => []ExclusiveWriter
<1>1. Init => ExclusiveWriter
    BY DEF Init, ExclusiveWriter, Holding, Writing
<1>2. TypeOK /\ ExclusiveWriter /\ [Next]_vars => ExclusiveWriter'
    BY ExclusiveNext
<1> QED
    BY <1>1, <1>2, TypeCorrect, PTL DEF Spec

-----------------------------------------------------------------------------
(* Which steps change the file, and how a caller comes to its plan. *)

LEMMA FileStep ==
    ASSUME [Next]_vars
    PROVE  \/ UNCHANGED file
           \/ \E h \in Handle : Initialize(h)
           \/ \E c \in Caller : Commit(c)
<1>1. ASSUME NEW h \in Handle, OpenExisting(h) \/ OpenPristine(h) \/ Read(h) \/ Crash(h)
      PROVE  UNCHANGED file
    BY <1>1 DEF OpenExisting, OpenPristine, Read, Crash
<1>2. ASSUME NEW c \in Caller, Lock(c) \/ \E r \in Requests : Call(c, r)
      PROVE  UNCHANGED file
    BY <1>2 DEF Lock, Call
<1>3. ASSUME NEW c \in Caller, Step(c), ~Commit(c) PROVE UNCHANGED file
    BY <1>3 DEF Step, BeginImmediate, Busy, AlreadyApplied, OperationReused, BasisConflict,
                CheckRequest, Plan, Finalize, CommitFails, OperationFails, Rollback
<1>4. CASE UNCHANGED vars
    BY <1>4 DEF vars, file
<1> QED
    BY <1>1, <1>2, <1>3, <1>4 DEF Next

(* Past the receipt and basis checks. *)
Checked == {"plan", "finalize", "commit"}

SameCall(c) ==
    /\ pc'[c] = pc[c] /\ req'[c] = req[c] /\ basis'[c] = basis[c]
    /\ id'[c] = id[c] /\ fresh'[c] = fresh[c]

LEMMA CheckedStep ==
    ASSUME TypeOK, [Next]_vars, NEW d \in Caller, pc'[d] \in Checked
    PROVE  SameCall(d) \/ CheckRequest(d) \/ Plan(d) \/ Finalize(d)
<1>1. ASSUME NEW h \in Handle,
             OpenExisting(h) \/ OpenPristine(h) \/ Initialize(h) \/ Read(h)
      PROVE  SameCall(d)
    BY <1>1 DEF SameCall, OpenExisting, OpenPristine, Initialize, Read, callers
<1>2. ASSUME NEW h \in Handle, Crash(h) PROVE SameCall(d)
    BY <1>2 DEF SameCall, Crash, Checked, TypeOK
<1>3. ASSUME NEW c \in Caller, Lock(c) PROVE SameCall(d)
    BY <1>3 DEF SameCall, Lock, Goto, Checked, TypeOK
<1>4. ASSUME NEW c \in Caller, NEW r \in Requests, Call(c, r) PROVE SameCall(d)
    BY <1>4 DEF SameCall, Call, Goto, Checked, TypeOK
<1>5. ASSUME NEW c \in Caller, BeginImmediate(c) PROVE SameCall(d)
    BY <1>5 DEF SameCall, BeginImmediate, Goto, Checked, TypeOK
<1>6. ASSUME NEW c \in Caller, Return(c), req' = req PROVE SameCall(d)
    BY <1>6 DEF SameCall, Return, Goto, Checked, TypeOK
<1>7. ASSUME NEW c \in Caller,
             \/ Busy(c) \/ AlreadyApplied(c) \/ OperationReused(c) \/ BasisConflict(c)
             \/ Commit(c) \/ CommitFails(c) \/ OperationFails(c)
      PROVE  SameCall(d)
    BY <1>6, <1>7 DEF Busy, AlreadyApplied, OperationReused, BasisConflict,
                      Commit, CommitFails, OperationFails, Rollback
<1>8. ASSUME NEW c \in Caller, c # d, CheckRequest(c) \/ Plan(c) \/ Finalize(c)
      PROVE  SameCall(d)
    BY <1>8 DEF SameCall, CheckRequest, Plan, Finalize, Goto, TypeOK
<1>9. CASE UNCHANGED vars
    BY <1>9 DEF vars, SameCall
<1> QED
    BY <1>1, <1>2, <1>3, <1>4, <1>5, <1>7, <1>8, <1>9 DEF Next, Step

(* Nothing changes the file under a caller that is past its checks. *)
LEMMA FileKept ==
    ASSUME TypeOK, ExclusiveWriter, [Next]_vars, NEW d \in Caller, pc'[d] \in Checked
    PROVE  UNCHANGED file
<1>1. CASE CheckRequest(d) \/ Plan(d) \/ Finalize(d)
    BY <1>1 DEF CheckRequest, Plan, Finalize
<1>2. CASE SameCall(d)
    <2>1. pc[d] \in Writing
        BY <1>2 DEF SameCall, Checked, Writing
    <2>2. ASSUME NEW h \in Handle, Initialize(h) PROVE FALSE
        BY <2>1, <2>2, HandleOfAssumption, NoneIsFresh DEF Initialize, ExclusiveWriter
    <2>3. ASSUME NEW c \in Caller, Commit(c) PROVE FALSE
        <3>1. c = d
            BY <2>1, <2>3, OneWriter DEF Commit, Writing
        <3> QED
            BY <2>3, <3>1 DEF Commit, Return, Goto, Checked, TypeOK
    <2> QED
        BY <2>2, <2>3, FileStep
<1> QED
    BY <1>1, <1>2, CheckedStep

-----------------------------------------------------------------------------
(* Receipts and the basis guard. *)

RequestChecked ==
    \A c \in Caller : pc[c] \in Checked =>
        Recorded(req[c].op) = {} /\ basis[c] \in {None, Basis}

LEMMA CheckedNext ==
    TypeOK /\ ExclusiveWriter /\ RequestChecked /\ [Next]_vars => RequestChecked'
<1> SUFFICES ASSUME TypeOK, ExclusiveWriter, RequestChecked, [Next]_vars,
                    NEW d \in Caller, pc'[d] \in Checked
             PROVE  Recorded(req[d].op)' = {} /\ (basis[d] \in {None, Basis})'
    BY DEF RequestChecked
<1>1. log' = log
    BY FileKept DEF file
<1>2. req'[d] = req[d] /\ basis'[d] = basis[d]
    BY CheckedStep DEF SameCall, CheckRequest, Plan, Finalize
<1>3. Recorded(req[d].op) = {} /\ basis[d] \in {None, Basis}
    BY CheckedStep DEF SameCall, CheckRequest, Plan, Finalize, RequestChecked, Checked
<1> QED
    BY <1>1, <1>2, <1>3 DEF Recorded, Basis

(* The event a commit appends. *)
NewEvent(c) == [tx |-> TxOf(c), prior |-> Basis, name |-> req[c].name, id |-> id[c],
                op |-> req[c].op, guard |-> basis[c]]

LEMMA NewEventFields ==
    ASSUME NEW c
    PROVE  /\ NewEvent(c).tx = TxOf(c) /\ NewEvent(c).prior = Basis
           /\ NewEvent(c).name = req[c].name /\ NewEvent(c).id = id[c]
           /\ NewEvent(c).op = req[c].op /\ NewEvent(c).guard = basis[c]
BY DEF NewEvent

LEMMA LogGrows ==
    ASSUME TypeOK, NEW c \in Caller, Commit(c)
    PROVE  /\ Len(log) \in Nat
           /\ DOMAIN log = 1..Len(log) /\ DOMAIN log' = 1..(Len(log) + 1)
           /\ log'[Len(log) + 1] = NewEvent(c)
           /\ \A i \in 1..Len(log) : log'[i] = log[i]
           /\ \A i \in DOMAIN log' : i \in DOMAIN log \/ i = Len(log) + 1
<1>1. log \in Seq(EventSet) /\ log' = Append(log, NewEvent(c))
    BY DEF TypeOK, Commit, NewEvent
<1>2. NewEvent(c) \in EventSet
    BY BasisType, RequestFields DEF TypeOK, EventSet, NewEvent, TxOf
<1> QED
    BY <1>1, <1>2, AppendProperties, LenProperties

LEMMA LogStarts ==
    ASSUME TypeOK, NEW h \in Handle, Initialize(h)
    PROVE  log = <<>> /\ log' = <<GenesisEvent>>
BY DEF Initialize, TypeOK

LEMMA OnceNext ==
    TypeOK /\ RequestChecked /\ OperationOnce /\ [Next]_vars => OperationOnce'
<1> SUFFICES ASSUME TypeOK, RequestChecked, OperationOnce, [Next]_vars
             PROVE  OperationOnce'
    OBVIOUS
<1>1. CASE UNCHANGED file
    BY <1>1 DEF file, OperationOnce
<1>2. ASSUME NEW h \in Handle, Initialize(h) PROVE OperationOnce'
    BY <1>2, LogStarts DEF OperationOnce, GenesisEvent
<1>3. ASSUME NEW c \in Caller, Commit(c) PROVE OperationOnce'
    <2>1. \A i \in 1..Len(log) : req[c].op # 0 => log[i].op # req[c].op
        BY <1>3, LogGrows DEF RequestChecked, Commit, Checked, Recorded
    <2>2. log'[Len(log) + 1].op = req[c].op
        BY <1>3, LogGrows, NewEventFields
    <2>3. \A i \in DOMAIN log' : i \in DOMAIN log \/ i = Len(log) + 1
        BY <1>3, LogGrows
    <2>4. \A i \in DOMAIN log : i \in 1..Len(log) /\ log'[i].op = log[i].op
        BY <1>3, LogGrows
    <2> QED
        BY <2>1, <2>2, <2>3, <2>4 DEF OperationOnce
<1> QED
    BY <1>1, <1>2, <1>3, FileStep

LEMMA GuardNext ==
    TypeOK /\ RequestChecked /\ BasisGuarded /\ [Next]_vars => BasisGuarded'
<1> SUFFICES ASSUME TypeOK, RequestChecked, BasisGuarded, [Next]_vars
             PROVE  BasisGuarded'
    OBVIOUS
<1>1. CASE UNCHANGED file
    BY <1>1 DEF file, BasisGuarded
<1>2. ASSUME NEW h \in Handle, Initialize(h) PROVE BasisGuarded'
    BY <1>2, LogStarts DEF BasisGuarded, GenesisEvent
<1>3. ASSUME NEW c \in Caller, Commit(c) PROVE BasisGuarded'
    <2>1. basis[c] \in {None, Basis}
        BY <1>3 DEF RequestChecked, Commit, Checked
    <2>2. log'[Len(log) + 1].guard \in {None, log'[Len(log) + 1].prior}
        BY <1>3, <2>1, LogGrows, NewEventFields
    <2>3. \A i \in DOMAIN log' : i \in DOMAIN log \/ i = Len(log) + 1
        BY <1>3, LogGrows
    <2>4. \A i \in DOMAIN log : log'[i] = log[i]
        BY <1>3, LogGrows
    <2> QED
        BY <2>2, <2>3, <2>4 DEF BasisGuarded
<1> QED
    BY <1>1, <1>2, <1>3, FileStep

(* The inductive invariant behind the receipts: exclusion, and what the
   checks established about every caller that is past them. *)
ReceiptInv == TypeOK /\ ExclusiveWriter /\ RequestChecked /\ OperationOnce /\ BasisGuarded

LEMMA ReceiptInvHolds == Spec => []ReceiptInv
<1>1. Init => ReceiptInv
    <2>1. Init => ExclusiveWriter
        BY DEF Init, ExclusiveWriter, Holding, Writing
    <2>2. Init => RequestChecked /\ OperationOnce /\ BasisGuarded
        BY DEF Init, RequestChecked, Checked, OperationOnce, BasisGuarded
    <2> QED
        BY <2>1, <2>2, TypeInit DEF ReceiptInv
<1>2. ReceiptInv /\ [Next]_vars => ReceiptInv'
    BY TypeNext, ExclusiveNext, CheckedNext, OnceNext, GuardNext DEF ReceiptInv
<1> QED
    BY <1>1, <1>2, PTL DEF Spec

(* An operation id is applied at most once, however many callers, handles,
   retries, failed commits and crashes there are. *)
THEOREM OperationAppliedOnce == Spec => []OperationOnce
BY ReceiptInvHolds, PTL DEF ReceiptInv

(* A guarded request commits on top of exactly the basis it named. *)
THEOREM GuardHonoured == Spec => []BasisGuarded
BY ReceiptInvHolds, PTL DEF ReceiptInv

-----------------------------------------------------------------------------
(* Allocation. *)

(* A call runs only on an open handle, and a handle opens only a file that
   has its genesis. *)
Opened ==
    /\ \A c \in Caller : pc[c] # "idle" => status[HandleOf[c]] = "open"
    /\ \A h \in Handle : status[h] = "open" => log # <<>>

LEMMA LogNeverEmptied == TypeOK /\ [Next]_vars /\ log # <<>> => log' # <<>>
<1> SUFFICES ASSUME TypeOK, [Next]_vars, log # <<>> PROVE log' # <<>>
    OBVIOUS
<1>1. CASE UNCHANGED file
    BY <1>1 DEF file
<1>2. ASSUME NEW h \in Handle, Initialize(h) PROVE log' # <<>>
    BY <1>2, LogStarts
<1>3. ASSUME NEW c \in Caller, Commit(c) PROVE log' # <<>>
    <2>1. DOMAIN log' = 1..(Len(log) + 1) /\ Len(log) \in Nat
        BY <1>3, LogGrows
    <2>2. Len(log) + 1 \in DOMAIN log'
        BY <2>1
    <2> QED
        BY <2>2
<1> QED
    BY <1>1, <1>2, <1>3, FileStep

LEMMA OpenedNext == TypeOK /\ Opened /\ [Next]_vars => Opened'
<1> SUFFICES ASSUME TypeOK, Opened, [Next]_vars PROVE Opened'
    OBVIOUS
<1> USE HandleOfAssumption
<1>1. ASSUME NEW h \in Handle, OpenExisting(h) PROVE Opened'
    BY <1>1 DEF Opened, OpenExisting, callers, TypeOK, file
<1>2. ASSUME NEW h \in Handle, OpenPristine(h) PROVE Opened'
    BY <1>2 DEF Opened, OpenPristine, callers, TypeOK, file
<1>3. ASSUME NEW h \in Handle, Initialize(h) \/ Read(h) PROVE Opened'
    BY <1>3, LogNeverEmptied DEF Opened, Initialize, Read, callers, TypeOK, file
<1>4. ASSUME NEW h \in Handle, Crash(h) PROVE Opened'
    BY <1>4 DEF Opened, Crash, TypeOK, file
<1>5. ASSUME NEW c \in Caller, NEW r \in Requests, Call(c, r) PROVE Opened'
    BY <1>5 DEF Opened, Call, Goto, TypeOK, file
<1>6. ASSUME NEW c \in Caller, Lock(c) \/ Step(c) PROVE Opened'
    <2>1. status' = status /\ (pc[c] # "idle")
        BY <1>6 DEF Lock, Step, BeginImmediate, Busy, AlreadyApplied, OperationReused,
                    BasisConflict, CheckRequest, Plan, Finalize, Commit, CommitFails,
                    OperationFails, Rollback
    <2>2. \E label \in Label : pc' = [pc EXCEPT ![c] = label]
        BY <1>6 DEF Lock, Step, BeginImmediate, Busy, AlreadyApplied, OperationReused,
                    BasisConflict, CheckRequest, Plan, Finalize, Commit, CommitFails,
                    OperationFails, Rollback, Return, Goto, Label
    <2> QED
        BY <2>1, <2>2, LogNeverEmptied DEF Opened, TypeOK
<1>7. CASE UNCHANGED vars
    BY <1>7 DEF Opened, vars
<1> QED
    BY <1>1, <1>2, <1>3, <1>4, <1>5, <1>6, <1>7 DEF Next

(* Where the allocator stands: above every id in use. *)
Allocation ==
    /\ log = <<>> => next = 0
    /\ log # <<>> => next >= FirstUserID
    /\ \A n \in Name : ids[n] # 0 => FirstUserID <= ids[n] /\ ids[n] < next
    /\ \A i \in DOMAIN log : GenesisTx <= log[i].tx /\ log[i].tx < next

(* Past planning, a new name has the next id, and the name is still free. *)
Resolved == {"finalize", "commit"}

FreshIsNext ==
    \A c \in Caller : pc[c] \in Resolved =>
        /\ id[c] # 0
        /\ fresh[c] => id[c] = next /\ ids[req[c].name] = 0

(* What COMMIT does with the allocator: the transaction takes an id that is
   at least next, and the one name that may change was free and gets next. *)
LEMMA CommitAllocates ==
    ASSUME TypeOK, Opened, Allocation, FreshIsNext, NEW c \in Caller, Commit(c)
    PROVE  /\ log # <<>> /\ next \in Nat /\ next >= FirstUserID
           /\ TxOf(c) \in Nat /\ next <= TxOf(c) /\ next' = TxOf(c) + 1
           /\ \A n \in Name :
                 \/ ids'[n] = ids[n]
                 \/ /\ n = req[c].name /\ ids[n] = 0
                    /\ ids'[n] = next /\ next < TxOf(c)
<1>1. log # <<>> /\ next \in Nat /\ next >= FirstUserID
    BY HandleOfAssumption DEF Commit, Opened, Allocation, TypeOK
<1>2. next <= TxOf(c) /\ next' = TxOf(c) + 1 /\ TxOf(c) \in Nat
    BY <1>1 DEF Commit, TxOf, TypeOK
<1>3. CASE fresh[c]
    <2>1. id[c] = next /\ TxOf(c) = next + 1 /\ ids[req[c].name] = 0
        BY <1>1, <1>3 DEF Commit, TxOf, FreshIsNext, Resolved
    <2>2. ids' = [ids EXCEPT ![req[c].name] = id[c]]
        BY <1>3 DEF Commit
    <2>3. ids \in [Name -> Nat]
        BY DEF TypeOK
    <2> QED
        BY <1>1, <1>2, <2>1, <2>2, <2>3
<1>4. CASE ~fresh[c]
    BY <1>1, <1>2, <1>4 DEF Commit
<1> QED
    BY <1>3, <1>4

LEMMA AllocationNext ==
    TypeOK /\ Opened /\ Allocation /\ FreshIsNext /\ [Next]_vars => Allocation'
<1> SUFFICES ASSUME TypeOK, Opened, Allocation, FreshIsNext, [Next]_vars
             PROVE  Allocation'
    OBVIOUS
<1>1. CASE UNCHANGED file
    BY <1>1 DEF file, Allocation
<1>2. ASSUME NEW h \in Handle, Initialize(h) PROVE Allocation'
    <2>1. log = <<>> /\ log' = <<GenesisEvent>> /\ ids' = ids /\ next' = FirstUserID
        BY <1>2, LogStarts DEF Initialize
    <2>2. \A n \in Name : ids[n] = 0
        BY <2>1 DEF Allocation, TypeOK, FirstUserID
    <2> QED
        BY <2>1, <2>2 DEF Allocation, GenesisEvent, GenesisTx, FirstUserID
<1>3. ASSUME NEW c \in Caller, Commit(c) PROVE Allocation'
    <2>1. log # <<>> /\ next \in Nat /\ next >= FirstUserID
        BY <1>3, CommitAllocates
    <2>2. next <= TxOf(c) /\ next' = TxOf(c) + 1 /\ TxOf(c) \in Nat
        BY <1>3, CommitAllocates
    <2>3. \A n \in Name : ids'[n] = ids[n] \/ (ids'[n] = next /\ next < TxOf(c))
        BY <1>3, CommitAllocates
    <2>4. \A n \in Name : ids[n] \in Nat
        BY DEF TypeOK
    <2>5. \A n \in Name : ids'[n] # 0 => FirstUserID <= ids'[n] /\ ids'[n] < next'
        BY <2>1, <2>2, <2>3, <2>4 DEF Allocation, FirstUserID
    <2>6. \A i \in DOMAIN log : log'[i] = log[i] /\ log[i].tx \in Nat
        <3>1. log \in Seq(EventSet)
            BY DEF TypeOK
        <3>2. \A i \in DOMAIN log : log[i] \in EventSet
            BY <3>1
        <3>3. \A i \in DOMAIN log : log[i].tx \in Nat
            BY <3>2 DEF EventSet
        <3> QED
            BY <1>3, <3>3, LogGrows
    <2>7. log'[Len(log) + 1].tx = TxOf(c)
        BY <1>3, LogGrows, NewEventFields
    <2>8. \A i \in DOMAIN log' : GenesisTx <= log'[i].tx /\ log'[i].tx < next'
        <3> SUFFICES ASSUME NEW i \in DOMAIN log'
                     PROVE  GenesisTx <= log'[i].tx /\ log'[i].tx < next'
            OBVIOUS
        <3>1. i \in DOMAIN log \/ i = Len(log) + 1
            BY <1>3, LogGrows
        <3> QED
            BY <2>1, <2>2, <2>6, <2>7, <3>1 DEF Allocation, GenesisTx, FirstUserID
    <2>9. log' # <<>> /\ next' >= FirstUserID
        BY <2>1, <2>2, LogNeverEmptied DEF FirstUserID
    <2> QED
        BY <2>5, <2>8, <2>9 DEF Allocation
<1> QED
    BY <1>1, <1>2, <1>3, FileStep

LEMMA FreshNext ==
    TypeOK /\ ExclusiveWriter /\ Opened /\ Allocation /\ FreshIsNext /\ [Next]_vars
        => FreshIsNext'
<1> SUFFICES ASSUME TypeOK, ExclusiveWriter, Opened, Allocation, FreshIsNext, [Next]_vars,
                    NEW c \in Caller, pc'[c] \in Resolved
             PROVE  id'[c] # 0 /\ (fresh'[c] => id'[c] = next' /\ ids'[req'[c].name] = 0)
    BY DEF FreshIsNext
<1>1. next' = next /\ ids' = ids
    BY FileKept DEF file, Resolved, Checked
<1>2. CASE SameCall(c)
    BY <1>1, <1>2 DEF SameCall, FreshIsNext
<1>3. CASE Plan(c)
    <2>1. log # <<>> /\ next # 0
        <3>1. log # <<>>
            BY <1>3, HandleOfAssumption DEF Plan, Opened
        <3>2. next >= FirstUserID /\ next \in Nat
            BY <3>1 DEF Allocation, TypeOK
        <3> QED
            BY <3>1, <3>2 DEF FirstUserID
    <2> DEFINE known == Known(HandleOf[c], req[c].name)
    <2>2. /\ id' = [id EXCEPT ![c] = IF known # 0 THEN known ELSE next]
          /\ fresh' = [fresh EXCEPT ![c] = known = 0]
          /\ req' = req
        BY <1>3 DEF Plan
    <2>3. id \in [Caller -> Nat] /\ fresh \in [Caller -> BOOLEAN]
        BY DEF TypeOK
    <2> HIDE DEF known
    <2>4. id'[c] = IF known # 0 THEN known ELSE next
        BY <2>2, <2>3
    <2>5. fresh'[c] = (known = 0)
        BY <2>2, <2>3, Zenon
    <2>6. known = 0 => ids[req[c].name] = 0
        BY DEF known, Known
    <2> QED
        BY <1>1, <2>1, <2>2, <2>4, <2>5, <2>6
<1>4. CASE Finalize(c)
    BY <1>1, <1>4 DEF Finalize, FreshIsNext, Resolved
<1>5. CASE CheckRequest(c)
    BY <1>5 DEF CheckRequest, Goto, TypeOK, Resolved
<1> QED
    BY <1>2, <1>3, <1>4, <1>5, CheckedStep DEF Resolved, Checked

LEMMA DistinctNext ==
    TypeOK /\ Opened /\ Allocation /\ FreshIsNext /\ IdsDistinct /\ [Next]_vars
        => IdsDistinct'
<1> SUFFICES ASSUME TypeOK, Opened, Allocation, FreshIsNext, IdsDistinct, [Next]_vars
             PROVE  IdsDistinct'
    OBVIOUS
<1>1. CASE UNCHANGED file
    BY <1>1 DEF file, IdsDistinct
<1>2. ASSUME NEW h \in Handle, Initialize(h) PROVE IdsDistinct'
    <2>1. log = <<>> /\ log' = <<GenesisEvent>> /\ ids' = ids
        BY <1>2, LogStarts DEF Initialize
    <2>2. \A n \in Name : ids[n] = 0
        BY <2>1 DEF Allocation, TypeOK, FirstUserID
    <2> QED
        BY <2>1, <2>2 DEF IdsDistinct, GenesisEvent, GenesisTx
<1>3. ASSUME NEW c \in Caller, Commit(c) PROVE IdsDistinct'
    <2> DEFINE tx == TxOf(c)
               new == Len(log) + 1
    <2>1. next \in Nat /\ next >= FirstUserID /\ tx \in Nat /\ next <= tx
        BY <1>3, CommitAllocates
    <2>2. \A n \in Name : \/ ids'[n] = ids[n]
                          \/ n = req[c].name /\ ids[n] = 0 /\ ids'[n] = next /\ next < tx
        BY <1>3, CommitAllocates
    <2>3. \A n \in Name : ids[n] \in Nat /\ (ids[n] = 0 \/ ids[n] < next)
        BY DEF TypeOK, Allocation
    <2>4. \A i \in DOMAIN log : log'[i] = log[i] /\ log[i].tx < next /\ GenesisTx <= log[i].tx
        BY <1>3, LogGrows DEF Allocation
    <2>5. log'[new].tx = tx
        BY <1>3, LogGrows, NewEventFields
    <2>6. \A i \in DOMAIN log' : i \in DOMAIN log \/ i = new
        BY <1>3, LogGrows
    <2>7. \A i \in DOMAIN log : i \in Nat /\ i < new /\ log[i].tx \in Nat
        <3>1. log \in Seq(EventSet)
            BY DEF TypeOK
        <3>2. \A i \in DOMAIN log : log[i] \in EventSet
            BY <3>1
        <3> QED
            BY <3>1, <3>2 DEF EventSet
    <2> HIDE DEF tx, new
    <2>8. ASSUME NEW m \in Name, NEW n \in Name, ids'[m] = ids'[n], ids'[m] # 0
          PROVE  m = n
        <3>1. ids[m] = ids[n] /\ ids[m] # 0 => m = n
            BY DEF IdsDistinct
        <3> QED
            BY <2>1, <2>2, <2>3, <2>8, <3>1
    <2>9. ASSUME NEW i \in DOMAIN log', NEW n \in Name PROVE log'[i].tx # ids'[n]
        <3>1. CASE i \in DOMAIN log
            <4>1. log[i].tx # ids[n]
                BY <3>1 DEF IdsDistinct
            <4> QED
                BY <2>1, <2>2, <2>4, <2>7, <3>1, <4>1
        <3>2. CASE i = new
            BY <2>1, <2>2, <2>3, <2>5, <3>2 DEF FirstUserID
        <3> QED
            BY <2>6, <3>1, <3>2
    <2>10. ASSUME NEW i \in DOMAIN log', NEW j \in DOMAIN log', i < j
           PROVE  log'[i].tx < log'[j].tx
        <3>1. CASE j \in DOMAIN log
            <4>1. i \in DOMAIN log
                BY <2>6, <2>7, <2>10, <3>1 DEF new
            <4> QED
                BY <2>4, <2>10, <3>1, <4>1 DEF IdsDistinct
        <3>2. CASE j = new
            <4>1. i \in DOMAIN log
                BY <2>6, <2>10, <3>2 DEF new, TypeOK
            <4> QED
                BY <2>1, <2>4, <2>5, <2>7, <3>2, <4>1
        <3> QED
            BY <2>6, <3>1, <3>2
    <2> QED
        BY <2>8, <2>9, <2>10 DEF IdsDistinct
<1> QED
    BY <1>1, <1>2, <1>3, FileStep

LEMMA GenesisNext ==
    TypeOK /\ Opened /\ Allocation /\ FreshIsNext /\ OneGenesis /\ [Next]_vars
        => OneGenesis'
<1> SUFFICES ASSUME TypeOK, Opened, Allocation, FreshIsNext, OneGenesis, [Next]_vars
             PROVE  OneGenesis'
    OBVIOUS
<1>1. CASE UNCHANGED file
    BY <1>1 DEF file, OneGenesis
<1>2. ASSUME NEW h \in Handle, Initialize(h) PROVE OneGenesis'
    <2>1. log' = <<GenesisEvent>>
        BY <1>2, LogStarts
    <2> QED
        BY <2>1 DEF OneGenesis, GenesisEvent
<1>3. ASSUME NEW c \in Caller, Commit(c) PROVE OneGenesis'
    <2>1. TxOf(c) # GenesisTx
        BY <1>3, CommitAllocates DEF GenesisTx, FirstUserID
    <2>2. \A i \in DOMAIN log : log'[i] = log[i]
        BY <1>3, LogGrows
    <2>3. log'[Len(log) + 1].tx = TxOf(c)
        BY <1>3, LogGrows, NewEventFields
    <2>4. \A i \in DOMAIN log' : i \in DOMAIN log \/ i = Len(log) + 1
        BY <1>3, LogGrows
    <2>5. Len(log) + 1 # 1
        <3>1. log # <<>> /\ log \in Seq(EventSet)
            BY <1>3, CommitAllocates DEF TypeOK
        <3> QED
            BY <3>1
    <2> QED
        BY <2>1, <2>2, <2>3, <2>4, <2>5 DEF OneGenesis
<1> QED
    BY <1>1, <1>2, <1>3, FileStep

(* The inductive invariant behind the identities: who may write, where the
   allocator stands, and what a caller in the middle of its write holds. *)
AllocationInv ==
    /\ TypeOK /\ ExclusiveWriter /\ Opened
    /\ Allocation /\ FreshIsNext /\ IdsDistinct /\ OneGenesis

LEMMA AllocationInvHolds == Spec => []AllocationInv
<1>1. Init => AllocationInv
    <2> SUFFICES ASSUME Init PROVE AllocationInv
        OBVIOUS
    <2>1. TypeOK
        BY TypeInit
    <2>2. ExclusiveWriter /\ FreshIsNext
        BY DEF Init, ExclusiveWriter, Holding, Writing, FreshIsNext, Resolved
    <2>3. Opened
        BY HandleOfAssumption DEF Init, Opened
    <2>4. log = <<>> /\ next = 0 /\ \A n \in Name : ids[n] = 0
        BY DEF Init, NoNames
    <2>5. Allocation /\ IdsDistinct /\ OneGenesis
        BY <2>4 DEF Allocation, IdsDistinct, OneGenesis
    <2> QED
        BY <2>1, <2>2, <2>3, <2>5 DEF AllocationInv
<1>2. AllocationInv /\ [Next]_vars => AllocationInv'
    BY TypeNext, ExclusiveNext, OpenedNext, AllocationNext, FreshNext, DistinctNext,
       GenesisNext DEF AllocationInv
<1> QED
    BY <1>1, <1>2, PTL DEF Spec

(* No identity number is given out twice, to entities or to transactions,
   and transactions are numbered in commit order, through any number of
   handles, aborted allocations and crashes. *)
THEOREM IdentitiesDistinct == Spec => []IdsDistinct
BY AllocationInvHolds, PTL DEF AllocationInv

(* Any number of processes that race to open an empty file leave exactly one
   genesis event, the first one. *)
THEOREM GenesisOnce == Spec => []OneGenesis
BY AllocationInvHolds, PTL DEF AllocationInv

(* A committed name keeps its id and next_id never goes back, in every step
   of every handle. *)
THEOREM NamesKeepTheirIds == Spec => IdentityStable
<1> DEFINE Stable == next' >= next /\ \A n \in Name : ids[n] # 0 => ids'[n] = ids[n]
<1>1. AllocationInv /\ [Next]_vars => [Stable]_vars
    <2> SUFFICES ASSUME AllocationInv, [Next]_vars PROVE Stable
        OBVIOUS
    <2>0. TypeOK /\ Opened /\ Allocation /\ FreshIsNext
        BY DEF AllocationInv
    <2>1. CASE UNCHANGED file
        BY <2>0, <2>1 DEF file, TypeOK
    <2>2. ASSUME NEW h \in Handle, Initialize(h) PROVE Stable
        BY <2>0, <2>2, LogStarts DEF Initialize, Allocation, FirstUserID
    <2>3. ASSUME NEW c \in Caller, Commit(c) PROVE Stable
        <3>1. next \in Nat /\ TxOf(c) \in Nat /\ next <= TxOf(c) /\ next' = TxOf(c) + 1
            BY <2>0, <2>3, CommitAllocates
        <3>2. \A n \in Name : ids'[n] = ids[n] \/ ids[n] = 0
            BY <2>0, <2>3, CommitAllocates
        <3> QED
            BY <3>1, <3>2
    <2> QED
        BY <2>1, <2>2, <2>3, FileStep
<1> QED
    BY <1>1, AllocationInvHolds, PTL DEF Spec, IdentityStable

-----------------------------------------------------------------------------
(* The name cache, where COMMIT of an apply cannot fail. *)

(* Nobody touches the cache of a handle whose writer is past its checks. *)
LEMMA CacheKept ==
    ASSUME TypeOK, ExclusiveWriter, Opened, [Next]_vars,
           NEW d \in Caller, pc'[d] \in Checked, SameCall(d)
    PROVE  /\ names'[HandleOf[d]] = names[HandleOf[d]]
           /\ current'[HandleOf[d]] = current[HandleOf[d]]
<1> DEFINE g == HandleOf[d]
           Kept == names'[g] = names[g] /\ current'[g] = current[g]
<1> USE HandleOfAssumption
<1>1. pc[d] \in Writing /\ pc[d] \in Holding /\ status[g] = "open" /\ g \in Handle
    BY DEF SameCall, Checked, Writing, Holding, Opened
<1>2. mutex[g] = d /\ lock = g
    BY <1>1 DEF ExclusiveWriter
<1>3. ASSUME NEW h \in Handle, OpenExisting(h) PROVE Kept
    BY <1>1, <1>3 DEF OpenExisting, Refresh, TypeOK
<1>4. ASSUME NEW h \in Handle, OpenPristine(h) \/ Initialize(h) PROVE Kept
    BY <1>4 DEF OpenPristine, Initialize
<1>5. ASSUME NEW h \in Handle, Read(h) PROVE Kept
    BY <1>1, <1>2, <1>5, NoneIsFresh DEF Read, Refresh, TypeOK
<1>6. ASSUME NEW h \in Handle, Crash(h) PROVE Kept
    <2>1. h # g
        BY <1>6 DEF Crash, Checked, TypeOK
    <2> QED
        BY <1>1, <1>6, <2>1 DEF Crash, TypeOK
<1>7. ASSUME NEW c \in Caller, Lock(c) \/ BeginImmediate(c) \/ Busy(c) \/ Plan(c) PROVE Kept
    BY <1>7 DEF Lock, BeginImmediate, Busy, Plan
<1>8. ASSUME NEW c \in Caller, NEW r \in Requests, Call(c, r) PROVE Kept
    BY <1>8 DEF Call
<1>9. ASSUME NEW c \in Caller, pc[c] \in Writing, pc'[c] # pc[c] PROVE FALSE
    BY <1>1, <1>9, OneWriter DEF SameCall
<1>10. ASSUME NEW c \in Caller,
              \/ AlreadyApplied(c) \/ OperationReused(c) \/ BasisConflict(c)
              \/ Commit(c) \/ CommitFails(c) \/ OperationFails(c)
       PROVE  FALSE
    <2>1. pc[c] \in Writing /\ Return(c)
        BY <1>10 DEF AlreadyApplied, OperationReused, BasisConflict, Commit, CommitFails,
                     OperationFails, Rollback, Writing
    <2>2. pc'[c] = "idle"
        BY <2>1 DEF Return, Goto, TypeOK
    <2> QED
        BY <1>9, <2>1, <2>2 DEF Writing
<1>11. ASSUME NEW c \in Caller, CheckRequest(c) \/ Finalize(c) PROVE FALSE
    <2>1. pc[c] \in Writing /\ pc'[c] # pc[c]
        BY <1>11 DEF CheckRequest, Finalize, Goto, Writing, TypeOK
    <2> QED
        BY <1>9, <2>1
<1>12. CASE UNCHANGED vars
    BY <1>12 DEF vars
<1> QED
    BY <1>3, <1>4, <1>5, <1>6, <1>7, <1>8, <1>10, <1>11, <1>12 DEF Next, Step

(* What a caller past its checks may rely on: its handle's cache is current;
   a known name has the id of the table; once its new name is in the cache,
   the cache is the table its COMMIT will leave. *)
TableAfter(c) == IF fresh[c] THEN [ids EXCEPT ![req[c].name] = id[c]] ELSE ids

CacheUsed ==
    \A c \in Caller :
        /\ pc[c] \in Checked => current[HandleOf[c]]
        /\ pc[c] = "commit" => names[HandleOf[c]] = TableAfter(c)
        /\ pc[c] \in Resolved /\ ~fresh[c] => id[c] = ids[req[c].name]

LEMMA CacheUsedNext ==
    /\ TypeOK /\ ExclusiveWriter /\ Opened /\ CacheCoherent /\ CacheUsed
    /\ [Next]_vars
    => CacheUsed'
<1> SUFFICES ASSUME TypeOK, ExclusiveWriter, Opened, CacheCoherent, CacheUsed, [Next]_vars,
                    NEW c \in Caller, pc'[c] \in Checked
             PROVE  /\ current'[HandleOf[c]]
                    /\ pc'[c] = "commit" => names'[HandleOf[c]] = TableAfter(c)'
                    /\ pc'[c] \in Resolved /\ ~fresh'[c] => id'[c] = ids'[req'[c].name]
    BY DEF CacheUsed, Checked, Resolved
<1> USE HandleOfAssumption
<1>1. ids' = ids
    BY FileKept DEF file
<1>2. CASE SameCall(c)
    <2>1. /\ names'[HandleOf[c]] = names[HandleOf[c]]
          /\ current'[HandleOf[c]] = current[HandleOf[c]]
        BY <1>2, CacheKept
    <2> QED
        BY <1>1, <1>2, <2>1 DEF SameCall, CacheUsed, TableAfter
<1>3. CASE CheckRequest(c)
    BY <1>3 DEF CheckRequest, Refresh, Goto, TypeOK, Resolved
<1>4. pc[c] \in {"plan", "finalize"} => names[HandleOf[c]] = ids
    <2> SUFFICES ASSUME pc[c] \in {"plan", "finalize"} PROVE names[HandleOf[c]] = ids
        OBVIOUS
    <2>1. current[HandleOf[c]]
        BY DEF CacheUsed, Checked
    <2>2. \A d \in Caller : HandleOf[d] = HandleOf[c] => pc[d] # "commit"
        BY Alone DEF Holding
    <2> QED
        BY <2>1, <2>2 DEF CacheCoherent
<1>5. CASE Plan(c)
    <2> DEFINE known == Known(HandleOf[c], req[c].name)
    <2>1. /\ id' = [id EXCEPT ![c] = IF known # 0 THEN known ELSE next]
          /\ fresh' = [fresh EXCEPT ![c] = known = 0]
          /\ req' = req /\ current' = current /\ pc[c] = "plan"
          /\ pc' = [pc EXCEPT ![c] = "finalize"]
        BY <1>5 DEF Plan, Goto
    <2>2. /\ id \in [Caller -> Nat] /\ fresh \in [Caller -> BOOLEAN]
          /\ pc \in [Caller -> Label]
        BY DEF TypeOK
    <2>3. known = ids[req[c].name]
        BY <1>4, <2>1 DEF Known
    <2> HIDE DEF known
    <2>4. fresh'[c] = (known = 0)
        BY <2>1, <2>2, Zenon
    <2>5. id'[c] = IF known # 0 THEN known ELSE next
        BY <2>1, <2>2
    <2>6. current'[HandleOf[c]] /\ pc'[c] # "commit"
        BY <2>1, <2>2 DEF CacheUsed, Checked
    <2> QED
        BY <1>1, <2>1, <2>3, <2>4, <2>5, <2>6
<1>6. CASE Finalize(c)
    <2>1. names[HandleOf[c]] = ids /\ current'[HandleOf[c]]
        BY <1>4, <1>6 DEF Finalize, CacheUsed, Checked
    <2>2. id' = id /\ fresh' = fresh /\ req' = req
        BY <1>6 DEF Finalize
    <2>3. names'[HandleOf[c]] = TableAfter(c)
        BY <1>6, <2>1 DEF Finalize, TableAfter, TypeOK
    <2>4. TableAfter(c)' = TableAfter(c)
        BY <1>1, <2>2 DEF TableAfter
    <2>5. ~fresh[c] => id[c] = ids[req[c].name]
        BY <1>6 DEF Finalize, CacheUsed, Resolved
    <2> QED
        BY <1>1, <2>1, <2>2, <2>3, <2>4, <2>5
<1> QED
    BY <1>2, <1>3, <1>5, <1>6, CheckedStep

(* Steps of a caller that leave the cache alone, or only distrust it. *)
LEMMA DistrustKeepsCoherent ==
    ASSUME TypeOK, CacheCoherent, NEW c \in Caller,
           names' = names, ids' = ids,
           \E label \in Label \ {"commit"} : pc' = [pc EXCEPT ![c] = label],
           \A h \in Handle : current'[h] => current[h],
           pc[c] = "commit" => ~current'[HandleOf[c]]
    PROVE  CacheCoherent'
<1> SUFFICES ASSUME NEW h \in Handle, current'[h],
                    \A d \in Caller : HandleOf[d] = h => pc'[d] # "commit"
             PROVE  names'[h] = ids'
    BY DEF CacheCoherent
<1>1. \A d \in Caller : HandleOf[d] = h => pc[d] # "commit"
    BY DEF TypeOK
<1> QED
    BY <1>1 DEF CacheCoherent

LEMMA CacheNext ==
    ASSUME "apply" \notin CommitMayFail, TypeOK, CacheCoherent, CacheUsed, [Next]_vars
    PROVE  CacheCoherent'
<1> USE HandleOfAssumption
<1>1. ASSUME NEW h \in Handle, OpenExisting(h) \/ Read(h) PROVE CacheCoherent'
    <2>1. Refresh(h) /\ ids' = ids /\ pc' = pc
        BY <1>1 DEF OpenExisting, Read, file, callers
    <2> QED
        BY <2>1 DEF CacheCoherent, Refresh, TypeOK
<1>2. ASSUME NEW h \in Handle, OpenPristine(h) \/ Initialize(h) PROVE CacheCoherent'
    BY <1>2 DEF OpenPristine, Initialize, file, callers, CacheCoherent
<1>3. ASSUME NEW h \in Handle, Crash(h) PROVE CacheCoherent'
    <2> SUFFICES ASSUME NEW g \in Handle, current'[g],
                        \A d \in Caller : HandleOf[d] = g => pc'[d] # "commit"
                 PROVE  names'[g] = ids'
        BY DEF CacheCoherent
    <2>1. g # h /\ current[g] /\ names'[g] = names[g] /\ ids' = ids
        BY <1>3 DEF Crash, TypeOK, file
    <2>2. \A d \in Caller : HandleOf[d] = g => pc[d] # "commit"
        BY <1>3, <2>1 DEF Crash
    <2> QED
        BY <2>1, <2>2 DEF CacheCoherent
<1>4. ASSUME NEW c \in Caller, NEW r \in Requests, Call(c, r) PROVE CacheCoherent'
    BY <1>4, DistrustKeepsCoherent DEF Call, Goto, Label, file
<1>5. ASSUME NEW c \in Caller, Lock(c) \/ BeginImmediate(c) \/ Busy(c) \/ Plan(c)
      PROVE  CacheCoherent'
    <2>1. /\ names' = names /\ ids' = ids /\ current' = current /\ pc[c] # "commit"
          /\ \E label \in Label \ {"commit"} : pc' = [pc EXCEPT ![c] = label]
        BY <1>5 DEF Lock, BeginImmediate, Busy, Plan, Return, Goto, Label, file
    <2> QED
        BY <2>1, DistrustKeepsCoherent
<1>6. ASSUME NEW c \in Caller, AlreadyApplied(c) PROVE CacheCoherent'
    <2>1. /\ names' = names /\ ids' = ids /\ pc[c] # "commit"
          /\ \E label \in Label \ {"commit"} : pc' = [pc EXCEPT ![c] = label]
        BY <1>6 DEF AlreadyApplied, Return, Goto, Label, file
    <2>2. current' = [current EXCEPT ![HandleOf[c]] = @ /\ req[c].kind = "transact"]
        BY <1>6 DEF AlreadyApplied
    <2>3. \A h \in Handle : current'[h] => current[h]
        BY <2>2 DEF TypeOK
    <2> QED
        BY <2>1, <2>3, DistrustKeepsCoherent
<1>7. ASSUME NEW c \in Caller,
             OperationReused(c) \/ BasisConflict(c) \/ OperationFails(c) \/ CommitFails(c)
      PROVE  CacheCoherent'
    <2>1. Rollback(c) /\ Distrust(HandleOf[c])
        <3>1. CASE CommitFails(c)
            BY <3>1, CommitMayFailAssumption DEF CommitFails, Kind
        <3> QED
            BY <1>7, <3>1 DEF OperationReused, BasisConflict, OperationFails
    <2>2. /\ names' = names /\ ids' = ids
          /\ \E label \in Label \ {"commit"} : pc' = [pc EXCEPT ![c] = label]
        BY <2>1 DEF Rollback, Return, Goto, Label, file
    <2>3. ~current'[HandleOf[c]] /\ \A h \in Handle : current'[h] => current[h]
        BY <2>1 DEF Distrust, TypeOK
    <2> QED
        BY <2>2, <2>3, DistrustKeepsCoherent
<1>8. ASSUME NEW c \in Caller, CheckRequest(c) PROVE CacheCoherent'
    <2> SUFFICES ASSUME NEW h \in Handle, current'[h],
                        \A d \in Caller : HandleOf[d] = h => pc'[d] # "commit"
                 PROVE  names'[h] = ids'
        BY DEF CacheCoherent
    <2>1. \A d \in Caller : HandleOf[d] = h => pc[d] # "commit"
        BY <1>8 DEF CheckRequest, Goto, TypeOK
    <2>2. Refresh(HandleOf[c]) /\ ids' = ids
        BY <1>8 DEF CheckRequest, file
    <2> QED
        BY <2>1, <2>2 DEF Refresh, CacheCoherent, TypeOK
<1>9. ASSUME NEW c \in Caller, Finalize(c) PROVE CacheCoherent'
    <2> SUFFICES ASSUME NEW h \in Handle, current'[h],
                        \A d \in Caller : HandleOf[d] = h => pc'[d] # "commit"
                 PROVE  names'[h] = ids'
        BY DEF CacheCoherent
    <2>1. h # HandleOf[c] /\ current[h] /\ ids' = ids
        BY <1>9 DEF Finalize, Goto, TypeOK, file
    <2>2. \A d \in Caller : HandleOf[d] = h => pc[d] # "commit"
        BY <1>9 DEF Finalize, Goto, TypeOK
    <2>3. names'[h] = names[h]
        BY <1>9, <2>1 DEF Finalize, TypeOK
    <2> QED
        BY <2>1, <2>2, <2>3 DEF CacheCoherent
<1>10. ASSUME NEW c \in Caller, Commit(c) PROVE CacheCoherent'
    <2> SUFFICES ASSUME NEW h \in Handle, current'[h] PROVE names'[h] = ids'
        BY DEF CacheCoherent
    <2>1. h = HandleOf[c] /\ names' = names /\ ids' = TableAfter(c) /\ pc[c] = "commit"
        BY <1>10 DEF Commit, TableAfter
    <2> QED
        BY <2>1 DEF CacheUsed
<1>11. CASE UNCHANGED vars
    BY <1>11 DEF vars, CacheCoherent
<1> QED
    BY <1>1, <1>2, <1>3, <1>4, <1>5, <1>6, <1>7, <1>8, <1>9, <1>10, <1>11 DEF Next, Step

(* Every named event carries an id. *)
NamedEvents == \A i \in DOMAIN log : log[i].name # None => log[i].id # 0

LEMMA FactsNext ==
    ASSUME TypeOK, Opened, Allocation, FreshIsNext, CacheUsed, NamedEvents,
           FactsNameRightEntity, [Next]_vars
    PROVE  NamedEvents' /\ FactsNameRightEntity'
<1>1. CASE UNCHANGED file
    BY <1>1 DEF file, NamedEvents, FactsNameRightEntity
<1>2. ASSUME NEW h \in Handle, Initialize(h) PROVE NamedEvents' /\ FactsNameRightEntity'
    <2>1. log' = <<GenesisEvent>>
        BY <1>2, LogStarts
    <2> QED
        BY <2>1 DEF NamedEvents, FactsNameRightEntity, GenesisEvent
<1>3. ASSUME NEW c \in Caller, Commit(c) PROVE NamedEvents' /\ FactsNameRightEntity'
    <2> DEFINE new == Len(log) + 1
    <2>1. \A i \in DOMAIN log' : i \in DOMAIN log \/ i = new
        BY <1>3, LogGrows
    <2>2. \A i \in DOMAIN log : log'[i] = log[i]
        BY <1>3, LogGrows
    <2>3. log'[new].name = req[c].name /\ log'[new].id = id[c]
        BY <1>3, LogGrows, NewEventFields
    <2>4. id[c] # 0 /\ req[c].name \in Name
        BY <1>3, RunningRequest, RequestFields DEF Commit, FreshIsNext, Resolved
    <2>5. ids'[req[c].name] = id[c]
        <3>1. CASE fresh[c]
            BY <1>3, <2>4, <3>1 DEF Commit, TypeOK
        <3>2. CASE ~fresh[c]
            BY <1>3, <3>2 DEF Commit, CacheUsed, Resolved
        <3> QED
            BY <3>1, <3>2
    <2>6. \A n \in Name : ids[n] # 0 => ids'[n] = ids[n]
        BY <1>3, CommitAllocates
    <2>7. \A i \in DOMAIN log : log[i].name \in Name \cup {None}
        <3>1. log \in Seq(EventSet)
            BY DEF TypeOK
        <3>2. \A i \in DOMAIN log : log[i] \in EventSet
            BY <3>1
        <3> QED
            BY <3>2 DEF EventSet
    <2> HIDE DEF new
    <2> QED
        BY <2>1, <2>2, <2>3, <2>4, <2>5, <2>6, <2>7 DEF NamedEvents, FactsNameRightEntity
<1> QED
    BY <1>1, <1>2, <1>3, FileStep

(* The inductive invariant behind the cache. *)
CacheInv ==
    /\ AllocationInv
    /\ CacheCoherent /\ CacheUsed /\ NamedEvents /\ FactsNameRightEntity

LEMMA CacheInvHolds ==
    ASSUME "apply" \notin CommitMayFail
    PROVE  Spec => []CacheInv
<1>1. Init => CacheUsed /\ NamedEvents /\ FactsNameRightEntity /\ CacheCoherent
    BY DEF Init, CacheUsed, Checked, Resolved, NamedEvents, FactsNameRightEntity, CacheCoherent
<1>2. ASSUME AllocationInv, AllocationInv', CacheInv, [Next]_vars PROVE CacheInv'
    <2>1. /\ TypeOK /\ ExclusiveWriter /\ Opened /\ Allocation /\ FreshIsNext
          /\ CacheCoherent /\ CacheUsed /\ NamedEvents /\ FactsNameRightEntity
        BY <1>2 DEF AllocationInv, CacheInv
    <2>2. CacheUsed'
        BY <1>2, <2>1, CacheUsedNext
    <2>3. CacheCoherent'
        BY <1>2, <2>1, CacheNext
    <2>4. NamedEvents' /\ FactsNameRightEntity'
        BY <1>2, <2>1, FactsNext
    <2> QED
        BY <1>2, <2>2, <2>3, <2>4 DEF CacheInv
<1>3. Init /\ AllocationInv => CacheInv
    BY <1>1 DEF CacheInv
<1> QED
    BY <1>2, <1>3, AllocationInvHolds, PTL DEF Spec

(* As long as no COMMIT of an apply fails, a cache that a handle trusts is the
   committed identity table, whatever the other handles committed. *)
THEOREM CacheIsCoherent ==
    ASSUME "apply" \notin CommitMayFail
    PROVE  Spec => []CacheCoherent
BY CacheInvHolds, PTL DEF CacheInv

(* Under the same assumption every committed fact is on the entity its name
   stands for. *)
THEOREM FactsOnNamedEntity ==
    ASSUME "apply" \notin CommitMayFail
    PROVE  Spec => []FactsNameRightEntity
BY CacheInvHolds, PTL DEF CacheInv

-----------------------------------------------------------------------------
(* What a caller was told. *)

LEMMA LogKept ==
    ASSUME TypeOK, [Next]_vars
    PROVE  \A i \in DOMAIN log : i \in DOMAIN log' /\ log'[i] = log[i]
<1>1. CASE UNCHANGED file
    BY <1>1 DEF file
<1>2. ASSUME NEW h \in Handle, Initialize(h)
      PROVE  \A i \in DOMAIN log : i \in DOMAIN log' /\ log'[i] = log[i]
    BY <1>2 DEF Initialize
<1>3. ASSUME NEW c \in Caller, Commit(c)
      PROVE  \A i \in DOMAIN log : i \in DOMAIN log' /\ log'[i] = log[i]
    BY <1>3, LogGrows
<1> QED
    BY <1>1, <1>2, <1>3, FileStep

Durable(c) ==
    reply[c].status \in {"applied", "already_applied"} =>
        \E i \in DOMAIN log : /\ log[i].tx = reply[c].tx
                              /\ log[i].name = req[c].name /\ log[i].op = req[c].op

LEMMA SameReplyDurable ==
    ASSUME TypeOK, [Next]_vars, NEW c \in Caller, Durable(c),
           req'[c] = req[c], reply'[c] = reply[c]
    PROVE  Durable(c)'
BY LogKept DEF Durable

LEMMA DurableNext == TypeOK /\ ReplyDurable /\ [Next]_vars => ReplyDurable'
<1> SUFFICES ASSUME TypeOK, ReplyDurable, [Next]_vars, NEW d \in Caller
             PROVE  Durable(d)'
    BY DEF ReplyDurable, Durable
<1>0. Durable(d)
    BY DEF ReplyDurable, Durable
<1>1. CASE req'[d] = req[d] /\ reply'[d] = reply[d]
    BY <1>0, <1>1, SameReplyDurable
<1>2. CASE reply'[d].status \in {"none", "error"}
    BY <1>2 DEF Durable
<1>3. ASSUME NEW h \in Handle,
             OpenExisting(h) \/ OpenPristine(h) \/ Initialize(h) \/ Read(h)
      PROVE  req'[d] = req[d] /\ reply'[d] = reply[d]
    BY <1>3 DEF OpenExisting, OpenPristine, Initialize, Read, callers
<1>4. ASSUME NEW h \in Handle, Crash(h) PROVE Durable(d)'
    <2>1. req'[d] = req[d] /\ (reply'[d] = reply[d] \/ reply'[d] = NoReply)
        BY <1>4 DEF Crash
    <2> QED
        BY <1>1, <1>2, <2>1 DEF NoReply
<1>5. ASSUME NEW c \in Caller, NEW r \in Requests, Call(c, r) PROVE Durable(d)'
    <2>1. CASE c = d
        BY <1>2, <1>5, <2>1 DEF Call, NoReply, TypeOK
    <2>2. CASE c # d
        BY <1>1, <1>5, <2>2 DEF Call, TypeOK
    <2> QED
        BY <2>1, <2>2
<1>6. ASSUME NEW c \in Caller,
             Lock(c) \/ BeginImmediate(c) \/ CheckRequest(c) \/ Plan(c) \/ Finalize(c)
      PROVE  Durable(d)'
    BY <1>1, <1>6 DEF Lock, BeginImmediate, CheckRequest, Plan, Finalize
<1>7. ASSUME NEW c \in Caller, NEW STATE s, NEW STATE tx, Reply(c, s, tx), req' = req
      PROVE  IF c = d THEN reply'[d] = [status |-> s, tx |-> tx]
             ELSE req'[d] = req[d] /\ reply'[d] = reply[d]
    BY <1>7 DEF Reply, TypeOK
<1>8. ASSUME NEW c \in Caller,
             \/ Busy(c) \/ OperationReused(c) \/ BasisConflict(c)
             \/ CommitFails(c) \/ OperationFails(c)
      PROVE  Durable(d)'
    <2>1. Reply(c, "error", 0) /\ req' = req
        BY <1>8 DEF Busy, OperationReused, BasisConflict, CommitFails, OperationFails, Rollback
    <2>2. CASE c = d
        <3>1. reply'[d] = [status |-> "error", tx |-> 0]
            BY <1>7, <2>1, <2>2
        <3> QED
            BY <1>2, <3>1
    <2> QED
        BY <1>1, <1>7, <2>1, <2>2
<1>9. ASSUME NEW c \in Caller, AlreadyApplied(c) PROVE Durable(d)'
    <2>1. PICK i \in Recorded(req[c].op) :
             /\ log[i].name = req[c].name /\ Reply(c, "already_applied", log[i].tx)
             /\ req' = req /\ UNCHANGED file
        BY <1>9 DEF AlreadyApplied
    <2>2. i \in DOMAIN log /\ log[i].op = req[c].op /\ log' = log
        BY <2>1 DEF Recorded, file
    <2>3. CASE c = d
        <3>1. reply'[d] = [status |-> "already_applied", tx |-> log[i].tx]
            BY <1>7, <2>1, <2>3
        <3>2. reply'[d].tx = log'[i].tx /\ i \in DOMAIN log'
            BY <2>2, <3>1
        <3>3. log'[i].name = req'[d].name /\ log'[i].op = req'[d].op
            BY <2>1, <2>2, <2>3
        <3> QED
            BY <3>2, <3>3 DEF Durable
    <2> QED
        BY <1>1, <1>7, <2>1, <2>3
<1>10. ASSUME NEW c \in Caller, Commit(c) PROVE Durable(d)'
    <2>1. Reply(c, "applied", TxOf(c)) /\ req' = req
        BY <1>10 DEF Commit
    <2>2. CASE c = d
        <3>1. reply'[d] = [status |-> "applied", tx |-> TxOf(c)]
            BY <1>7, <2>1, <2>2
        <3>2. /\ Len(log) + 1 \in DOMAIN log'
              /\ log'[Len(log) + 1] = NewEvent(c)
            BY <1>10, LogGrows
        <3> QED
            BY <2>1, <2>2, <3>1, <3>2, NewEventFields DEF Durable
    <2> QED
        BY <1>1, <1>7, <2>1, <2>2
<1>11. CASE UNCHANGED vars
    BY <1>1, <1>11 DEF vars
<1> QED
    BY <1>1, <1>3, <1>4, <1>5, <1>6, <1>8, <1>9, <1>10, <1>11 DEF Next, Step

(* A caller that was told "applied" or "already applied" finds its own
   request in the log, under the transaction it was told, ever after. *)
THEOREM RepliesAreDurable == Spec => []ReplyDurable
<1>1. Init => ReplyDurable
    BY DEF Init, ReplyDurable, NoReply
<1> QED
    BY <1>1, DurableNext, TypeCorrect, PTL DEF Spec
=============================================================================
