--------------------------- MODULE LedgerProofs ---------------------------
(***************************************************************************)
(* Handles implements Ledger, for any number of handles, callers, names,   *)
(* requests, events and failures, as long as no COMMIT of an apply fails.  *)
(***************************************************************************)
EXTENDS HandlesProofs

-----------------------------------------------------------------------------
(* The refinement mapping on a log whose events are where they should be. *)

(* No two events have one number. *)
Numbered(events) == \A i, j \in DOMAIN events : events[i].tx = events[j].tx => i = j

(* Every event but the genesis is on the one entity its name stands for. *)
Named(events, table) ==
    \A i \in DOMAIN events :
        IF events[i].name = None THEN events[i].id = 0
        ELSE /\ events[i].name \in Name /\ events[i].id # 0
             /\ \A n \in Name : table[n] = events[i].id <=> n = events[i].name

Entry == [name : Name \cup {None}, op : Nat]

LEMMA PositionOf ==
    ASSUME NEW events, Numbered(events), NEW i \in DOMAIN events
    PROVE  Position(events, events[i].tx) = i
BY DEF Numbered, Position

LEMMA NameOfEvent ==
    ASSUME NEW events, NEW table, Named(events, table), NEW i \in DOMAIN events
    PROVE  NameOf(table, events[i].id) = events[i].name
<1>1. CASE events[i].name = None
    BY <1>1 DEF Named, NameOf
<1>2. CASE events[i].name # None
    <2>1. /\ events[i].name \in Name /\ events[i].id # 0
          /\ \A n \in Name : table[n] = events[i].id <=> n = events[i].name
        BY <1>2 DEF Named
    <2> QED
        BY <2>1 DEF NameOf
<1> QED
    BY <1>1, <1>2

LEMMA EntryOf ==
    ASSUME NEW events \in Seq(EventSet), NEW table, Named(events, table)
    PROVE  /\ Entries(events, table) \in Seq(Entry)
           /\ Len(Entries(events, table)) = Len(events)
           /\ DOMAIN Entries(events, table) = DOMAIN events
           /\ DOMAIN events = 1..Len(events) /\ Len(events) \in Nat
           /\ \A i \in DOMAIN events :
                 Entries(events, table)[i] = [name |-> events[i].name, op |-> events[i].op]
<1>1. DOMAIN events = 1..Len(events) /\ Len(events) \in Nat
    BY LenProperties
<1>2. \A i \in DOMAIN events : events[i].name \in Name \cup {None} /\ events[i].op \in Nat
    <2>1. \A i \in DOMAIN events : events[i] \in EventSet
        BY <1>1, ElementOfSeq
    <2> QED
        BY <2>1 DEF EventSet
<1>3. \A i \in DOMAIN events :
         Entries(events, table)[i] = [name |-> events[i].name, op |-> events[i].op]
    BY NameOfEvent DEF Entries
<1>4. Entries(events, table) \in [1..Len(events) -> Entry]
    <2>1. \A i \in 1..Len(events) : Entries(events, table)[i] \in Entry
        <3> TAKE i \in 1..Len(events)
        <3>1. Entries(events, table)[i] = [name |-> events[i].name, op |-> events[i].op]
            BY <1>1, <1>3
        <3>2. events[i].name \in Name \cup {None} /\ events[i].op \in Nat
            BY <1>1, <1>2
        <3> QED
            BY <3>1, <3>2 DEF Entry
    <2>2. Entries(events, table) = [i \in 1..Len(events) |-> Entries(events, table)[i]]
        BY <1>1 DEF Entries
    <2> HIDE DEF Entries
    <2> QED
        BY <2>1, <2>2
<1>5. Entries(events, table) \in Seq(Entry)
    BY <1>1, <1>4, SeqDef
<1>6. Len(Entries(events, table)) = Len(events)
    BY <1>1, <1>4, <1>5, LenProperties
<1>7. DOMAIN Entries(events, table) = DOMAIN events
    BY DEF Entries
<1> QED
    BY <1>1, <1>3, <1>5, <1>6, <1>7

-----------------------------------------------------------------------------
(* The invariant of the simulation. *)

(* The genesis is on no entity. *)
Nameless == \A i \in DOMAIN log : log[i].name = None => log[i].id = 0

(* A guarded call holds the number of a transaction of the log. *)
BasisRecorded ==
    \A c \in Caller : basis[c] # None => \E i \in DOMAIN log : log[i].tx = basis[c]

LEMMA NamelessNext == TypeOK /\ Nameless /\ [Next]_vars => Nameless'
<1> SUFFICES ASSUME TypeOK, Nameless, [Next]_vars PROVE Nameless'
    OBVIOUS
<1>1. CASE UNCHANGED file
    BY <1>1 DEF file, Nameless
<1>2. ASSUME NEW h \in Handle, Initialize(h) PROVE Nameless'
    <2>1. log' = <<GenesisEvent>>
        BY <1>2, LogStarts
    <2> QED
        BY <2>1 DEF Nameless, GenesisEvent
<1>3. ASSUME NEW c \in Caller, Commit(c) PROVE Nameless'
    <2>1. log'[Len(log) + 1].name = req[c].name
        BY <1>3, LogGrows, NewEventFields
    <2>2. req[c].name # None
        BY <1>3, RunningRequest, NoneIsFresh DEF Commit
    <2>3. \A i \in DOMAIN log' : i \in DOMAIN log \/ i = Len(log) + 1
        BY <1>3, LogGrows
    <2>4. \A i \in DOMAIN log : log'[i] = log[i]
        BY <1>3, LogGrows
    <2> QED
        BY <2>1, <2>2, <2>3, <2>4 DEF Nameless
<1> QED
    BY <1>1, <1>2, <1>3, FileStep

(* Which steps set the basis a caller holds. *)
LEMMA BasisStep ==
    ASSUME TypeOK, [Next]_vars, NEW d \in Caller
    PROVE  \/ basis'[d] = basis[d] \/ basis'[d] = None
           \/ basis'[d] = Basis /\ log' = log /\ status[HandleOf[d]] = "open"
<1>1. ASSUME NEW h \in Handle,
             OpenExisting(h) \/ OpenPristine(h) \/ Initialize(h) \/ Read(h)
      PROVE  basis'[d] = basis[d]
    BY <1>1 DEF OpenExisting, OpenPristine, Initialize, Read, callers
<1>2. ASSUME NEW h \in Handle, Crash(h) PROVE basis'[d] = basis[d] \/ basis'[d] = None
    BY <1>2 DEF Crash
<1>3. ASSUME NEW c \in Caller, NEW r \in Requests, Call(c, r)
      PROVE  \/ basis'[d] = basis[d] \/ basis'[d] = None
             \/ basis'[d] = Basis /\ log' = log /\ status[HandleOf[d]] = "open"
    BY <1>3 DEF Call, TypeOK, file
<1>4. ASSUME NEW c \in Caller,
             Lock(c) \/ BeginImmediate(c) \/ CheckRequest(c) \/ Plan(c) \/ Finalize(c)
      PROVE  basis'[d] = basis[d]
    BY <1>4 DEF Lock, BeginImmediate, CheckRequest, Plan, Finalize
<1>5. ASSUME NEW c \in Caller, Return(c) PROVE basis'[d] = basis[d] \/ basis'[d] = None
    BY <1>5 DEF Return, TypeOK
<1>6. ASSUME NEW c \in Caller,
             \/ Busy(c) \/ AlreadyApplied(c) \/ OperationReused(c) \/ BasisConflict(c)
             \/ Commit(c) \/ CommitFails(c) \/ OperationFails(c)
      PROVE  Return(c)
    BY <1>6 DEF Busy, AlreadyApplied, OperationReused, BasisConflict, Commit, CommitFails,
                OperationFails, Rollback
<1>7. CASE UNCHANGED vars
    BY <1>7 DEF vars
<1> QED
    BY <1>1, <1>2, <1>3, <1>4, <1>5, <1>6, <1>7 DEF Next, Step

LEMMA BasisNext == TypeOK /\ Opened /\ BasisRecorded /\ [Next]_vars => BasisRecorded'
<1> SUFFICES ASSUME TypeOK, Opened, BasisRecorded, [Next]_vars,
                    NEW d \in Caller, basis'[d] # None
             PROVE  \E i \in DOMAIN log' : log'[i].tx = basis'[d]
    BY DEF BasisRecorded
<1>1. CASE basis'[d] = basis[d]
    BY <1>1, LogKept DEF BasisRecorded
<1>2. CASE basis'[d] = Basis /\ log' = log /\ status[HandleOf[d]] = "open"
    <2>1. log # <<>> /\ log \in Seq(EventSet)
        BY <1>2, HandleOfAssumption DEF Opened, TypeOK
    <2>2. Len(log) \in DOMAIN log
        BY <2>1, EmptySeq, LenProperties
    <2> QED
        BY <1>2, <2>1, <2>2 DEF Basis
<1> QED
    BY <1>1, <1>2, BasisStep

(* Everything the simulation relies on: what the receipts and the cache
   establish, read as facts about the mapping. *)
Inv ==
    /\ TypeOK /\ Opened /\ RequestChecked /\ ReplyDurable
    /\ Nameless /\ BasisRecorded
    /\ Numbered(log) /\ Named(log, ids)

LEMMA InvHolds ==
    ASSUME "apply" \notin CommitMayFail
    PROVE  Spec => []Inv
<1>1. Init => Nameless /\ BasisRecorded
    BY DEF Init, Nameless, BasisRecorded
<1>2. CacheInv => Numbered(log)
    <2> SUFFICES ASSUME CacheInv PROVE Numbered(log)
        OBVIOUS
    <2>1. TypeOK /\ IdsDistinct
        BY DEF CacheInv, AllocationInv
    <2>2. log \in Seq(EventSet)
        BY <2>1 DEF TypeOK
    <2>3. DOMAIN log = 1..Len(log) /\ Len(log) \in Nat
        BY <2>2, LenProperties
    <2>4. \A i \in DOMAIN log : log[i] \in EventSet
        BY <2>2, <2>3, ElementOfSeq
    <2>5. \A i \in DOMAIN log : i \in Nat /\ log[i].tx \in Nat
        BY <2>3, <2>4 DEF EventSet
    <2>6. \A i, j \in DOMAIN log : i < j => log[i].tx < log[j].tx
        BY <2>1 DEF IdsDistinct
    <2> QED
        BY <2>5, <2>6 DEF Numbered
<1>3. CacheInv /\ Nameless => Named(log, ids)
    <2> SUFFICES ASSUME CacheInv, Nameless, NEW i \in DOMAIN log, log[i].name # None
                 PROVE  /\ log[i].name \in Name /\ log[i].id # 0
                        /\ \A n \in Name : ids[n] = log[i].id <=> n = log[i].name
        BY DEF Named, Nameless
    <2>1. TypeOK /\ IdsDistinct /\ FactsNameRightEntity /\ NamedEvents
        BY DEF CacheInv, AllocationInv
    <2>2. log \in Seq(EventSet)
        BY <2>1 DEF TypeOK
    <2>3. log[i] \in EventSet
        BY <2>2, LenProperties, ElementOfSeq
    <2>4. log[i].name \in Name
        BY <2>3 DEF EventSet
    <2>5. log[i].id # 0 /\ log[i].id = ids[log[i].name]
        BY <2>1 DEF FactsNameRightEntity, NamedEvents
    <2> QED
        BY <2>1, <2>4, <2>5 DEF IdsDistinct
<1>4. CacheInv /\ ReceiptInv /\ ReplyDurable /\ Nameless /\ BasisRecorded => Inv
    BY <1>2, <1>3 DEF Inv, CacheInv, AllocationInv, ReceiptInv
<1>5. CacheInv => TypeOK /\ Opened
    BY DEF CacheInv, AllocationInv
<1>6. Spec => []CacheInv
    BY CacheInvHolds
<1>7. Spec => []ReceiptInv
    BY ReceiptInvHolds
<1>8. Spec => []ReplyDurable
    BY RepliesAreDurable
<1> QED
    BY <1>1, <1>4, <1>5, <1>6, <1>7, <1>8, NamelessNext, BasisNext, PTL DEF Spec

-----------------------------------------------------------------------------
(* Every step of the handles is a step of the ledger, or leaves it alone. *)

LEMMA EntriesKept == UNCHANGED file => Entries(log, ids)' = Entries(log, ids)
BY DEF file

LEMMA GuardKept ==
    ASSUME Inv, Inv', [Next]_vars, NEW d \in Caller, basis'[d] = basis[d]
    PROVE  Guards'[d] = Guards[d]
<1>1. CASE basis[d] = None
    BY <1>1 DEF Guards
<1>2. CASE basis[d] # None
    <2>1. PICK i \in DOMAIN log : log[i].tx = basis[d]
        BY <1>2 DEF Inv, BasisRecorded
    <2>2. i \in DOMAIN log' /\ log'[i] = log[i]
        BY LogKept DEF Inv
    <2>3. Position(log, basis[d]) = i
        BY <2>1, PositionOf DEF Inv
    <2>4. Position(log', basis'[d]) = i
        <3>1. Numbered(log') /\ log'[i].tx = basis'[d]
            BY <2>1, <2>2 DEF Inv
        <3>2. Position(log', log'[i].tx) = i
            BY <2>2, <3>1, PositionOf
        <3> QED
            BY <3>1, <3>2
    <2> QED
        BY <1>2, <2>3, <2>4 DEF Guards
<1> QED
    BY <1>1, <1>2

LEMMA AnswerKept ==
    ASSUME Inv, Inv', [Next]_vars, NEW d \in Caller, reply'[d] = reply[d]
    PROVE  Answers'[d] = Answers[d]
<1>1. CASE reply[d].status \notin {"applied", "already_applied"}
    BY <1>1 DEF Answers
<1>2. CASE reply[d].status \in {"applied", "already_applied"}
    <2>1. PICK i \in DOMAIN log : log[i].tx = reply[d].tx
        BY <1>2 DEF Inv, ReplyDurable
    <2>2. i \in DOMAIN log' /\ log'[i] = log[i]
        BY LogKept DEF Inv
    <2>3. Position(log, reply[d].tx) = i
        BY <2>1, PositionOf DEF Inv
    <2>4. Position(log', reply'[d].tx) = i
        <3>1. Numbered(log') /\ log'[i].tx = reply'[d].tx
            BY <2>1, <2>2 DEF Inv
        <3>2. Position(log', log'[i].tx) = i
            BY <2>2, <3>1, PositionOf
        <3> QED
            BY <3>1, <3>2
    <2> QED
        BY <1>2, <2>3, <2>4 DEF Answers
<1> QED
    BY <1>1, <1>2

(* The mapped variables are functions on the callers. *)
LEMMA AbstractFunctions ==
    /\ Waiting = [c \in Caller |-> Waiting[c]] /\ Guards = [c \in Caller |-> Guards[c]]
    /\ Answers = [c \in Caller |-> Answers[c]]
    /\ Waiting' = [c \in Caller |-> Waiting'[c]] /\ Guards' = [c \in Caller |-> Guards'[c]]
    /\ Answers' = [c \in Caller |-> Answers'[c]]
BY DEF Waiting, Guards, Answers

(* A step that keeps what the callers hold and whether they wait. *)
LEMMA CallersKept ==
    ASSUME Inv, Inv', [Next]_vars, basis' = basis, reply' = reply, Waiting' = Waiting
    PROVE  Guards' = Guards /\ Answers' = Answers
<1>1. \A d \in Caller : Guards'[d] = Guards[d] /\ Answers'[d] = Answers[d]
    BY GuardKept, AnswerKept
<1> QED
    BY <1>1, AbstractFunctions

LEMMA QuietStep ==
    ASSUME Inv, Inv', [Next]_vars, UNCHANGED <<file, req, basis, reply>>, Waiting' = Waiting
    PROVE  UNCHANGED Promise!vars
BY CallersKept, EntriesKept DEF Promise!vars

(* A call that ends, at the step of caller c. *)
LEMMA EndsCall ==
    ASSUME Inv, Inv', [Next]_vars, NEW c \in Caller, Return(c), req' = req,
           pc[c] # "idle", NEW STATE s, NEW STATE tx, Reply(c, s, tx)
    PROVE  /\ Waiting[c]
           /\ Waiting' = [Waiting EXCEPT ![c] = FALSE]
           /\ Guards' = [Guards EXCEPT ![c] = None]
           /\ Answers' = [Answers EXCEPT ![c] =
                  [status |-> s,
                   at |-> IF s \in {"applied", "already_applied"}
                          THEN Position(log', tx) ELSE 0]]
<1>1. pc \in [Caller -> Label] /\ pc' = [pc EXCEPT ![c] = "idle"]
    BY DEF Inv, TypeOK, Return, Goto
<1>2. basis \in [Caller -> Nat \cup {None}] /\ basis' = [basis EXCEPT ![c] = None]
    BY DEF Inv, TypeOK, Return
<1>3. DOMAIN reply = Caller /\ reply' = [reply EXCEPT ![c] = [status |-> s, tx |-> tx]]
    BY DEF Inv, TypeOK, Reply
<1>4. Waiting[c] /\ Waiting' = [Waiting EXCEPT ![c] = FALSE]
    <2>1. Waiting[c] /\ ~Waiting'[c]
        BY <1>1 DEF Waiting
    <2>2. \A d \in Caller : d # c => pc'[d] = pc[d]
        BY <1>1
    <2>3. \A d \in Caller : d # c => Waiting'[d] = Waiting[d]
        BY <2>2, Zenon DEF Waiting
    <2>4. Waiting'[c] = FALSE
        BY <1>1 DEF Waiting
    <2> HIDE DEF Waiting
    <2> QED
        BY <2>1, <2>3, <2>4, AbstractFunctions
<1>5. Guards' = [Guards EXCEPT ![c] = None]
    <2>1. Guards'[c] = None
        BY <1>2 DEF Guards
    <2>2. \A d \in Caller : d # c => Guards'[d] = Guards[d]
        BY <1>2, GuardKept
    <2> QED
        BY <2>1, <2>2, AbstractFunctions
<1>6. reply'[c].status = s /\ reply'[c].tx = tx
    BY <1>3
<1>7. Answers'[c] = [status |-> s, at |-> IF s \in {"applied", "already_applied"}
                                          THEN Position(log', tx) ELSE 0]
    BY <1>6 DEF Answers
<1>8. \A d \in Caller : d # c => Answers'[d] = Answers[d]
    BY <1>3, AnswerKept
<1> QED
    BY <1>4, <1>5, <1>7, <1>8, AbstractFunctions

LEMMA SimulateInitialize ==
    ASSUME Inv, Inv', [Next]_vars, NEW h \in Handle, Initialize(h)
    PROVE  Promise!Found
<1>1. log = <<>> /\ log' = <<GenesisEvent>>
    BY LogStarts DEF Inv
<1>2. UNCHANGED <<pc, req, basis, reply>>
    BY DEF Initialize, callers
<1>3. Waiting' = Waiting /\ Guards' = Guards /\ Answers' = Answers
    BY <1>2, CallersKept DEF Waiting
<1>4. Entries(log, ids) = <<>>
    BY <1>1 DEF Entries
<1>5. Entries(log, ids)' = <<Promise!Foundation>>
    <2>1. Entries(log', ids')[1] = Promise!Foundation
        BY <1>1 DEF Entries, NameOf, GenesisEvent, Promise!Foundation
    <2>2. Entries(log', ids') = [i \in {1} |-> Entries(log', ids')[i]]
        BY <1>1 DEF Entries
    <2> HIDE DEF Entries
    <2>3. Entries(log', ids') = <<Promise!Foundation>>
        BY <2>1, <2>2
    <2> QED
        BY <2>3
<1> QED
    BY <1>2, <1>3, <1>4, <1>5 DEF Promise!Found

LEMMA SimulateCall ==
    ASSUME Inv, Inv', [Next]_vars, NEW c \in Caller, NEW r \in Requests, Call(c, r)
    PROVE  Promise!Ask(c, r)
<1>1. /\ pc[c] = "idle" /\ UNCHANGED file /\ status[HandleOf[c]] = "open"
      /\ pc' = [pc EXCEPT ![c] = "lock"] /\ req' = [req EXCEPT ![c] = r]
      /\ basis' = [basis EXCEPT ![c] = IF r.guarded THEN Basis ELSE None]
      /\ reply' = [reply EXCEPT ![c] = NoReply]
    BY DEF Call, Goto
<1>2. /\ DOMAIN pc = Caller /\ DOMAIN basis = Caller /\ DOMAIN reply = Caller
      /\ log \in Seq(EventSet)
    BY DEF Inv, TypeOK
<1>3. log # <<>> /\ Len(log) \in DOMAIN log
    <2>1. log # <<>>
        BY <1>1, HandleOfAssumption DEF Inv, Opened
    <2> QED
        BY <1>2, <2>1, EmptySeq, LenProperties
<1>4. Entries(log, ids)' = Entries(log, ids) /\ Len(Entries(log, ids)) = Len(log)
    BY <1>1, <1>2, EntriesKept, EntryOf DEF Inv
<1>5. Entries(log, ids) # <<>>
    <2>1. DOMAIN Entries(log, ids) = DOMAIN log
        BY DEF Entries
    <2> QED
        BY <1>3, <2>1
<1>6. ~Waiting[c] /\ Waiting' = [Waiting EXCEPT ![c] = TRUE]
    <2>1. ~Waiting[c]
        BY <1>1 DEF Waiting
    <2>2. \A d \in Caller : d # c => pc'[d] = pc[d]
        BY <1>1, <1>2
    <2>3. \A d \in Caller : d # c => Waiting'[d] = Waiting[d]
        BY <2>2, Zenon DEF Waiting
    <2>4. Waiting'[c] = TRUE
        BY <1>1, <1>2 DEF Waiting
    <2> QED
        BY <2>1, <2>3, <2>4, AbstractFunctions
<1>7. Guards'[c] = IF r.guarded THEN Len(Entries(log, ids)) ELSE None
    <2>1. CASE r.guarded
        <3>1. basis'[c] = log[Len(log)].tx /\ basis'[c] # None /\ log' = log
            <4>1. basis'[c] = Basis
                BY <1>1, <1>2, <2>1
            <4> QED
                BY <1>1, <1>3, <4>1, BasisType, NoneIsFresh DEF Basis, Inv, file
        <3>2. Position(log, log[Len(log)].tx) = Len(log)
            BY <1>3, PositionOf DEF Inv
        <3> QED
            BY <1>4, <2>1, <3>1, <3>2 DEF Guards
    <2>2. CASE ~r.guarded
        BY <1>1, <1>2, <2>2 DEF Guards
    <2> QED
        BY <2>1, <2>2
<1>8. Guards' = [Guards EXCEPT ![c] = IF r.guarded THEN Len(Entries(log, ids)) ELSE None]
    <2>1. \A d \in Caller : d # c => Guards'[d] = Guards[d]
        BY <1>1, <1>2, GuardKept
    <2> QED
        BY <1>7, <2>1, AbstractFunctions
<1>9. Answers' = [Answers EXCEPT ![c] = Promise!Silence]
    <2>1. Answers'[c] = Promise!Silence
        BY <1>1, <1>2 DEF Answers, NoReply, Promise!Silence
    <2>2. \A d \in Caller : d # c => Answers'[d] = Answers[d]
        BY <1>1, <1>2, AnswerKept
    <2> QED
        BY <2>1, <2>2, AbstractFunctions
<1> QED
    BY <1>1, <1>4, <1>5, <1>6, <1>8, <1>9 DEF Promise!Ask

LEMMA SimulateRefusal ==
    ASSUME Inv, Inv', [Next]_vars, NEW c \in Caller,
           \/ Busy(c) \/ OperationReused(c) \/ BasisConflict(c)
           \/ CommitFails(c) \/ OperationFails(c)
    PROVE  Promise!Refuse(c)
<1>1. /\ Return(c) /\ req' = req /\ pc[c] # "idle" /\ UNCHANGED file
      /\ Reply(c, "error", 0)
    BY DEF Busy, OperationReused, BasisConflict, CommitFails, OperationFails, Rollback
<1>2. /\ Waiting[c] /\ Waiting' = [Waiting EXCEPT ![c] = FALSE]
      /\ Guards' = [Guards EXCEPT ![c] = None]
      /\ Answers' = [Answers EXCEPT ![c] = [status |-> "error", at |-> 0]]
    BY <1>1, EndsCall
<1> QED
    BY <1>1, <1>2, EntriesKept DEF Promise!Refuse, Promise!Answer

LEMMA SimulateRepeat ==
    ASSUME Inv, Inv', [Next]_vars, NEW c \in Caller, AlreadyApplied(c)
    PROVE  Promise!Repeat(c)
<1>1. PICK i \in Recorded(req[c].op) :
         /\ log[i].name = req[c].name /\ Reply(c, "already_applied", log[i].tx)
         /\ Return(c) /\ req' = req /\ pc[c] # "idle" /\ UNCHANGED file
    BY DEF AlreadyApplied
<1>2. i \in DOMAIN log /\ req[c].op # 0 /\ log[i].op = req[c].op /\ log' = log
    BY <1>1 DEF Recorded, file
<1>3. Position(log', log[i].tx) = i
    BY <1>2, PositionOf DEF Inv
<1>4. /\ Waiting[c] /\ Waiting' = [Waiting EXCEPT ![c] = FALSE]
      /\ Guards' = [Guards EXCEPT ![c] = None]
      /\ Answers' = [Answers EXCEPT ![c] = [status |-> "already_applied", at |-> i]]
    BY <1>1, <1>3, EndsCall
<1>5. /\ DOMAIN Entries(log, ids) = DOMAIN log
      /\ Entries(log, ids)[i] = [name |-> req[c].name, op |-> req[c].op]
    BY <1>1, <1>2, EntryOf DEF Inv, TypeOK
<1>6. Promise!Answer(c, "already_applied", i)
    BY <1>1, <1>4 DEF Promise!Answer
<1> QED
    BY <1>1, <1>2, <1>4, <1>5, <1>6, EntriesKept DEF Promise!Repeat

(* COMMIT is the instant at which a request takes effect. *)
LEMMA SimulateCommit ==
    ASSUME Inv, Inv', [Next]_vars, NEW c \in Caller, Commit(c)
    PROVE  Promise!Apply(c)
<1> DEFINE old == Entries(log, ids)
           new == Entries(log', ids')
           entry == [name |-> req[c].name, op |-> req[c].op]
<1>1. /\ Return(c) /\ req' = req /\ pc[c] = "commit" /\ Reply(c, "applied", TxOf(c))
    BY DEF Commit
<1>2. /\ Len(log) \in Nat
      /\ DOMAIN log = 1..Len(log) /\ DOMAIN log' = 1..(Len(log) + 1)
      /\ log'[Len(log) + 1] = NewEvent(c)
      /\ \A i \in 1..Len(log) : log'[i] = log[i]
    BY LogGrows DEF Inv
<1>3. log \in Seq(EventSet) /\ log' \in Seq(EventSet)
    BY DEF Inv, TypeOK
<1>4. /\ old \in Seq(Entry) /\ Len(old) = Len(log) /\ DOMAIN old = DOMAIN log
      /\ \A i \in DOMAIN log : old[i] = [name |-> log[i].name, op |-> log[i].op]
    BY <1>3, EntryOf DEF Inv
<1>5. /\ new \in Seq(Entry) /\ Len(new) = Len(log')
      /\ \A i \in DOMAIN log' : new[i] = [name |-> log'[i].name, op |-> log'[i].op]
    BY <1>3, EntryOf DEF Inv
<1>6. new = Append(old, entry)
    <2>1. Len(log') = Len(log) + 1
        BY <1>2, <1>3, LenProperties
    <2>2. entry \in Entry
        BY RequestFields DEF Inv, Entry
    <2> HIDE DEF old, new, entry
    <2>3. /\ Append(old, entry) \in Seq(Entry) /\ Len(Append(old, entry)) = Len(log) + 1
          /\ Append(old, entry)[Len(log) + 1] = entry
          /\ \A i \in 1..Len(log) : Append(old, entry)[i] = old[i]
        BY <1>4, <2>2, AppendProperties
    <2>4. new[Len(log) + 1] = entry
        BY <1>2, <1>5, NewEventFields DEF entry
    <2>5. \A i \in 1..Len(log) : new[i] = old[i]
        BY <1>2, <1>4, <1>5
    <2>6. \A i \in 1..(Len(log) + 1) : new[i] = Append(old, entry)[i]
        BY <1>2, <2>3, <2>4, <2>5
    <2> QED
        BY <1>5, <2>1, <2>3, <2>6, SeqEqual
<1>7. Position(log', TxOf(c)) = Len(log) + 1
    <2>1. Len(log) + 1 \in DOMAIN log' /\ log'[Len(log) + 1].tx = TxOf(c)
        BY <1>2, NewEventFields
    <2>2. Numbered(log')
        BY DEF Inv
    <2> QED
        BY <2>1, <2>2, PositionOf
<1>8. /\ Waiting[c] /\ Waiting' = [Waiting EXCEPT ![c] = FALSE]
      /\ Guards' = [Guards EXCEPT ![c] = None]
      /\ Answers' = [Answers EXCEPT ![c] = [status |-> "applied", at |-> Len(old) + 1]]
    <2> HIDE DEF old
    <2> QED
        BY <1>1, <1>4, <1>7, EndsCall
<1>9. Recorded(req[c].op) = {} /\ basis[c] \in {None, Basis}
    BY <1>1 DEF Inv, RequestChecked, Checked
<1>10. req[c].op # 0 => \A i \in DOMAIN old : old[i].op # req[c].op
    <2> HIDE DEF old
    <2> QED
        BY <1>4, <1>9 DEF Recorded
<1>11. Guards[c] \in {None, Len(old)}
    <2>1. CASE basis[c] = None
        BY <2>1 DEF Guards
    <2>2. CASE basis[c] # None
        <3>1. Len(log) \in DOMAIN log /\ basis[c] = log[Len(log)].tx
            <4>1. log # <<>>
                BY <1>1, HandleOfAssumption DEF Inv, Opened
            <4> QED
                BY <1>3, <1>9, <2>2, <4>1, EmptySeq, LenProperties DEF Basis
        <3>2. Position(log, basis[c]) = Len(log)
            BY <3>1, PositionOf DEF Inv
        <3> HIDE DEF old
        <3> QED
            BY <1>4, <2>2, <3>2 DEF Guards
    <2> QED
        BY <2>1, <2>2
<1> QED
    BY <1>1, <1>6, <1>8, <1>10, <1>11 DEF Promise!Apply, Promise!Answer

LEMMA SimulateCrash ==
    ASSUME Inv, Inv', [Next]_vars, NEW h \in Handle, Crash(h)
    PROVE  Promise!Lose({c \in Caller : HandleOf[c] = h})
<1> DEFINE dead == {c \in Caller : HandleOf[c] = h}
<1>1. /\ UNCHANGED file /\ req' = req
      /\ pc' = [c \in Caller |-> IF c \in dead THEN "idle" ELSE pc[c]]
      /\ reply' = [c \in Caller |-> IF c \in dead THEN NoReply ELSE reply[c]]
      /\ basis' = [c \in Caller |-> IF c \in dead THEN None ELSE basis[c]]
    BY DEF Crash
<1> HIDE DEF dead
<1>2. Waiting' = [c \in Caller |-> Waiting[c] /\ c \notin dead]
    <2>1. \A c \in Caller : pc'[c] = IF c \in dead THEN "idle" ELSE pc[c]
        BY <1>1
    <2>2. \A c \in Caller : (pc'[c] # "idle") = (pc[c] # "idle" /\ c \notin dead)
        BY <2>1
    <2>3. \A c \in Caller : Waiting[c] = (pc[c] # "idle")
        BY Zenon DEF Waiting
    <2>4. Waiting' = [c \in Caller |-> pc'[c] # "idle"]
        BY DEF Waiting
    <2> QED
        BY <2>2, <2>3, <2>4, Zenon
<1>3. Guards' = [c \in Caller |-> IF c \in dead THEN None ELSE Guards[c]]
    <2>1. \A c \in Caller : c \in dead => Guards'[c] = None
        BY <1>1 DEF Guards
    <2>2. \A c \in Caller : c \notin dead => Guards'[c] = Guards[c]
        BY <1>1, GuardKept
    <2> QED
        BY <2>1, <2>2, AbstractFunctions
<1>4. Answers' = [c \in Caller |-> IF c \in dead THEN Promise!Silence ELSE Answers[c]]
    <2>1. \A c \in Caller : c \in dead => Answers'[c] = Promise!Silence
        BY <1>1 DEF Answers, NoReply, Promise!Silence
    <2>2. \A c \in Caller : c \notin dead => Answers'[c] = Answers[c]
        BY <1>1, AnswerKept
    <2> QED
        BY <2>1, <2>2, AbstractFunctions
<1>5. Promise!Lose(dead)
    BY <1>1, <1>2, <1>3, <1>4, EntriesKept DEF Promise!Lose
<1> QED
    BY <1>5 DEF dead

LEMMA StepSimulation ==
    ASSUME Inv, Inv', [Next]_vars
    PROVE  [Promise!Next]_(Promise!vars)
<1>1. ASSUME NEW h \in Handle, OpenExisting(h) \/ OpenPristine(h) \/ Read(h)
      PROVE  UNCHANGED Promise!vars
    <2>1. UNCHANGED <<file, pc, req, basis, reply>>
        BY <1>1 DEF OpenExisting, OpenPristine, Read, callers
    <2> QED
        BY <2>1, QuietStep DEF Waiting
<1>2. ASSUME NEW h \in Handle, Initialize(h) PROVE Promise!Next
    BY <1>2, SimulateInitialize DEF Promise!Next
<1>3. ASSUME NEW h \in Handle, Crash(h) PROVE Promise!Next
    <2>1. {c \in Caller : HandleOf[c] = h} \in SUBSET Caller
        OBVIOUS
    <2> QED
        BY <1>3, <2>1, SimulateCrash DEF Promise!Next
<1>4. ASSUME NEW c \in Caller, NEW r \in Requests, Call(c, r) PROVE Promise!Next
    BY <1>4, SimulateCall DEF Promise!Next
<1>5. ASSUME NEW c \in Caller,
             Lock(c) \/ BeginImmediate(c) \/ CheckRequest(c) \/ Plan(c) \/ Finalize(c)
      PROVE  UNCHANGED Promise!vars
    <2>1. UNCHANGED <<file, req, basis, reply>> /\ pc[c] # "idle"
        BY <1>5 DEF Lock, BeginImmediate, CheckRequest, Plan, Finalize
    <2>2. \E label \in Label \ {"idle"} : pc' = [pc EXCEPT ![c] = label]
        BY <1>5 DEF Lock, BeginImmediate, CheckRequest, Plan, Finalize, Goto, Label
    <2>3. \A d \in Caller : (pc'[d] # "idle") = (pc[d] # "idle")
        BY <2>1, <2>2 DEF Inv, TypeOK
    <2>4. Waiting' = Waiting
        BY <2>3, Zenon DEF Waiting
    <2> QED
        BY <2>1, <2>4, QuietStep
<1>6. ASSUME NEW c \in Caller,
             \/ Busy(c) \/ OperationReused(c) \/ BasisConflict(c)
             \/ CommitFails(c) \/ OperationFails(c)
      PROVE  Promise!Next
    BY <1>6, SimulateRefusal DEF Promise!Next
<1>7. ASSUME NEW c \in Caller, AlreadyApplied(c) PROVE Promise!Next
    BY <1>7, SimulateRepeat DEF Promise!Next
<1>8. ASSUME NEW c \in Caller, Commit(c) PROVE Promise!Next
    BY <1>8, SimulateCommit DEF Promise!Next
<1>9. CASE UNCHANGED vars
    <2>1. UNCHANGED <<file, pc, req, basis, reply>>
        BY <1>9 DEF vars, file
    <2> QED
        BY <2>1, QuietStep DEF Waiting
<1> QED
    BY <1>1, <1>2, <1>3, <1>4, <1>5, <1>6, <1>7, <1>8, <1>9 DEF Next, Step

(* Refinement: however many processes, goroutines, retries, failed commits
   and crashes there are, what callers see of the file is a ledger in which
   every request takes effect at one instant, its COMMIT, or never, as long
   as no COMMIT of an apply fails (the case the code gets wrong). *)
THEOREM LedgerImplemented ==
    ASSUME "apply" \notin CommitMayFail
    PROVE  Spec => ImplementsLedger
<1>1. Init => Promise!Init
    <2> SUFFICES ASSUME Init PROVE Promise!Init
        OBVIOUS
    <2>1. Entries(log, ids) = <<>>
        BY DEF Init, Entries
    <2>2. Waiting = [c \in Caller |-> FALSE]
        BY DEF Init, Waiting
    <2>3. Guards = [c \in Caller |-> None]
        BY DEF Init, Guards
    <2>4. Answers = [c \in Caller |-> Promise!Silence]
        BY DEF Init, Answers, NoReply, Promise!Silence
    <2> QED
        BY <2>1, <2>2, <2>3, <2>4 DEF Init, Promise!Init
<1>2. Inv /\ Inv' /\ [Next]_vars => [Promise!Next]_(Promise!vars)
    BY StepSimulation
<1>3. Spec => []Inv
    BY InvHolds
<1> QED
    BY <1>1, <1>2, <1>3, PTL DEF Spec, ImplementsLedger, Promise!Spec
=============================================================================
