------------------------------- MODULE Follow -------------------------------
(***************************************************************************)
(* The goroutine behind Follow: it polls the ids of committed transactions *)
(* in batches, reads each record in a read transaction of its own and      *)
(* hands it over on an unbuffered channel, while writers commit, imports   *)
(* commit several transactions at once and excisions redact old payloads.  *)
(***************************************************************************)
EXTENDS Naturals, Sequences, FiniteSets

CONSTANTS BatchSize,  \* followBatchSize
          MaxTx       \* bound: transactions in the log

ASSUME BatchAssumption == BatchSize \in Nat \ {0}
ASSUME MaxTxAssumption == MaxTx \in Nat

VARIABLES
    log,       \* log[t]: the excision that redacted transaction t, or 0
    pc,        \* "poll", "read", "send", "wait" or "closed"
    since,     \* the last transaction handed over
    batch,     \* ids of the current batch not yet handled
    more,      \* whether the batch was a full one
    record,    \* the record read last: its transaction and whether it is full
    received   \* what the consumer received, with the basis at that moment

vars == <<log, pc, since, batch, more, record, received>>

Basis == Len(log)
NoRecord == [tx |-> 0, full |-> FALSE]

(* The genesis transaction is before the cursor and is not followed. *)
Init ==
    /\ log = <<>>
    /\ pc = "poll"
    /\ since = 0 /\ batch = <<>> /\ more = FALSE
    /\ record = NoRecord /\ received = <<>>

-----------------------------------------------------------------------------
(* The writers. *)

(* A transaction, or an import of n events. *)
Commit(n) ==
    /\ Basis + n <= MaxTx
    /\ log' = log \o [i \in 1..n |-> 0]
    /\ UNCHANGED <<pc, since, batch, more, record, received>>

(* An excision redacts the payloads that mention its entity: any of them. *)
Excise(redacts) ==
    /\ Basis < MaxTx
    /\ log' = Append([t \in 1..Basis |-> IF t \in redacts /\ log[t] = 0
                                         THEN Basis + 1 ELSE log[t]], 0)
    /\ UNCHANGED <<pc, since, batch, more, record, received>>

-----------------------------------------------------------------------------
(* The goroutine. *)

BatchEnd == IF since + BatchSize < Basis THEN since + BatchSize ELSE Basis

TransactionIDsAfter_Inclusive ==
    [i \in 1..(IF since = 0 THEN BatchEnd ELSE BatchEnd - since + 1) |->
        IF since = 0 THEN i ELSE since - 1 + i]

TransactionIDsAfter_NotTheLast == [i \in 1..(Basis - since - 1) |-> since + i]

(* transactionIDsAfter: tx > since ORDER BY tx LIMIT followBatchSize. *)
TransactionIDsAfter == [i \in 1..(BatchEnd - since) |-> since + i]

Poll ==
    /\ pc = "poll"
    /\ batch' = TransactionIDsAfter
    /\ more' = (Len(batch') = BatchSize)
    /\ pc' = IF batch' = <<>> THEN "wait" ELSE "read"
    /\ UNCHANGED <<log, since, record, received>>

Read_StubAsOfBatch ==
    /\ pc = "read"
    /\ record' = [tx |-> Head(batch),
                  full |-> log[Head(batch)] \notin 1..(since + Len(batch))]
    /\ pc' = "send"
    /\ UNCHANGED <<log, since, batch, more, received>>

(* eventRecordForTx: a stub when the payload is redacted by now. *)
Read ==
    /\ pc = "read"
    /\ record' = [tx |-> Head(batch), full |-> log[Head(batch)] = 0]
    /\ pc' = "send"
    /\ UNCHANGED <<log, since, batch, more, received>>

(* After a full batch it polls again at once, after a short one it waits. *)
AfterSend == IF Len(batch) > 1 THEN "read" ELSE IF more THEN "poll" ELSE "wait"

Send ==
    /\ pc = "send"
    /\ received' = Append(received, [tx |-> record.tx, full |-> record.full, at |-> Basis])
    /\ since' = record.tx
    /\ batch' = Tail(batch)
    /\ record' = NoRecord
    /\ pc' = AfterSend
    /\ UNCHANGED <<log, more>>

Tick ==
    /\ pc = "wait"
    /\ pc' = "poll"
    /\ UNCHANGED <<log, since, batch, more, record, received>>

(* A cancelled context or an error of a read ends the goroutine. *)
Close ==
    /\ pc # "closed"
    /\ pc' = "closed"
    /\ UNCHANGED <<log, since, batch, more, record, received>>

Following == Poll \/ Read \/ Send \/ Tick

Next ==
    \/ \E n \in 1..MaxTx : Commit(n)
    \/ \E redacts \in SUBSET (1..Basis) : Excise(redacts)
    \/ Following
    \/ Close

(* The goroutine runs, the ticker fires and the consumer keeps receiving. *)
Spec == Init /\ [][Next]_vars /\ WF_vars(Following)

-----------------------------------------------------------------------------
(* Properties.                                                             *)

(* Shapes of the state; the batch is a run of committed transactions right
   after the cursor, and a record in hand is the first of it. *)
TypeOK ==
    /\ log \in Seq(0..MaxTx) /\ Basis <= MaxTx
    /\ pc \in {"poll", "read", "send", "wait", "closed"}
    /\ since \in 0..Basis
    /\ more \in BOOLEAN
    /\ \A i \in DOMAIN batch : batch[i] = since + i /\ batch[i] <= Basis
    /\ pc = "read" => batch # <<>>
    /\ pc = "send" => batch # <<>> /\ record.tx = Head(batch)

(* The consumer receives every transaction once, in order and without a gap,
   however commits, polls and batch limits interleave. *)
InOrderOnce == \A i \in DOMAIN received : received[i].tx = i

(* Each record is read by itself, so when an excision commits in the middle
   of a batch at most the one record already in hand still goes out with a
   payload the excision redacted; the rest of the batch are stubs. *)
AtMostOneLate ==
    \A x \in 1..Basis :
        Cardinality({i \in DOMAIN received : /\ received[i].full
                                             /\ log[received[i].tx] = x
                                             /\ received[i].at >= x}) <= 1

(* A committed transaction reaches the consumer unless Follow is closed. *)
EventuallyReceived ==
    \A t \in 1..MaxTx :
        Basis >= t ~> (pc = "closed" \/ \E i \in DOMAIN received : received[i].tx = t)
=============================================================================
