---------------------------- MODULE FollowProofs ----------------------------
(***************************************************************************)
(* What a consumer of Follow can rely on, for every batch size and every   *)
(* length of the log: no transaction is skipped or sent twice, and an      *)
(* excision leaves at most one record with its payload on the way.         *)
(***************************************************************************)
EXTENDS Follow, SequenceTheorems, FiniteSetTheorems, TLAPS

Record == [tx : Nat, full : BOOLEAN]
Receipt == [tx : Nat, full : BOOLEAN, at : Nat]

-----------------------------------------------------------------------------
(* The log grows, and an excision marks only payloads that were there. *)

LogType == log \in Seq(0..MaxTx) /\ Basis <= MaxTx

LEMMA LogFacts ==
    ASSUME LogType
    PROVE  /\ Basis \in Nat /\ DOMAIN log = 1..Basis
           /\ \A t \in 1..Basis : log[t] \in 0..MaxTx
BY LenProperties, ElementOfSeq DEF LogType, Basis

LEMMA LogStep ==
    ASSUME LogType, [Next]_vars
    PROVE  /\ LogType' /\ Basis' \in Nat /\ Basis <= Basis'
           /\ \A t \in 1..Basis : \/ log'[t] = log[t]
                                  \/ log[t] = 0 /\ log'[t] = Basis + 1 /\ Basis' = Basis + 1
           /\ \A t \in (Basis + 1)..Basis' : log'[t] = 0
<1> DEFINE Goal ==
       /\ LogType' /\ Basis' \in Nat /\ Basis <= Basis'
       /\ \A t \in 1..Basis : \/ log'[t] = log[t]
                              \/ log[t] = 0 /\ log'[t] = Basis + 1 /\ Basis' = Basis + 1
       /\ \A t \in (Basis + 1)..Basis' : log'[t] = 0
<1>0. /\ Basis \in Nat /\ DOMAIN log = 1..Basis /\ log \in Seq(0..MaxTx)
      /\ \A t \in 1..Basis : log[t] \in 0..MaxTx
    BY LogFacts DEF LogType
<1>1. ASSUME NEW n \in 1..MaxTx, Commit(n) PROVE Goal
    <2> DEFINE zeros == [i \in 1..n |-> 0]
    <2>1. n \in Nat /\ MaxTx \in Nat /\ Basis + n <= MaxTx /\ log' = log \o zeros
        BY <1>1, MaxTxAssumption DEF Commit
    <2>2. zeros \in Seq(0..MaxTx)
        <3>1. zeros \in [1..n -> 0..MaxTx]
            BY <2>1
        <3> QED
            BY <2>1, <3>1, SeqDef
    <2>3. Len(zeros) = n /\ \A i \in 1..n : zeros[i] = 0
        BY <2>1, <2>2, LenProperties
    <2> HIDE DEF zeros
    <2>4. /\ log \o zeros \in Seq(0..MaxTx) /\ Len(log \o zeros) = Basis + n
          /\ \A i \in 1..(Basis + n) : (log \o zeros)[i] =
                IF i <= Basis THEN log[i] ELSE zeros[i - Basis]
        BY <1>0, <2>2, <2>3, ConcatProperties DEF Basis
    <2>5. Basis' = Basis + n /\ LogType'
        BY <2>1, <2>4 DEF Basis, LogType
    <2>6. \A t \in 1..Basis : log'[t] = log[t]
        BY <1>0, <2>1, <2>4
    <2>7. \A t \in (Basis + 1)..Basis' : log'[t] = 0
        <3> TAKE t \in (Basis + 1)..Basis'
        <3>1. t \in 1..(Basis + n) /\ ~(t <= Basis) /\ t - Basis \in 1..n
            BY <1>0, <2>1, <2>5
        <3>2. log'[t] = zeros[t - Basis]
            BY <2>1, <2>4, <3>1
        <3> QED
            BY <2>3, <3>1, <3>2
    <2>8. Basis' \in Nat /\ Basis <= Basis'
        BY <1>0, <2>1, <2>5
    <2> QED
        BY <2>5, <2>6, <2>7, <2>8, Zenon
<1>2. ASSUME NEW redacts \in SUBSET (1..Basis), Excise(redacts) PROVE Goal
    <2> DEFINE marked == [t \in 1..Basis |-> IF t \in redacts /\ log[t] = 0
                                             THEN Basis + 1 ELSE log[t]]
    <2>1. MaxTx \in Nat /\ Basis < MaxTx /\ log' = Append(marked, 0)
        BY <1>2, MaxTxAssumption DEF Excise
    <2>2. marked \in Seq(0..MaxTx)
        <3>1. marked \in [1..Basis -> 0..MaxTx]
            BY <1>0, <2>1
        <3> QED
            BY <1>0, <3>1, SeqDef
    <2>3. /\ Len(marked) = Basis
          /\ \A t \in 1..Basis : marked[t] = log[t] \/ (log[t] = 0 /\ marked[t] = Basis + 1)
        BY <1>0, <2>2, LenProperties
    <2> HIDE DEF marked
    <2>4. /\ Append(marked, 0) \in Seq(0..MaxTx) /\ Len(Append(marked, 0)) = Basis + 1
          /\ \A i \in 1..Basis : Append(marked, 0)[i] = marked[i]
          /\ Append(marked, 0)[Basis + 1] = 0
        BY <1>0, <2>1, <2>2, <2>3, AppendProperties
    <2>5. Basis' = Basis + 1 /\ LogType'
        BY <1>0, <2>1, <2>4 DEF Basis, LogType
    <2> QED
        BY <1>0, <2>1, <2>3, <2>4, <2>5
<1>3. CASE Following \/ Close \/ UNCHANGED vars
    <2>1. log' = log
        BY <1>3 DEF Following, Poll, Read, Send, Tick, Close, vars
    <2> QED
        BY <1>0, <2>1 DEF LogType, Basis
<1> QED
    BY <1>1, <1>2, <1>3 DEF Next

-----------------------------------------------------------------------------
(* The cursor: what was sent is 1..since, and the batch continues it. *)

Cursor ==
    /\ LogType
    /\ pc \in {"poll", "read", "send", "wait", "closed"}
    /\ since \in Nat /\ since <= Basis
    /\ more \in BOOLEAN
    /\ batch \in Seq(Nat)
    /\ \A i \in DOMAIN batch : batch[i] = since + i /\ batch[i] <= Basis
    /\ pc \in {"read", "send"} => batch # <<>>
    /\ record \in Record
    /\ pc = "send" => record.tx = since + 1
    /\ received \in Seq(Receipt) /\ Len(received) = since
    /\ \A i \in 1..since : received[i].tx = i /\ received[i].at <= Basis

LEMMA BatchFirst ==
    ASSUME Cursor, batch # <<>>
    PROVE  /\ Head(batch) = since + 1 /\ since + 1 <= Basis
           /\ Tail(batch) \in Seq(Nat)
           /\ \A i \in DOMAIN Tail(batch) :
                 Tail(batch)[i] = since + 1 + i /\ Tail(batch)[i] <= Basis
           /\ Len(batch) > 1 => Tail(batch) # <<>>
<1>1. batch \in Seq(Nat) /\ since \in Nat
    BY DEF Cursor
<1>2. Len(batch) \in Nat \ {0} /\ DOMAIN batch = 1..Len(batch)
    BY <1>1, EmptySeq, LenProperties
<1>3. Head(batch) = batch[1]
    BY <1>1, <1>2
<1>4. /\ Tail(batch) \in Seq(Nat) /\ Len(Tail(batch)) = Len(batch) - 1
      /\ \A i \in 1..Len(Tail(batch)) : Tail(batch)[i] = batch[i + 1]
    BY <1>1, HeadTailProperties
<1>5. DOMAIN Tail(batch) = 1..(Len(batch) - 1)
    BY <1>4, LenProperties
<1>6. Head(batch) = since + 1 /\ since + 1 <= Basis
    BY <1>2, <1>3 DEF Cursor
<1>7. \A i \in DOMAIN Tail(batch) :
         Tail(batch)[i] = since + 1 + i /\ Tail(batch)[i] <= Basis
    <2> TAKE i \in DOMAIN Tail(batch)
    <2>1. i + 1 \in DOMAIN batch /\ i \in Nat /\ Tail(batch)[i] = batch[i + 1]
        BY <1>2, <1>4, <1>5
    <2>2. batch[i + 1] = since + (i + 1) /\ batch[i + 1] <= Basis
        BY <2>1 DEF Cursor
    <2> QED
        BY <1>1, <2>1, <2>2
<1>8. Len(batch) > 1 => Tail(batch) # <<>>
    <2>1. Len(<<>>) = 0
        BY EmptySeq
    <2>2. Len(batch) > 1 => Len(Tail(batch)) # 0
        BY <1>2, <1>4
    <2> QED
        BY <2>1, <2>2, Zenon
<1> QED
    BY <1>4, <1>6, <1>7, <1>8

LEMMA CursorNext == Cursor /\ [Next]_vars => Cursor'
<1> SUFFICES ASSUME Cursor, [Next]_vars PROVE Cursor'
    OBVIOUS
<1>0. /\ LogType' /\ Basis \in Nat /\ Basis' \in Nat /\ Basis <= Basis' /\ since \in Nat
      /\ received \in Seq(Receipt) /\ Len(received) = since /\ batch \in Seq(Nat)
    BY LogStep, LogFacts DEF Cursor
<1>1. \A i \in 1..since : received[i] \in Receipt /\ received[i].at \in Nat
    <2>1. \A i \in 1..since : received[i] \in Receipt
        BY <1>0, ElementOfSeq
    <2> QED
        BY <2>1 DEF Receipt
<1>2. \A i \in DOMAIN batch : batch[i] \in Nat
    BY <1>0, LenProperties, ElementOfSeq
<1>3. ASSUME UNCHANGED <<pc, since, batch, more, record, received>> PROVE Cursor'
    <2>1. \A i \in 1..since' : received'[i].tx = i /\ received'[i].at <= Basis'
        BY <1>0, <1>1, <1>3 DEF Cursor
    <2>2. \A i \in DOMAIN batch' : batch'[i] = since' + i /\ batch'[i] <= Basis'
        BY <1>0, <1>2, <1>3 DEF Cursor
    <2>3. since' <= Basis'
        BY <1>0, <1>3 DEF Cursor
    <2> QED
        BY <1>0, <1>3, <2>1, <2>2, <2>3 DEF Cursor
<1>4. ASSUME NEW n \in 1..MaxTx, Commit(n) PROVE Cursor'
    BY <1>3, <1>4 DEF Commit
<1>5. ASSUME NEW redacts \in SUBSET (1..Basis), Excise(redacts) PROVE Cursor'
    BY <1>3, <1>5 DEF Excise
<1>6. CASE Poll
    <2>1. /\ BatchEnd \in Nat /\ since <= BatchEnd /\ BatchEnd <= Basis
        BY <1>0, BatchAssumption DEF BatchEnd, Cursor
    <2>2. batch' = [i \in 1..(BatchEnd - since) |-> since + i] /\ BatchEnd - since \in Nat
        BY <1>0, <1>6, <2>1 DEF Poll, TransactionIDsAfter
    <2>3. batch' \in Seq(Nat)
        <3>1. batch' \in [1..(BatchEnd - since) -> Nat]
            BY <1>0, <2>2
        <3> QED
            BY <2>2, <3>1, SeqDef
    <2>4. \A i \in DOMAIN batch' : batch'[i] = since + i /\ batch'[i] <= Basis
        BY <1>0, <2>1, <2>2
    <2>5. UNCHANGED <<log, since, record, received>> /\ more' \in BOOLEAN
        BY <1>6 DEF Poll
    <2>6. pc' \in {"wait", "read"} /\ (pc' = "read" => batch' # <<>>)
        BY <1>6 DEF Poll
    <2> HIDE DEF Cursor
    <2>7. Basis' = Basis
        BY <2>5 DEF Basis
    <2> QED
        BY <1>0, <2>3, <2>4, <2>5, <2>6, <2>7 DEF Cursor
<1>7. CASE Read
    <2>1. /\ pc' = "send" /\ UNCHANGED <<log, since, batch, more, received>> /\ batch # <<>>
          /\ record' = [tx |-> Head(batch), full |-> log[Head(batch)] = 0]
        BY <1>7 DEF Read, Cursor
    <2>2. Head(batch) = since + 1
        BY <2>1, BatchFirst
    <2>3. record' \in Record /\ record'.tx = since + 1
        BY <1>0, <2>1, <2>2 DEF Record
    <2> QED
        BY <1>0, <2>1, <2>3 DEF Cursor, Basis
<1>8. CASE Send
    <2> DEFINE item == [tx |-> record.tx, full |-> record.full, at |-> Basis]
    <2>1. /\ pc = "send" /\ batch # <<>> /\ record.tx = since + 1 /\ record.full \in BOOLEAN
          /\ log' = log /\ more' = more
          /\ received' = Append(received, item) /\ since' = since + 1
          /\ batch' = Tail(batch) /\ record' = NoRecord /\ pc' = AfterSend
        BY <1>8 DEF Send, Cursor, Record
    <2>2. item \in Receipt /\ item.tx = since + 1 /\ item.at = Basis
        BY <1>0, <2>1 DEF Receipt
    <2> HIDE DEF item
    <2>3. /\ received' \in Seq(Receipt) /\ Len(received') = since + 1
          /\ \A i \in 1..since : received'[i] = received[i]
          /\ received'[since + 1] = item
        BY <1>0, <2>1, <2>2, AppendProperties
    <2>4. \A i \in 1..(since + 1) : received'[i].tx = i /\ received'[i].at <= Basis
        <3> TAKE i \in 1..(since + 1)
        <3>1. CASE i = since + 1
            BY <1>0, <2>2, <2>3, <3>1
        <3>2. CASE i \in 1..since
            BY <2>3, <3>2 DEF Cursor
        <3> QED
            BY <1>0, <3>1, <3>2
    <2>5. /\ since + 1 <= Basis /\ batch' \in Seq(Nat)
          /\ \A i \in DOMAIN batch' : batch'[i] = since' + i /\ batch'[i] <= Basis
        BY <2>1, BatchFirst
    <2>6. /\ pc' \in {"poll", "read", "send", "wait", "closed"} /\ pc' # "send"
          /\ pc' = "read" => batch' # <<>>
        BY <2>1, BatchFirst DEF AfterSend
    <2>7. record' \in Record /\ Basis' = Basis
        BY <2>1 DEF NoRecord, Record, Basis
    <2> QED
        BY <1>0, <2>1, <2>3, <2>4, <2>5, <2>6, <2>7 DEF Cursor
<1>9. CASE Tick \/ Close
    BY <1>0, <1>9 DEF Tick, Close, Cursor, Basis
<1>10. CASE UNCHANGED vars
    BY <1>3, <1>10 DEF vars
<1> QED
    BY <1>4, <1>5, <1>6, <1>7, <1>8, <1>9, <1>10 DEF Next, Following

LEMMA CursorHolds == Spec => []Cursor
<1>1. Init => Cursor
    <2> SUFFICES ASSUME Init PROVE Cursor
        OBVIOUS
    <2>1. /\ <<>> \in Seq(0..MaxTx) /\ <<>> \in Seq(Nat) /\ <<>> \in Seq(Receipt)
          /\ Len(<<>>) = 0
        BY EmptySeq
    <2>2. LogType /\ Basis = 0
        BY <2>1, MaxTxAssumption DEF Init, LogType, Basis
    <2>3. record \in Record /\ batch \in Seq(Nat) /\ DOMAIN batch = {}
        BY <2>1 DEF Init, NoRecord, Record
    <2>4. received \in Seq(Receipt) /\ Len(received) = 0 /\ 1..0 = {}
        BY <2>1 DEF Init
    <2>5. /\ since \in Nat /\ since <= Basis /\ Len(received) = since
          /\ \A i \in 1..since : received[i].tx = i /\ received[i].at <= Basis
        BY <2>2, <2>4 DEF Init
    <2>6. \A i \in DOMAIN batch : batch[i] = since + i /\ batch[i] <= Basis
        BY <2>3
    <2>7. pc = "poll" /\ more \in BOOLEAN
        BY DEF Init
    <2> QED
        BY <2>2, <2>3, <2>4, <2>5, <2>6, <2>7 DEF Cursor
<1> QED
    BY <1>1, CursorNext, PTL DEF Spec

(* The batch is always the run of committed transactions right after the
   cursor, and a record in hand is its first. *)
THEOREM TypeCorrect == Spec => []TypeOK
<1>1. Cursor => TypeOK
    <2> SUFFICES ASSUME Cursor PROVE TypeOK
        OBVIOUS
    <2>1. batch # <<>> => Head(batch) = since + 1
        BY BatchFirst
    <2>2. Basis \in Nat /\ LogType
        BY LogFacts DEF Cursor
    <2> QED
        BY <2>1, <2>2 DEF Cursor, TypeOK, LogType
<1> QED
    BY <1>1, CursorHolds, PTL

(* The consumer receives transaction i as its i-th record: none is skipped,
   repeated or out of order, for every batch size and every interleaving. *)
THEOREM ReceivedInOrder == Spec => []InOrderOnce
<1>1. Cursor => InOrderOnce
    <2> SUFFICES ASSUME Cursor, NEW i \in DOMAIN received PROVE received[i].tx = i
        BY DEF InOrderOnce
    <2>1. DOMAIN received = 1..since
        BY LenProperties DEF Cursor
    <2> QED
        BY <2>1 DEF Cursor
<1> QED
    BY <1>1, CursorHolds, PTL

-----------------------------------------------------------------------------
(* Payloads on their way when an excision commits. *)

(* A record that went out with a payload that excision x had redacted. *)
Late(x, i) == /\ received[i].full /\ log[received[i].tx] = x /\ received[i].at >= x

(* At most one of them for every excision; and while a record with a redacted
   payload is in hand, every receipt is older than that excision. *)
LateInv ==
    /\ \A t \in 1..Basis : log[t] <= Basis
    /\ \A x \in 1..Basis : \A i, j \in 1..since : Late(x, i) /\ Late(x, j) => i = j
    /\ pc = "send" /\ record.full /\ log[since + 1] # 0 =>
          \A i \in 1..since : received[i].at < log[since + 1]

LEMMA LateNext == Cursor /\ LateInv /\ [Next]_vars => LateInv'
<1> SUFFICES ASSUME Cursor, Cursor', LateInv, [Next]_vars PROVE LateInv'
    BY CursorNext
<1>0. /\ Basis \in Nat /\ Basis' \in Nat /\ Basis <= Basis' /\ since \in Nat /\ since <= Basis
      /\ \A t \in 1..Basis : log[t] \in Nat
      /\ \A t \in 1..Basis : \/ log'[t] = log[t]
                             \/ log[t] = 0 /\ log'[t] = Basis + 1 /\ Basis' = Basis + 1
      /\ \A t \in (Basis + 1)..Basis' : log'[t] = 0
    BY LogStep, LogFacts DEF Cursor
<1>1. \A i \in 1..since : received[i].tx = i /\ received[i].at \in Nat /\ received[i].at <= Basis
    <2>1. \A i \in 1..since : received[i] \in Receipt
        BY ElementOfSeq DEF Cursor
    <2> QED
        BY <2>1 DEF Cursor, Receipt
<1>2. pc = "send" => since + 1 \in 1..Basis
    <2>1. pc = "send" => batch # <<>>
        BY DEF Cursor
    <2> QED
        BY <1>0, <2>1, BatchFirst
<1>3. \A t \in 1..Basis' : log'[t] <= Basis'
    <2> TAKE t \in 1..Basis'
    <2>1. CASE t \in 1..Basis
        BY <1>0, <2>1 DEF LateInv
    <2>2. CASE t \in (Basis + 1)..Basis'
        BY <1>0, <2>2
    <2> QED
        BY <1>0, <2>1, <2>2
<1>4. ASSUME UNCHANGED <<pc, since, record, received>> PROVE LateInv'
    <2>1. ASSUME NEW x \in 1..Basis', NEW i \in 1..since, Late(x, i)'
          PROVE  x \in 1..Basis /\ Late(x, i)
        <3>1. i \in 1..Basis /\ received[i].tx = i /\ received[i].at <= Basis
              /\ received[i].at \in Nat
            BY <1>0, <1>1
        <3>2. received[i].full /\ log'[i] = x /\ received[i].at >= x
            BY <1>4, <2>1, <3>1 DEF Late
        <3>3. log'[i] = log[i]
            BY <1>0, <3>1, <3>2
        <3> QED
            BY <1>0, <3>1, <3>2, <3>3 DEF Late
    <2>2. \A x \in 1..Basis' : \A i, j \in 1..since' : Late(x, i)' /\ Late(x, j)' => i = j
        BY <1>4, <2>1 DEF LateInv
    <2>3. ASSUME pc' = "send", record'.full, log'[since' + 1] # 0, NEW i \in 1..since'
          PROVE  received'[i].at < log'[since' + 1]
        BY <1>0, <1>1, <1>2, <1>4, <2>3 DEF LateInv
    <2> QED
        BY <1>3, <2>2, <2>3 DEF LateInv
<1>5. ASSUME NEW n \in 1..MaxTx, Commit(n) PROVE LateInv'
    BY <1>4, <1>5 DEF Commit
<1>6. ASSUME NEW redacts \in SUBSET (1..Basis), Excise(redacts) PROVE LateInv'
    BY <1>4, <1>6 DEF Excise
<1>7. ASSUME log' = log, since' = since, received' = received, pc' # "send" PROVE LateInv'
    BY <1>7 DEF LateInv, Late, Basis
<1>8. CASE Poll \/ Tick \/ Close
    BY <1>7, <1>8 DEF Poll, Tick, Close
<1>9. CASE Read
    <2>1. /\ UNCHANGED <<log, since, received>> /\ batch # <<>>
          /\ record' = [tx |-> Head(batch), full |-> log[Head(batch)] = 0]
        BY <1>9 DEF Read, Cursor
    <2>2. Head(batch) = since + 1
        BY <2>1, BatchFirst
    <2>3. record'.full => log'[since' + 1] = 0
        BY <2>1, <2>2
    <2> QED
        BY <2>1, <2>3 DEF LateInv, Late, Basis
<1>10. CASE Send
    <2>1. /\ pc = "send" /\ record.tx = since + 1 /\ log' = log /\ since' = since + 1
          /\ received' = Append(received, [tx |-> record.tx, full |-> record.full, at |-> Basis])
          /\ pc' # "send" /\ received \in Seq(Receipt) /\ Len(received) = since
          /\ record.full \in BOOLEAN
        BY <1>10 DEF Send, AfterSend, Cursor, Record
    <2>2. Basis' = Basis
        BY <2>1 DEF Basis
    <2>3. /\ received'[since + 1] = [tx |-> record.tx, full |-> record.full, at |-> Basis]
          /\ \A i \in 1..since : received'[i] = received[i]
        <3>1. [tx |-> record.tx, full |-> record.full, at |-> Basis] \in Receipt
            BY <1>0, <2>1 DEF Receipt
        <3> QED
            BY <2>1, <3>1, AppendProperties
    <2>4. ASSUME NEW x \in 1..Basis, NEW k, k = since + 1, Late(x, k)'
          PROVE  \A i \in 1..since : ~Late(x, i)
        <3>1. record.full /\ log[since + 1] = x /\ x # 0
            BY <1>0, <2>1, <2>3, <2>4 DEF Late
        <3>2. \A i \in 1..since : received[i].at < x
            BY <2>1, <3>1 DEF LateInv
        <3> QED
            BY <1>1, <3>2 DEF Late
    <2>5. \A x \in 1..Basis : \A i \in 1..since : Late(x, i)' <=> Late(x, i)
        BY <2>1, <2>3 DEF Late
    <2>6. \A i \in 1..since' : i = since + 1 \/ i \in 1..since
        BY <1>0, <2>1
    <2>7. \A x \in 1..Basis' : \A i, j \in 1..since' : Late(x, i)' /\ Late(x, j)' => i = j
        BY <2>2, <2>4, <2>5, <2>6 DEF LateInv
    <2> QED
        BY <1>3, <2>1, <2>7 DEF LateInv
<1>11. CASE UNCHANGED vars
    BY <1>4, <1>11 DEF vars
<1> QED
    BY <1>5, <1>6, <1>8, <1>9, <1>10, <1>11 DEF Next, Following

(* However commits and excisions fall between the reads and the sends of a
   batch, at most one payload that an excision redacted goes out after it. *)
THEOREM OneLateAtMost == Spec => []AtMostOneLate
<1>1. Init => LateInv
    BY DEF Init, LateInv, Basis, Late
<1>2. Cursor /\ LateInv => AtMostOneLate
    <2> SUFFICES ASSUME Cursor, LateInv, NEW x \in 1..Basis
                 PROVE  Cardinality({i \in DOMAIN received : /\ received[i].full
                                                           /\ log[received[i].tx] = x
                                                           /\ received[i].at >= x}) <= 1
        BY DEF AtMostOneLate
    <2> DEFINE late == {i \in DOMAIN received : /\ received[i].full
                                               /\ log[received[i].tx] = x
                                               /\ received[i].at >= x}
    <2>1. DOMAIN received = 1..since
        BY LenProperties DEF Cursor
    <2>2. \A i, j \in late : i = j
        BY <2>1 DEF LateInv, Late
    <2> HIDE DEF late
    <2>3. late = {} => Cardinality(late) = 0
        BY FS_EmptySet
    <2>4. late # {} => Cardinality(late) = 1
        <3> SUFFICES ASSUME late # {} PROVE Cardinality(late) = 1
            OBVIOUS
        <3>1. PICK i : i \in late
            OBVIOUS
        <3>2. late = {i}
            BY <2>2, <3>1
        <3> QED
            BY <3>2, FS_Singleton
    <2>5. Cardinality(late) <= 1
        BY <2>3, <2>4
    <2> QED
        BY <2>5 DEF late
<1> QED
    BY <1>1, <1>2, LateNext, CursorHolds, PTL DEF Spec
=============================================================================
