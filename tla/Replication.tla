---------------------------- MODULE Replication ----------------------------
(***************************************************************************)
(* Stores that exchange event/1 streams: local transactions and excisions  *)
(* at each peer, Tail to write a stream, Apply to import one.  A stream is *)
(* a file, so it can be applied late, twice, in another order, with a gap  *)
(* before it, or at a third peer.                                          *)
(*                                                                         *)
(* Facts are about named entities and cardinality-one attributes.  Live    *)
(* facts are kept in the order of their row ids, because exportTransaction *)
(* lists retractions in that order and Apply compares the export of what   *)
(* it wrote with what it received.  The request pipeline itself is in      *)
(* Transactor, receipts of local requests are in Handles.                  *)
(***************************************************************************)
EXTENDS Naturals, FiniteSets, SequencesExt

CONSTANTS Peer, Ent, Attr, Val,
          Workloads,     \* what the peers ask for, see Workload
          MaxImports,    \* bound: imports running at the same time
          Idle           \* no import is running

Fact == [e : Ent, a : Attr, v : Val]
Name == Ent \cup Attr

SameCell(f, g) == f.e = g.e /\ f.a = g.a

(* The peers that take part, their local requests (retractions, then
   assertions), and bounds on the events written at all peers together and on
   the excisions at one. *)
Workload == [peers : SUBSET Peer, requests : SUBSET [retract : Seq(Fact), assert : Seq(Fact)],
             maxEvents : Nat, maxExcisions : Nat]

ASSUME WorkloadsAssumption ==
    \A w \in Workloads :
        /\ w \in Workload
        /\ \A r \in w.requests : \A i, j \in DOMAIN r.assert :
              SameCell(r.assert[i], r.assert[j]) => i = j
ASSUME BoundsAssumption == MaxImports \in Nat

VARIABLES load,   \* the workload of this behaviour
          store,  \* per peer: events (log), live facts, registered names
          job     \* per peer: the import holding the writer lock, if any

vars == <<load, store, job>>

-----------------------------------------------------------------------------
(* Faulty variants, one per way the code could get this wrong, stand before
   the definition they are a variant of. *)

(* A record is an event with its receipt.  Its payload is kept in the model
   after redaction (redacted is then the excision's place in the log): the
   code keeps the payload's hash, which says as much when compared. *)
Change(uuid, created, asserted, retracted) ==
    [uuid |-> uuid, kind |-> "change", created |-> created, asserted |-> asserted,
     retracted |-> retracted, redacted |-> 0]

Excision(uuid) ==
    [uuid |-> uuid, kind |-> "excision", created |-> {}, asserted |-> <<>>,
     retracted |-> <<>>, redacted |-> 0]

(* event_hash covers everything but the local redaction state. *)
Hash(r) == [r EXCEPT !.redacted = 0]

Uuids(s) == {s.log[i].uuid : i \in DOMAIN s.log}

NamesIn(facts) == {f.e : f \in facts} \cup {f.a : f \in facts}

Mentions(r, x) ==
    x \in r.created \cup NamesIn(ToSet(r.asserted) \cup ToSet(r.retracted))

(* The rows of s that are in X, in their order. *)
Kept(s, X) ==
    LET places == {i \in DOMAIN s : s[i] \in X}
        rank(i) == Cardinality({j \in places : j <= i})
    IN  [k \in 1..Cardinality(places) |-> s[CHOOSE i \in places : rank(i) = k]]

(* What a transaction does to a store: its plan retracts before it asserts,
   so a fact that is both stays, and a value replaces the one in its cell.
   The result is what exportTransaction reads back from the rows. *)
Effect(s, preallocated, retracts, asserts) ==
    LET leaving == {f \in ToSet(s.live) \ ToSet(asserts) :
                        \/ f \in ToSet(retracts)
                        \/ \E g \in ToSet(asserts) : SameCell(f, g)}
    IN  [created |-> (preallocated \cup NamesIn(ToSet(asserts))) \ s.names,
         asserted |-> Kept(asserts, ToSet(asserts) \ ToSet(s.live)),
         retracted |-> Kept(s.live, leaving)]

Transacted(s, uuid, eff) ==
    [log |-> Append(s.log, Change(uuid, eff.created, eff.asserted, eff.retracted)),
     live |-> Kept(s.live, ToSet(s.live) \ ToSet(eff.retracted)) \o eff.asserted,
     names |-> s.names \cup eff.created]

-----------------------------------------------------------------------------
Init ==
    /\ load \in Workloads
    /\ store = [p \in Peer |-> [log |-> <<>>, live |-> <<>>, names |-> {}]]
    /\ job = [p \in Peer |-> Idle]

(* A random UUID: never drawn before, here or elsewhere. *)
FreshUuid(p) == <<p, Len(store[p].log) + 1>>

Room == Cardinality(UNION {Uuids(store[p]) : p \in Peer}) < load.maxEvents

Write(p, req) ==
    LET eff == Effect(store[p], {}, req.retract, req.assert)
    IN  /\ job[p] = Idle
        /\ Room
        /\ eff.asserted # <<>> \/ eff.retracted # <<>>
        /\ store' = [store EXCEPT ![p] = Transacted(@, FreshUuid(p), eff)]
        /\ UNCHANGED <<load, job>>

Excisions(s) == {i \in DOMAIN s.log : s.log[i].kind = "excision"}

Redacted(r, x, tx) ==
    IF r.redacted = 0 /\ Mentions(r, x) THEN [r EXCEPT !.redacted = tx] ELSE r

(* The name stays registered; the rows and every payload that names it go. *)
Excised(s, x, uuid) ==
    [log |-> Append([i \in DOMAIN s.log |-> Redacted(s.log[i], x, Len(s.log) + 1)],
                    Excision(uuid)),
     live |-> Kept(s.live, {f \in ToSet(s.live) : x \notin {f.e, f.a}}),
     names |-> s.names]

Excise(p, x) ==
    /\ job[p] = Idle
    /\ x \in store[p].names
    /\ Room
    /\ Cardinality(Excisions(store[p])) < load.maxExcisions
    /\ store' = [store EXCEPT ![p] = Excised(@, x, FreshUuid(p))]
    /\ UNCHANGED <<load, job>>

-----------------------------------------------------------------------------
(* Tail: one read transaction at some basis.  A redacted event is a stub of
   its UUID and hash, an excision lists what it redacted; both have fields
   applyEventLine does not know. *)
Line(r, basis) ==
    [event |-> Hash(r), known |-> r.kind = "change" /\ r.redacted \notin 1..basis]

(* The file Tail wrote when the log of p ended at basis. *)
TailFile(p, since, basis) ==
    [i \in 1..(basis - since) |-> Line(store[p].log[since + i], basis)]

(* Apply: BEGIN IMMEDIATE, then the lines on a private copy. *)
BeginApply(q, p, since, basis) ==
    /\ job[q] = Idle
    /\ Cardinality({r \in Peer : job[r] # Idle}) < MaxImports
    /\ since < basis /\ basis <= Len(store[p].log)
    /\ job' = [job EXCEPT ![q] = [file |-> TailFile(p, since, basis), done |-> 0,
                                  work |-> store[q]]]
    /\ UNCHANGED <<load, store>>

Busy(q) == job[q] # Idle /\ job[q].done < Len(job[q].file)
Current(q) == job[q].file[job[q].done + 1]

Receipt_RetainedOnly(s, event) ==
    {r \in ToSet(s.log) : r.uuid = event.uuid /\ r.redacted = 0}

Receipt(s, event) == {r \in ToSet(s.log) : r.uuid = event.uuid}

AlreadyApplied(q) ==
    LET receipt == Receipt(job[q].work, Current(q).event)
    IN  /\ Busy(q)
        /\ Current(q).known
        /\ receipt # {}
        /\ \A r \in receipt : Hash(r) = Current(q).event
        /\ job' = [job EXCEPT ![q].done = @ + 1]
        /\ UNCHANGED <<load, store>>

Replayed_AssertionsOnly(s, event) ==
    Effect(s, event.created, <<>>, event.asserted)

Replayed(s, event) ==
    Effect(s, event.created, event.retracted, event.asserted)

(* eventHash: the export of what was written must be the event received. *)
Reproduces_NotChecked(event, eff) == TRUE

Reproduces(event, eff) ==
    /\ eff.created = event.created
    /\ eff.asserted = event.asserted
    /\ eff.retracted = event.retracted

ApplyLine(q) ==
    LET event == Current(q).event
        eff == Replayed(job[q].work, event)
    IN  /\ Busy(q)
        /\ Current(q).known
        /\ Receipt(job[q].work, event) = {}
        /\ Reproduces(event, eff)
        /\ job' = [job EXCEPT ![q].done = @ + 1,
                              ![q].work = Transacted(@, event.uuid, eff)]
        /\ UNCHANGED <<load, store>>

CommitStream_PerLine(q) ==
    /\ job[q] # Idle
    /\ job[q].done > 0
    /\ store' = [store EXCEPT ![q] = job[q].work]
    /\ UNCHANGED <<load, job>>

CommitStream(q) ==
    /\ job[q] # Idle
    /\ job[q].done = Len(job[q].file)
    /\ store' = [store EXCEPT ![q] = job[q].work]
    /\ job' = [job EXCEPT ![q] = Idle]
    /\ UNCHANGED load

(* A refused line, an I/O error, a cancelled context, a crash: ROLLBACK. *)
Abort(q) ==
    /\ job[q] # Idle
    /\ job' = [job EXCEPT ![q] = Idle]
    /\ UNCHANGED <<load, store>>

Next ==
    \E p \in load.peers :
        \/ \E req \in load.requests : Write(p, req)
        \/ \E x \in Name : Excise(p, x)
        \/ \E q \in load.peers, since, basis \in 0..load.maxEvents : BeginApply(p, q, since, basis)
        \/ AlreadyApplied(p)
        \/ ApplyLine(p)
        \/ CommitStream(p)
        \/ Abort(p)

Spec == Init /\ [][Next]_vars

-----------------------------------------------------------------------------
(* Properties.                                                             *)

Record == [uuid : Peer \X (1..load.maxEvents), kind : {"change", "excision"},
           created : SUBSET Name, asserted : Seq(Fact), retracted : Seq(Fact),
           redacted : 0..load.maxEvents]

StoreOK(s) ==
    /\ s.log \in Seq(Record) /\ Len(s.log) <= load.maxEvents
    /\ s.live \in Seq(Fact)
    /\ s.names \subseteq Name

(* Shapes of the state; a live fact is live once, alone in its cell, and its
   names are registered, in every store and in the working copy of every
   import (more than the unique index fgraph_eavt sees to). *)
TypeOK ==
    \A p \in Peer :
        LET stores == {store[p]} \cup IF job[p] = Idle THEN {} ELSE {job[p].work}
        IN  \A s \in stores :
                /\ StoreOK(s)
                /\ \A i, j \in DOMAIN s.live : SameCell(s.live[i], s.live[j]) => i = j
                /\ NamesIn(ToSet(s.live)) \subseteq s.names

(* apply is idempotent by event UUID: no log holds an event twice, however
   often and in whatever order files are applied, also when the copy here was
   redacted meanwhile (its receipt stays, so erased facts do not return). *)
AppliedOnce ==
    \A p \in Peer : \A i, j \in DOMAIN store[p].log :
        store[p].log[i].uuid = store[p].log[j].uuid => i = j

(* An event is the same everywhere: what a peer stores for a UUID (its own
   export) is byte for byte what the peer of origin stored, so a receipt
   check against any copy, direct or forwarded, accepts it. *)
EventsAgree ==
    \A p, q \in Peer :
        \A i \in DOMAIN store[p].log, j \in DOMAIN store[q].log :
            store[p].log[i].uuid = store[q].log[j].uuid =>
                Hash(store[p].log[i]) = Hash(store[q].log[j])

Unexcised(p) == Excisions(store[p]) = {}

(* Peers that hold the same events hold the same facts and names, in whatever
   order, from whatever files and with whatever gaps the events came: the
   resulting logical state is a function of the set of events. *)
SameEventsSameState ==
    \A p, q \in Peer :
        Unexcised(p) /\ Unexcised(q) /\ Uuids(store[p]) = Uuids(store[q]) =>
            /\ ToSet(store[p].live) = ToSet(store[q].live)
            /\ store[p].names = store[q].names

(* Stores are well formed and converge: one event per UUID everywhere, and
   one state per set of events. *)
Converged == TypeOK /\ EventsAgree /\ SameEventsSameState

Mirrors(p, q, n) ==
    /\ n = Len(store[q].log) /\ n < Len(store[p].log)
    /\ \A i \in 1..n : /\ store[p].log[i].uuid = store[q].log[i].uuid
                       /\ store[q].log[i].kind = "change"

(* A replica that holds a prefix of a log and nothing else can always take
   the next event (as long as Tail could still read it): following one
   source never gets stuck, whatever the source does later. *)
ReplicaContinues ==
    \A p, q \in Peer : \A n \in 0..load.maxEvents :
        /\ Mirrors(p, q, n)
        /\ store[p].log[n + 1].kind = "change"
        => LET event == Hash(store[p].log[n + 1])
           IN  Reproduces(event, Replayed(store[q], event))

(* The whole stream commits or nothing of it does: when an import changes
   its store, every event of its file is in the log. *)
StreamAtomic ==
    [][\A q \in Peer :
          job[q] # Idle /\ store'[q] # store[q] =>
              \A i \in DOMAIN job[q].file : job[q].file[i].event.uuid \in Uuids(store'[q])]_vars

(* A redaction is for ever, and the log only grows: an import, a transaction
   or an excision neither drops nor reorders events nor restores a payload. *)
LogGrows ==
    [][\A p \in Peer : \A i \in DOMAIN store[p].log :
          /\ i \in DOMAIN store'[p].log
          /\ Hash(store'[p].log[i]) = Hash(store[p].log[i])
          /\ store[p].log[i].redacted # 0 =>
                store'[p].log[i].redacted = store[p].log[i].redacted]_vars

(* Imports are atomic and append only, among writers, excisions and each
   other. *)
LogsSafe == StreamAtomic /\ LogGrows
=============================================================================
