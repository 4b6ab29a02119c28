# A TLA+ model of fgraph

fgraph keeps a graph of facts (entity, attribute, value) in one SQLite file.
Facts are never overwritten: a row is asserted by one transaction and retracted
by another, every transaction leaves a portable event, and any past state can be
read back. Several goroutines and several processes may have the file open.

This directory models the Go implementation under `src/go`: what a write
transaction does to the facts, how records become identities, what several handles
on one file and a speculation do to each other, what stores that exchange event
streams end up with, how a file is snapshot, restored, checked and backed up, and
what readers see while all that goes on. TLC checks the models on small instances;
TLAPS proves, for any number of processes, callers, names, operations, events and
failures, most properties of transactions and all those of handles, replication and
follow that are not liveness, the safety of backups, and that the handles implement an
abstract ledger.

## The system

| component | state | operations | what makes it correct |
|---|---|---|---|
| Transaction pipeline, `transact.go` | `fgraph_facts`, the plan, the working set of the diff | `Transact`: plan records and operations, validate declarations and cas isolation, diff against the live rows, write rows and event | what is written is what was validated, in whatever order the operations come; cardinality and uniqueness hold afterwards; a swap ends with its value; a record's facts end on one entity |
| Fact rows, schema and views, `transact.go`, `read.go`, `value.go` | rows with `tx` and `rx` | visibility at a basis, schema of an attribute now and after a plan | the past does not change |
| Shapes and manifests, `schema.go` | shape facts | `Declare`, `DeclareShape`, `ApplySchemaManifest`, validation of touched members | a schema call installs what it was given; members fit their shape after a commit |
| Undo, `temporal.go` | - | `Undo`, discovered and planned inside the writer transaction | undo of the latest transaction is its inverse; undo of an older one spares later facts |
| Excision, `maintenance.go` | rows and event payloads | `Excise` | nothing of the entity is left; what was redacted stays accounted for |
| Store handle, `store.go` | `store.mu`, one connection, `names` cache, `dataVersion` | open and initialize, `refreshNames`, `withRead`, the identity allocator | one genesis; ids never reused; a trusted cache equals the identity table |
| Receipts and basis guard, `event.go` | `fgraph_events` | `operationReceipt`, `alreadyAppliedReport`, `ifBasisTx` | an operation is applied once; a reply is true; a guarded write sits on its basis |
| Event import, `apply.go` | the same tables | `Apply`, `atomicPortableWrite`, `applyEventLine` | the same, for event UUIDs; a stream is applied whole; stores with the same events have the same facts |
| Event export and tail, `event_wire.go` | event payloads | `exportTransaction`, `Tail` | replaying the log gives the facts |
| Follow, `temporal.go` | a polling goroutine | `Follow` | every retained transaction once, in order |
| Speculation, `temporal.go` | a savepoint on the writer connection, the shared name cache | `Speculate`, writes and imports on its view | nothing of it survives in a committed fact |
| Snapshot and restore, `snapshot.go` | a stream of records | `Snapshot`, `Restore` | restore of a snapshot is the same store, and a damaged stream is refused |
| Backup and doctor, `maintenance.go` | a temporary file, a destination | `Backup`, `Doctor` | no false alarm and no damage missed; a visible backup is whole, an acknowledged one survives |
| Datoms, `datoms.go` | a cursor | keyset paging | pages of one basis, no fact skipped or repeated |
| Query, `query.go` | bindings, rule relations | `Query` | the rows of the declarative meaning, however clauses are ordered |
| Search, values, CLI, MCP, the Python and TypeScript ports | none of their own beyond a handle | | not modelled, see below |

How they interact: every write goes `store.mu` -> `BEGIN IMMEDIATE` -> receipt ->
basis guard -> `refreshNames` -> plan -> validate -> diff -> rows, names, event ->
`COMMIT`, or a `ROLLBACK` that sets `dataVersion` to -1. Undo and the schema calls
supply operations to that pipeline from inside it; excision and import have their own
bodies between the same brackets. The `names` map is shared by all goroutines of
a handle, and by the view of a speculation, and guarded by `store.mu` only; between
processes the only shared state is the file. Backup and restore end with doctor, which
rebuilds events from the rows; reads take no lock between two pages.

What is hard to test here:

- the order of the operations of one request, which meets in one working map
  several features (whole-entity retraction, cardinality replacement, uniqueness,
  cas, schema declarations changing in the same request), and of its records, which
  may turn out to be other entities half way through;
- partial failure between the update of the in-memory cache and `COMMIT`, or between
  a savepoint and its rollback;
- several processes: opening an empty file, cache staleness, retries of an
  operation whose first answer was lost, crashes on either side of `COMMIT`;
- undo, excision and history deletion in sequence: each rewrites what the others,
  and doctor, rely on;
- event streams are files: applied late, twice, in another order, with gaps, through
  a third store, or after an excision; and a follower that reads while others write;
- a crash between any two calls of a backup;
- readers that hold a cursor or a view while rows are retracted and erased.

`PROJECT.json` lists the hazards with their lines and the properties aimed at them.

## Modules

- `FactRows`: rows, visibility, schema declarations and retraction matching as
  pure operators. `Shapes` (extends it): shape definitions, their validation, and
  manifests as rows define them.
- `Transactor` (extends `Shapes`): one writer transaction after another, with
  undo, schema calls and excision.
- `Entities`: how the records of a request become facts on identities.
- `Handles`: several handles and callers on one file. A transaction's content is
  reduced to one fact on one named entity; the order of the bracket above, the
  cache, the allocator and the log are kept. `Ledger`: what all of it promises.
- `Speculation`: one handle's savepoint and cache beside another process.
- `Replication`: several stores that transact, excise, write streams and import
  them. `Follow`: the goroutine that streams the log of one store.
- `Database`: the content of a whole file as one value. On it, `Doctor` (checks and
  repair), `Snapshots` (streams and their restore) and the state machine `Recovery`;
  `Datoms` (views, selectors, pages), `Query` (the evaluator) and the state machine
  `Reads`.
- `MC...`: the instances. `TransactorProofs`, `HandlesProofs`, `LedgerProofs`,
  `EntitiesProofs`, `SpeculationProofs`, `ReplicationProofs`, `FollowProofs`,
  `RecoveryProofs`: the theorems.

The state machines meet at the bracket. `Handles` proves that between
`BEGIN IMMEDIATE` and `COMMIT` a caller is alone (`ExclusiveWriter`), which is
what allows `Transactor` and `Entities` to run one transaction at a time, with every
other ending of a transaction in `Abort`, and `Database` to make a write one value
out of another. In each module operators whose name has a suffix after an
underscore (`Kept_Nothing`) are faulty variants, used only to show that a property
can fail.

### Transactor

| state | code |
|---|---|
| `facts`, `events` | `fgraph_facts`, `fgraph_events` with the payload each transaction exported |
| `phase` | where `transactOn` is |
| `plan`, `cas` | `transactionPlan`: assertions and retractions in one order, and the swaps |
| `undoes`, `todo` | the target of `Undo` and the rows it still has to invert |
| `call`, `groups` | the schema call this transaction belongs to, if any, and the operations it has still to plan: groups one after the other, those of one group in one fixed order (the code sorts them by name) |
| `cursor`, `working`, `dropped`, `inserted`, `canceled` | locals of `diffPlan` |
| `prior` | history: the rows before the latest transaction; read by `UndoRestores` only |

| action | code |
|---|---|
| `Begin`, `PlanRequest` (`PlanOperation`, `PlanCAS`) | `Transact`, `planData`, `planOperation`, `planCAS` |
| `BeginUndo`, `PlanUndo` | `Undo`, `undoOperations` |
| `BeginCall`, `PlanCall` | `Declare`, `DeclareShape`, `ApplySchemaManifest`, each a plan of its own; `planData` on one of its operations |
| `Validate` | `validatePlannedDeclarations`, `validateCASIsolation`, `workingFactsForPlan` |
| `DiffStep` (`DiffRetract`, `DiffAssertPresent`, `DiffAssertRestore`, `DiffAssertNew`) | one iteration of `diffPlan` |
| `Commit`, `Noop` | the writes of `transactOn`, or its early return when there is nothing to write |
| `Excise` | `Excise`: delete rows, redact payloads, write marker and event |
| `Abort` | any failed check, error, cancelled context or crash: `ROLLBACK` |

Abstractions: entities and attributes are model values that already exist (identity
allocation is in `Handles` and `Entities`); row ids are kept as their order, first by
transaction and then by position; values are integers, references and schema settings; a
workload's `seed` is one committed first transaction. `NamesAssumption`: application
names, and an absent value, are not names under `fgraph/` nor transaction numbers. A
check that rejects disables its action, and `Abort` then ends the transaction.

### Handles

| state | code |
|---|---|
| `ids`, `next`, `log` | `fgraph_ids` by name, `next_id` of `fgraph_meta`, `fgraph_events` |
| `lock` | SQLite's writer lock |
| `mutex`, `status`, `names` | `store.mu`, whether the handle is open, `store.names` |
| `current` | whether `store.dataVersion` equals `PRAGMA data_version` |
| `pc`, `req`, `basis`, `id`, `fresh`, `reply` | a caller's position, arguments, locals and last answer |

| action | code |
|---|---|
| `OpenExisting`, `OpenPristine`, `Initialize` | `openDatabase`, `checkOrInit`, `initializeTransaction` and its recheck under the lock |
| `Read` | `withRead`, which holds the mutex to the end of the read |
| `Call`, `Lock`, `BeginImmediate`, `Busy` | `Transact` or `applyStream` up to `BEGIN IMMEDIATE`, or `busy_timeout` |
| `AlreadyApplied`, `OperationReused`, `BasisConflict`, `CheckRequest` | the four outcomes of receipt and basis checks; the last one ends with `refreshNames` |
| `Plan`, `Finalize`, `Commit` | `allocator.name`, `allocator.finalize`, the event row and `COMMIT` |
| `CommitFails`, `OperationFails` | an error at `COMMIT`, or before it |
| `Crash` | the process dies: locals and cache are gone, SQLite rolls back |

SQLite is external and taken at its word: `BEGIN IMMEDIATE` excludes other
writers, `COMMIT` is atomic, and `data_version` changes on a connection exactly
when another connection commits a change. An import is a stream of one event,
its UUID playing the role of the operation id; the two are different columns, so
`RequestsAssumption` keeps them apart.

### Entities

| state | code |
|---|---|
| `ids`, `next`, `live` | `fgraph_ids`, `next_id`, the live facts |
| `alloc` | `allocator`: pending names, `tempids`, the next pending id |
| `items`, `stack` | what is left of the request; the recursion of `planMap`, one frame per record |
| `ops` | the plan |
| `home`, `moved`, `uses` | history: which entity each record is, which were redirected, what each token stood for |

| action | code |
|---|---|
| `Begin`, `PlanMap`, `PlanField`, `EnterChild`, `Leave` | `planData`, `planMap`: entity selection, one field, a nested record, its return |
| `PlanAssert`, `PlanRetract` | `planOperation` |
| `Commit`, `Noop` | the diff, compaction of the pending identities (`transact.go:457`), shape validation, the writes |
| `Abort` | a conflict of identities, any failed check |

Cells hold any number of values, so nothing is replaced; replacement is
`Transactor`'s. One shape with one required attribute stands for validation.

### Speculation

| state | code |
|---|---|
| `file`, `view`, `mark` | the tables as committed, as the savepoint sees them, at the inner savepoint of an apply |
| `names`, `current` | the cache shared by handle and view, and whether `dataVersion` says it is current |
| `moved`, `writing` | whether another process has committed since the snapshot, whether the savepoint has the writer lock |
| `warm` | history: a write on the view has refreshed the cache |
| `reported`, `streamed` | history: the events the calls on the view have reported, and those of a running apply |

`Speculate`, `ViewRead`, `ViewTransact`, its failure before the first statement
(`ViewTransactFails`) and at a later one (`ViewTransactFailsLate`), `ViewApply`, `ViewApplyLine`, `ViewApplyDone`, `ViewApplyFails` (roll back to the
inner savepoint, reload the cache) and `EndSpeculation` are the parts of `Speculate`
and of `atomicPortableWrite` on a savepoint; `Transact`, `TransactFails` and `Read`
are the ordinary calls of the handle, in one step each; `OtherCommits` is the other
process. `Named`, `Identified`, `Stated`, `Flushed` and `Written` are the tables after
each statement of `transactOn`, in its order: the new name, the transaction's own
identity, the fact, the allocator's mark, the event. `Unfinished` is the set of what a
late failure may leave: a failed fact or shape leaves identities under an old mark, so
that the next allocation on the view collides with them; a failed export, hash or event
row leaves the mark advanced, so that the next write succeeds beside them.

### Replication

| state | code |
|---|---|
| `store[p]`: `log`, `live`, `names` | `fgraph_events`, the live rows in the order of their ids, the names of `fgraph_ids` |
| `job[p]`: `file`, `done`, `work` | a running `Apply`: its stream, the lines done, what its connection sees |

| action | code |
|---|---|
| `Write` | `Transact` of a request whose retractions come first; `Effect` is the outcome of the `diffPlan` that `Transactor` models step by step |
| `Excise` | `Excise` |
| `BeginApply` | `Apply` up to `BEGIN IMMEDIATE`, on a file `Tail` wrote at any earlier basis |
| `AlreadyApplied`, `ApplyLine` | `applyEventLine`: the receipt of a known UUID, or a transaction that must reproduce the event's hash |
| `CommitStream`, `Abort` | the end of `atomicPortableWrite`; `Abort` is a refused line, an error or a crash |

A redacted payload stays in the model's record, marked with the excision that
cleared it: the code keeps its hash, and files written earlier keep the payload.
So `TailFile(p, since, basis)` gives every file `p` could have written up to now, and
no set of files has to be kept. Hashes are compared as the payloads they stand for.
Entities and attributes are named; all attributes have cardinality one; UUIDs are
random and never collide (`FGRAPH_EVENT_SEED`, meant for tests, is left out).

### Follow

The log of one store, reduced to which excision redacted which transaction, and the
goroutine: `Poll` (`transactionIDsAfter`), `Read` (`eventRecordForTx`, its own read
transaction), `Send` (the unbuffered channel), `Tick`, `Close` (cancellation or an
error). `Commit(n)` adds one transaction or a whole import, `Excise` redacts any set.

### Database, Doctor, Snapshots, Recovery

A file is a record: identities with the event that created each, fact rows with ids,
events with payload and hash, blobs, the text index, `next_id` and the row counter. A
hash is what it is the hash of. `Written`, `Excise` and `ExportTransaction` are what
`transactOn`, `Excise` and `exportTransaction` make of it; `DoctorOK` has the checks
of `doctorReport` and `Repaired` its repair; `Snapshot` is the stream and `Restored`
reads it record by record with every check.

`Recovery` has one activity per behaviour. *Snapshot*: `Put`, `ExciseThing`,
`TakeSnapshot` at any basis, a record of the stream lost, repeated or swapped or the
end cut off (`StreamGoesBad`), `Restore`. *Damage*: any one row lost or changed
(`GoesBad`) and doctor's `Repair`.
*Backup*: `BeginBackup`, `CopyPages` (which starts over when another process has
written), `Verify`, `SyncFile`, `Publish` (a link, so it fails when the name is
taken), `RemoveTemp`, `SyncDirectory`, `BackupFails` anywhere, `OtherCreates` a file of
that name, `MachineCrash`: unsynced content may be torn, an unsynced name lost.

### Datoms, Query, Reads

`Visible` is `DB.visibility`; `Page` is one call of `Datoms`, with the cursor's
arguments, basis and seek key. `Answer` is `Query`: `OrderQueryClauses` (the greedy
planner up to a barrier), `EvalIndexedPattern` and `EvalBatch`, predicates, negation,
disjunction, rules built bottom up in dependency order, projection with aggregates.

`Reads` adds a pager, a questioner and writers. `Meaning` is the reference: assignments
of values to variables that satisfy every clause as written, over the least relations
closed under the rules; it knows nothing of order, indexes or batches.

### Ledger

A request is asked, appended with its name and operation id at a position in the
ledger and answered with that position, in one step (`Apply`), or answered with the
position it already has (`Repeat`), or refused, or lost with its process (`Lose`).
`Handles` maps `log` to the ledger by forgetting all numbers (`Entries`), and
transaction numbers in guards and replies to positions; `ImplementsLedger` is the
ledger's specification under that mapping.

## Runs

| run | bounds | shows |
|---|---|---|
| `writes` | five workloads: a unique and a plain attribute with up to 3 operations, swaps among them; `many` and `nohistory` switched with the values they govern, undo and excision between; a closed shape, its member and two manifests; plain history, and an attribute turned from many to one under its values and back, each with 5 transactions. 2 entities, 2 values | the diff writes exactly its working set (`DiffExact`); constraints hold after a commit (`ConstraintsKept`), swaps and whole-entity retractions have their effect (`RequestsTakeEffect`); schema calls install what they were asked for (`SchemaInstalled`), members stay in shape (`ShapesKept`); rows and event log agree at every basis (`TimeTravelMatchesLog`), the past is immutable (`HistoryImmutable`), excision is complete and audited (`ExcisionComplete`), undo puts back what is not destroyed and nothing else (`UndoExact`) |
| `entities` | 18 requests of up to 5 items, among them nested records that are redirected, records that meet two owners, canceled allocations and a member whose required value is a reference; 4 transactions | a record's facts and a token's uses are on one entity (`PlanSound`), the one that owns its unique values (`OwnerOfValue`); compaction changes no fact and leaves no orphan (`CompactionFaithful`); members have what their shape requires (`MembersComply`) |
| `handles` | 2 processes, 3 callers, 2 names, 3 events, one failure or crash anywhere | operations once, replies true, ids distinct, facts on the entity their name stands for; all of it implements the ledger (`ImplementsLedger`) |
| `handles_live` | the same with one request | every call returns (`CallReturns`) |
| `speculation` | 3 names, 4 events, 3 failures, another process | no identity of a speculation reaches a committed fact (`GhostsStayOut`); a cache used without a reload is the right table (`CacheSound`); whatever a failed write has left, no later event takes over its identities or its transaction number (`LeftoversApart`); the view is its snapshot and what its calls have reported, all lines of a stream or none (`ViewIsReported`) |
| `replication` | 3 peers, 2 entities, 3 events written anywhere; 2 peers, one cell, 5 events, an excision at each; one import at a time | an event is the same everywhere and the facts are a function of the events held (`Converged`); a replica of one source never gets stuck (`ReplicaContinues`); no event is applied twice, not even one whose payload is gone (`AppliedOnce`); a stream is applied whole, logs grow, redactions stay (`LogsSafe`) |
| `follow` | batches of 2, 5 transactions | every transaction once and in order (`InOrderOnce`), eventually (`EventuallyReceived`); an excision leaves at most the record in hand to go out (`AtMostOneLate`) |
| `recovery` | snapshot: 4 transactions, every basis, every single fault of the stream; damage: 3 transactions, every single row; backup: 2 transactions, 2 pages | doctor has nothing to say about a file in use (`FileSound`) and reports or repairs what damage it can see (`DamageHandled`); a restored file is the original id for id (`RestoreExact`); exactly the good streams are accepted (`StreamsJudged`); a visible backup is whole, an acknowledged one durable, nothing is left over (`BackupSafe`) and no file replaced (`NeverOverwritten`) |
| `reads` | 4 transactions, 5 requests, 6 queries | pages are of one basis, in order and complete (`PagesComplete`); a query's rows are those of its meaning (`QueryMeaning`) and those on a view do not change (`AsOfStable`) |

Three operations are enough for every pair of operations to be separated by a
third one that changes what they meet; three transactions after the seed for undo of
something that is no longer the latest. In `handles` the first process has two
goroutines, so both a mutex and a file lock are contended;
three events are the genesis and two commits, enough for one handle to use what
another one committed; one failure or crash falls at every label of every caller. When
the log is full a call ends as an error, so the model does not stop in the middle of a
transaction. In `speculation` four events are one of another process before, one on
the view, one of another process after and one that builds on what a failed write left. In
`replication` three events are one that both sides share and two independent ones,
which arrive in both orders and directly or forwarded; five are a cell written, emptied
and written again, the excision and one more. In `follow` five transactions are two full
batches and a short one. In `recovery` four transactions are a value, its replacement or
the end of its history, an excision and one more; two pages are one before and one after
another process's commit. In `reads` four transactions fill, replace and close the cycle
of references the recursive query walks.

Symmetry is used where nothing tells the members apart: the two goroutines of one
process in `handles`, the names in `speculation`, two of the peers in `replication`; the
properties of these runs are all safety properties.

`recovery`, `reads` and `follow` say `CHECK_DEADLOCK FALSE`: when the bounds are used up
and the one activity is over there is nothing left to do. The other runs check deadlock.

`EventuallyReceived` assumes weak fairness of the goroutine: it runs, the ticker fires
and the consumer keeps receiving. `CallReturns` assumes weak fairness of the steps of a
running call and strong fairness of `Lock`. A goroutine that is not blocked runs;
`BEGIN IMMEDIATE` is bounded by `busy_timeout`, so it never blocks for ever and
needs nothing more; Go's mutex hands over to a waiter that has starved for a
millisecond. Nothing is assumed of new calls, opening or crashes.

### Where code and documentation differ

Three runs state what the specification says and find a behaviour of the code that
does not fit it.

| run | property | behaviour |
|---|---|---|
| `import` | `FactsNameRightEntity` | a failed `COMMIT` of an import does not distrust the cache (`apply.go:426`), so a later transaction uses an identity that was rolled back |
| `references` | `MembersFit` | a whole-entity retraction takes the references to the entity along (`transact.go:1687`), and members that lose a required attribute that way are not validated (`schema.go:914`) |
| `lookups` | `PagesOfOneBasis` | a lookup component is resolved against the live facts on every page and view (`transact.go:1947`), so the pages of one cursor can be of two entities |

Seven more configurations do the same for cases that the properties of the runs leave
out. They are not among the runs of `PROJECT.json`; TLC refutes each in seconds on one
small workload, and they are kept so that a change of the code can be compared with them.

| configuration | property | behaviour |
|---|---|---|
| `MCTransactor_uniqueness.cfg` | `UniqueInAnyOrder` | a row that a request retracts and asserts again leaves `diffPlan` before the uniqueness check (`transact.go:1737`), so retract, assert elsewhere, assert again gives a unique value two owners; `spec.md:245` asks for uniqueness "regardless of input order" |
| `MCTransactor_nohistory.cfg` | `PayloadsReplay` | a retracted `nohistory` row is deleted before the event is exported from the rows (`transact.go:347`), so no payload has the retraction and replay keeps the fact; `python/README.md:108` has the payloads of such transactions "remain replayable" |
| `MCTransactor_swaps.cfg` | `CasWins` | `validateCASIsolation` (`transact.go:1531`) looks at the entities the operations name, so a swap to a reference commits together with the retraction of the entity referred to, which empties the cell; `spec.md:201` has such a request fail |
| `MCRecovery_excisions.cfg` | `DoctorNeverAlarms` | a second excision of an entity deletes the marker and the payload of the first (`maintenance.go:1505`), and doctor reports what the first redacted as unaccounted for; `spec.md:402` calls it "intentionally unverifiable, not corrupt" |
| `MCEntities_nested.cfg` | `RecordWhole` | when a record turns out to be the owner of a unique value, everything planned since it began moves to the owner (`transact.go:913`): of `{friend: {id: bob, note: v2}, email: v1}` bob's note too; `spec.md:199` gives a record's attributes to its own `id` |
| `MCEntities_numbers.cfg` | `MovedMembersComply` | the entities to validate are those of the plan under the numbers it gave them (`schema.go:905`), which compaction has changed in what is written (`transact.go:457`), so a new member without a required attribute commits; `spec.md:272` has that fail |
| `MCSpeculation_leftovers.cfg` | `FailedWritesLeaveNothing` | a write on a view has no savepoint of its own (`temporal.go:355`), so what its statements wrote before it failed stays in the view; `spec.md:40` has a failed write leave identities, facts and allocation unchanged |

These and more differences show in how a property that does hold is restricted, or in a
guard:

- `UniqueKept` leaves out requests that assert a value found live
  (`MCTransactor_uniqueness.cfg`).
- `CardinalityKept` speaks of attributes that were and stay cardinality one. When
  `many` is switched off while one of two live values is asserted again, the
  validator counts the assertion as a replacement, `diffPlan` (`transact.go:1713`)
  skips it as present, and both values stay.
- `CasWinsScalar` leaves out swaps to a reference (`MCTransactor_swaps.cfg`).
- `TimeTravelMatchesLog`, `HistoryImmutable` and doctor leave out attributes that ever
  were `nohistory` (`MCTransactor_nohistory.cfg`).
- `RedactionAuditedOnce` and `DoctorQuiet` leave out a second excision of an entity
  (`MCRecovery_excisions.cfg`); a test of the Python port (`test_v2_integrity.py:170`)
  expects it to be refused.
- `ShapesKept` leaves out the retraction of a whole entity others refer to,
  `MembersComply` the entities that lose a required reference that way (run
  `references`) and transactions that move an identity (`MCEntities_numbers.cfg`). An
  excision validates no shapes.
- `UndoRestores` does not ask back what the transaction that is undone destroyed
  (`Destroyed`): a `nohistory` value it replaced or retracted is deleted, an entity it
  excised is gone, and `Undo` reads the rows there are (`temporal.go:402`). It leaves out
  attributes whose cells were not as declared before that transaction, which the case of
  `CardinalityKept` makes possible: putting one of several values back into a cell that is
  now cardinality one replaces the others.
- `RecordWholeUnlessNested` leaves out records nested in one that turned out to be the
  owner of a unique value (`MCEntities_nested.cfg`).
- `OwnerOfValue` leaves out records nested in a redirected one, records
  that were redirected when they are compared with each other, and values one of whose
  owners the request also retracts: `uniqueOwnerIncludingPlan` (`transact.go:996`) takes
  the first planned assertion, whatever a later operation does to its entity.
- `TokenOneEntity` leaves out a token whose record was redirected after the token was
  used: what used it before stays on the abandoned identity.
- `Reproduces` compares the created names and the retracted list too. Two stores that
  used the same name independently cannot exchange those events, where `spec.md:386`
  says "names unify"; nor can an update of a cell that was updated independently, or a
  retraction of two facts that independent events inserted in the other order, where
  `sharing-memory.md:35` has cardinality follow event order. What the check buys is
  `SameEventsSameState`.
- `GoodStreamAccepted` leaves out the snapshot of a basis before an excision or before
  history was given up: the stream lacks rows its events list, and restore refuses it.
- A rule that negates itself accumulates tuples until nothing is added; the result has
  no declarative meaning. The queries of the model have none.

## Proofs

All theorems are proved from the assumptions on the constants in the modules they are
about, for any sets of handles, callers, names and requests and any bounds.

| module | theorem | property |
|---|---|---|
| `TransactorProofs` | `TypeCorrect`, `DiffIsExact` | `TypeOK` (live triples unique), `DiffExact` |
| | `PastImmutable`, `LogIsHistory` | `HistoryImmutable`, `TimeTravelMatchesLog` |
| | `ExcisionIsComplete`, `RequestsHold` | `ExcisionComplete`, `RequestsTakeEffect` |
| | `ConstraintsHold`, `MembersStayInShape` | `ConstraintsKept`, `ShapesKept` |
| | `UndoIsExact`, `SchemaCallsInstall` | `UndoExact`, `SchemaInstalled` |
| | `Invariance`, `HistoryApart` | the inductive invariants they rest on |
| `EntitiesProofs` | `PlanInvariance` | the inductive invariant of planning |
| | `PlansAreSound`, `ValuesHaveOneOwner` | `PlanSound`, `OwnerOfValue` |
| | `CompactionIsFaithful`, `MembersHaveRequired` | `CompactionFaithful`, `MembersComply` |
| `HandlesProofs` | `TypeCorrect` | `TypeOK` |
| | `WriterExclusive` | `ExclusiveWriter` |
| | `OperationAppliedOnce`, `GuardHonoured` | `OperationOnce`, `BasisGuarded` |
| | `IdentitiesDistinct`, `GenesisOnce`, `NamesKeepTheirIds` | `IdsDistinct`, `OneGenesis`, `IdentityStable` |
| | `RepliesAreDurable` | `ReplyDurable` |
| | `CacheIsCoherent`, `FactsOnNamedEntity` | `CacheCoherent`, `FactsNameRightEntity`, if `"apply" \notin CommitMayFail` |
| `LedgerProofs` | `LedgerImplemented` | `ImplementsLedger`, under the same assumption |
| `SpeculationProofs` | `TypeCorrect`, `CacheIsSound` | `TypeOK`, `CacheSound` |
| | `NoGhosts`, `LeftoversStayApart`, `ViewShowsReports` | `GhostsStayOut`, `LeftoversApart`, `ViewIsReported` |
| `ReplicationProofs` | `EventsAppliedOnce`, `Convergence` | `AppliedOnce`, `Converged` |
| | `ReplicasContinue`, `LogsAreSafe` | `ReplicaContinues`, `LogsSafe` |
| `FollowProofs` | `TypeCorrect`, `ReceivedInOrder`, `OneLateAtMost` | `TypeOK`, `InOrderOnce`, `AtMostOneLate` |
| `RecoveryProofs` | `BackupIsSafe`, `NothingOverwritten` | `BackupSafe`, `NeverOverwritten` |
| | `FilesAreSound`, `DamageIsHandled` | `FileSound`, `DamageHandled` |
| | `ContentInvariance` | the inductive invariant of a file's content |

The assumption on `CommitMayFail` is needed: run `import` is a counterexample without it.
`TransactorProofs` uses `WorkloadsAssumption` (typed requests; a seed that lists no fact
twice and, being one committed transaction, gives a cell two values only where the
attribute is many),
`NamesAssumption` and `NoneAssumption`, and says nothing of which operations come;
`EntitiesProofs` that requests are typed (`RequestsAssumption`: records are any set
`Records` closed under nesting, so depth is not bounded), that finitely many attributes are
declared and that an absent entity is no number (`EntitiesAssumption`);
`ReplicationProofs` that a request gives a cell one value (`WorkloadsAssumption`), since
all its attributes have cardinality one; `RecoveryProofs` that writes are typed, a
reference naming an identity, that a copy has pages (`ActivitiesAssumption`), and that the
UUIDs of events, the selectors of application identities and the system attributes are
apart (`SelectorsAssumption`).

The arguments:

- *The diff.* `IInv` of `TransactorProofs` is `StoreOK` (rows and events have their
  types, order numbers are bounded, so that there is a last row, and no triple is live
  twice), `PlanOK` and `DiffOK`. `DiffExact` is not inductive: it does not say which row
  stands for a triple of the working set. `DiffOK` does: the set holds the loaded rows
  not dropped and the assertions not canceled, no triple twice, and no surviving
  assertion repeats a dropped row. The four steps of the loop are then one of two moves
  (`DiffMoves`), and what `Commit` makes of the rows (`CommitRows`) keeps triples unique.
- *Time travel.* A commit ends live rows and adds rows of its own transaction, so it
  changes no earlier view; rows it deletes are of attributes whose `nohistory`
  declaration is a row, and such rows never go except by excision (`DeletedIsDeclared`).
  `LogMatches` is `TimeTravelMatchesLog` between transactions as well as inside one, and
  its step compares the payload of the new event with the rows that begin and end in it.
- *Excision.* `AuditInv` adds what later excisions may meet: an excision's transaction
  wrote nothing but its marker, a marker names its transaction and entity, only an
  excision redacts (`ExcisionsOK`). Without that, the next excision could delete the rows
  that account for the last one.
- *Requests.* `CasOK` ties the swaps to their operations in the plan: one swap per cell,
  its retraction before its assertion, and there if the cell holds something. `EffectsOK`
  follows the loop from the point of view of a swapped cell and of a retracted entity:
  before the assertion of the swap the cell is empty, and after it
  `validateCASIsolation` leaves nothing that could touch it.
- *Constraints and shapes.* That a cell has one value is not a fact about the plan but
  about the loop, so `DiffKeeps` follows the working set: one row per cell of cardinality
  one (`OneCell`), one owner of a unique value (`OneHolder`), a row dropped only for a
  retraction or a replacement (`DroppedWhy`), and the assertions nothing takes back still
  there (`ActiveStays`). `RowsApart` says of the past what `StoreOK` says of the present:
  rows of one triple, or of one declaration, are never live at once, so a view has one
  declaration to read. A member that `validateTouchedShapes` does not look at has the
  rows it had, and its shape too.
- *Undo.* `UndoPlanned`: the plan is the inverse of every row the target began or ended,
  each once. `UndoDiffed`: the loop drops a row of another transaction only for a value
  that goes back into its cell, and when the target is the latest transaction every
  value put back survives. What is live after the commit is then compared row by row
  with `prior`, the rows as they were before the target, which the rows that are left
  cannot tell. `PriorOK` says what became of each: every row of `prior` that was live is
  still there, live or ended by the target, or was destroyed (`SeenOrDestroyed`), and no
  row that is left from before is missing in `prior`. Cells that were not as declared are
  excluded because there one value put back replaces another (`RespectsSeen`).
- *Schema calls.* `CallPlanned`: the groups are planned in order and no retraction follows
  an assertion it matches. So every assertion of the call is active at the end, and what
  the call does not assert but the store declared is retracted (`CellCleared`,
  `StaysDropped`).
- *Entities.* `PlanInv` ties the plan to the calls of `planMap` under way, for any depth:
  the stack is the chain of records around the innermost one (`Nesting`), what was planned
  since a call began is what its record and those nested in it say (`Spans`), so that
  moving exactly these to the owner keeps records whole; the fields that are left are the
  last ones (`FieldsLeft`), all unique values before them are planned (`Given`), and the
  first assertion of a value has the entity of every settled record that gives it
  (`FirstOwns`). A redirection changes the entity of a whole span and of the tokens that
  stood for it, and a case of each conjunct says why that is enough.
- *Compaction.* `Remap` is the rank of an identity among those kept. `Ranks` proves that
  ranks of a finite set of numbers are distinct and are the first numbers, from the
  cardinality facts of `FiniteSetTheorems`; `Compact` concludes that renumbering is
  injective on whatever the result mentions and onto the identities handed out, which
  gives both halves of `CompactionFaithful`.
- *Replication.* `SameEventsSameState` cannot be proved from the logs' last states: two
  stores got there along different orders. `WellFormed` says of every store, and of the
  working copy of every import, that a fact is live exactly when one more event asserted
  than retracted it (`Balanced`), which depends on the set of events alone. The rest of
  `IInv`: every event in a log, a working copy or a file is an event of some store
  (`Events`), there is one per UUID, and a peer numbers its own, so that a fresh UUID is
  fresh. `ReplicaContinues` needs the order too: `Traced` keeps the states a log went
  through, each event one that reproduces on the state before it; two logs with the same
  prefix have the same trace (`SamePrefix`, by a least counterexample), so what
  reproduced at the source does at the replica.
- *Backup.* `IInv` of `RecoveryProofs` says what is true of the temporary file at each
  step (`TempOK`: complete from the check on, accepted by doctor from the sync on, synced
  from the link on) and that whatever has the destination's name is synced (`DestOK`), so
  that a crash cannot tear it. Doctor's verdict stays unexpanded here: the argument is that
  the file it was asked about is the one that is published.
- *The file.* `Good` is what is true of a file that only the program has written: one
  identity per selector and the last one a transaction's (`RegistryOK`); rows on
  identities older than themselves, one open row per cell (`RowsOK`), a transaction
  asserting and retracting one row at most and a cell's intervals apart (`SparseOK`); the
  index and the blobs exactly those of the rows (`DerivedOK`); each retained payload
  reproduced by the rows unless history was given up (`ReceiptsOK`); what excisions name
  cleared and older, and nothing else cleared (`AuditOK`). Doctor's checks follow from it
  (`GoodIsQuiet`), down to the count of redacted events, a bijection. Put and excision are
  both a transaction that lets rows go, closes some and adds some: `ChangeKeepsGood` asks
  of one only that every event with a row among those gone is cleared or has given up its
  history (`GoneRightly`), which is where the two differ.
- *Damage.* Doctor sees a row only through what mentions it, so each kind of damage
  is a lemma on a good file: a lost identity leaves a gap or shortens the list of what its
  event created; a lost, reopened, closed or changed row makes the export of the transaction
  that wrote or closed it another one (`LossTells`, `ReopenTells`, `CloseTells`,
  `ChangeTells`), because that transaction has no second row to take its place
  (`SparseOK`); a lost payload is not one an excision named. `Unseen` is exactly what these
  leave out. Doctor's repair needs the rows alone: `RepairRestores` gives back the file.
  `CaughtInv` says of a damaged file what stays true while repair is tried: it commits
  nothing where something fatal is left.
- *Exclusion.* `ExclusiveWriter` is inductive with `TypeOK`: the mutex separates
  the callers of one handle, the file lock the handles. From it: nothing changes
  the file while a caller is past its checks (`FileKept`).
- *Receipts.* What `OperationOnce` needs is not in the log but in a caller that is
  about to extend it. `ReceiptInv` adds `RequestChecked`: a caller past its checks
  has no event under its operation id and its guard is the present basis. Only
  `Commit` and `Initialize` change the log (`FileStep`), and `FileKept` keeps
  `RequestChecked` true until the caller commits.
- *Identities.* `AllocationInv` adds where the allocator stands (`Allocation`: above
  every id in use), that a running call has an initialized file (`Opened`), and
  that a new name carries exactly `next` while its row is still absent
  (`FreshIsNext`). `CommitAllocates` is the resulting summary of a commit.
- *Cache.* `CacheCoherent` alone is not inductive, because a writer extends the
  cache before it commits. `CacheInv` adds `CacheUsed`: a caller past its checks has
  a current cache, a known name has the id of the table, and a caller at `COMMIT`
  has as cache the table it will leave. `CacheKept`: nobody else touches it.
- *Ledger.* The mapping is only defined where numbers can be told apart, so the
  invariant `Inv` collects what the theorems above give: transaction numbers identify
  events, every event but the genesis is on the one entity its name stands for, a
  caller's basis and its reply are transactions of the log. Then each action of
  `Handles` is either a step that leaves everything abstract alone (`QuietStep`) or one
  of six simulations: `Initialize` founds the ledger, `Call` asks, the ends of a call
  refuse or repeat, `Commit` appends and answers, and `Crash` loses the callers of a
  process.
- *Speculation.* `CacheInv`: when `current` says so, the cache is the table the next
  statement will see (`Seen`), the view's inside a savepoint and the file's outside; and
  once a view has written, it is the view's whatever failed since. The file's part then
  follows from it. `LeftoverInv` does not say what a failed write leaves but what every
  write relies on (`Apart`): an identity or a transaction number that is in use, by an
  event or by a leftover, has its row. A statement sequence cut off anywhere keeps that
  (`UnfinishedApart`), and a whole one that finds none of its numbers among the rows
  gives its event numbers nobody has (`WrittenApart`); the file's mark is above every
  row, so there nothing ever collides (`WrittenBelow`). `ReportInv`: the savepoint
  of the apply, not the view, holds what has been reported; before the view has the
  writer lock it has reported nothing, and from then on nobody else commits.
- *Follow.* `Cursor`: the batch is the run of transactions right after `since`, what was
  received is 1 to `since`, and the record in hand is the next. `LateInv` adds that a
  full record in hand whose transaction is redacted by now was read before the excision,
  and that nothing received before it is as late.

What is only model-checked:

- `CallReturns` and `EventuallyReceived`: liveness under fairness is out of the prover's
  reach.
- `RestoreExact`, `StreamsJudged`: `Restored` is a fold over the stream, and what a fold
  computes for every input takes induction over data.
- `QueryMeaning`, `AsOfStable` and, in the same module, `PagesComplete`: the evaluation
  of queries is recursive, which the prover cannot reach.

## Not modelled

- Vectors and their inferred schema, transaction facts, metadata and timestamps in the
  pipeline; value types other than integers, references and texts; `dims`, `doc` and
  `vector_model`.
- Anonymous identities in event streams; `Replication` has attributes of cardinality
  one only.
- Doctor's `integrity_check`, genesis rows, value domains, and its checks of types,
  uniqueness, dimensions and shapes. Doctor without repair runs outside a transaction,
  so a commit of another process between two of its queries may look like a fault; the
  model's doctor reads one state.
- Of queries: parsing and validation, the work budget, pull, order, limit, offset,
  inputs. `Validate`, `CheckSchemaManifest`, `History`, `Diff`, `Changes` and `Why` only
  read, from the visibility rule that is modelled.
- `Excise`, `Backup` and `Doctor` called on the view of a speculation: they lock
  `store.mu`, which is held, and never return. A callback that panics leaves its
  savepoint open.
- Search: ranking is floating point and SQLite's FTS5. The value codec is covered by the
  shared conformance cases. CLI and MCP are transport. The ports repeat the format; this
  model follows the Go code.
- The `int64` limit of the allocator.

## Plan

1. `Replication`, second part: attributes of cardinality many, anonymous identities.
2. `Recovery`: damage of two rows at once, and doctor's checks of types, dimensions and
   shapes.
