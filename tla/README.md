# A TLA+ verification of ShovelerDB

ShovelerDB is an embedded SQL database with vectors, written in Zig. This
directory holds TLA+ modules translated from its source, TLC configurations
that check them on small instances, and proofs checked by TLAPS.

`src/...` below is relative to the repository's root.

## The system

| part | source | state | operations that change it |
|---|---|---|---|
| row store | `src/db/row_store.zig` | rows of a table, `next_id` | insert, insertWithId, update, delete |
| table transaction | `src/db/transaction.zig` | staged inserts, updates, deletes, local `next_id`, state | insert, update, delete, commit, rollback |
| snapshot registry | `src/db/snapshot.zig` | reference count per generation, retained copies | acquire, release, sweep, retainGeneration |
| commit queue | `src/db/commit_queue.zig`, `backpressure.zig`, `concurrency.zig` | pending writers, last sequence | enqueue, abort, complete |
| vector overlay | `src/vector/overlay.zig` | deltas of committed vectors | record, drain |
| executor | `src/db/executor.zig` | tables, commit sequence, sessions | BEGIN, DML, COMMIT, ROLLBACK, DDL, CALL, export, restore |
| catalog | `src/db/catalog.zig`, `ddl.zig` | tables, views, procedures by name | create, drop, register |
| checkpoint worker | `src/db/checkpoint_worker.zig` | the running checkpoint | begin, complete, fail |
| persistence | `src/db/persistence.zig` | the snapshot file and its temporary | writeSnapshot, readSnapshot |
| facade | `src/db/database.zig` | open database, path | create, open, checkpoint, close |
| ABI | `src/abi/*.zig` | database and result handles | open, execute, step, release, close |
| procedures | `src/db/procedure.zig`, `src/sql/procedure_body.zig` | local variables | SET, DECLARE, IF, WHILE, statements |
| queries | `src/db/query_source.zig`, `view.zig`, `aggregate.zig`, `src/vector/search.zig` | none | pure |
| front end | `src/sql/*.zig` | none | pure |
| tools | `src/cli`, `src/mariadb` | none | drivers |

A statement of a session goes through `Database.executeSql`. Its first write to
a table opens a table transaction there. `COMMIT` takes the commit lock, enters
the queue, has the registry copy the current generation when other sessions
read it, swaps in the new store of each table, takes the next sequence and
records the committed vectors in the overlay.

What makes it hard: several sessions overlap on one database; their reads come
from the live store or from a retained copy, and which of the two changes under
them; row ids are assigned twice, locally and at commit; a commit of several
tables can fail after the first; slots for retained copies are few. A checkpoint
writes the live stores to a temporary file, syncs it and renames it over the
database; an I/O error, a crash or a power cut can come between any two calls.
Tables come and go while open transactions point into the list of tables, and a
definition is validated anew each time it is copied.

The code starts no thread. Callers serialise the calls on a handle
(`docs/embedding-abi.md:169`), and BEGIN and COMMIT hold the commit lock, so
that the unit of interleaving is one statement.

## Modules

| module | models |
|---|---|
| `RowStore` | the committed rows of a table |
| `Transaction` | staged writes; what a scan shows; the store a commit publishes |
| `Snapshot` | the registry of generations |
| `CommitQueue` | the sequencer and its backpressure |
| `VectorOverlay` | committed vectors waiting for a drain |
| `Engine` | composes them: one action per statement of a session |
| `SnapshotIsolation` | abstract: what sessions that share tables may observe |
| `EngineIsolation` | the refinement mapping from `Engine` to it |
| `DurableIsolation` | abstract: `SnapshotIsolation` with a file, checkpoints and restarts |
| `Persistence` | the database file and its temporary, under `DatabaseHandle` and the facade: one action per call on the directory |
| `SavedState` | abstract: what a database file promises to whoever opens it |
| `Durable` | composes `Engine` with its file and the checkpoint worker: checkpoints, restarts, tickets |
| `TableDef` | definitions of tables: validation, and what a copy of a definition becomes |
| `Ddl` | CREATE and DROP of tables, views and procedures; table slots; definitions in the file |
| `Embedding` | the C interface and the facade over `Persistence`: who owns the file, and statuses |
| `SqlValue` | values and how they compare |
| `Procedure` | CALL, as a function |
| `Select` | WHERE, ORDER BY, LIMIT, and the nearest vectors, as functions |
| `Query` | joins, GROUP BY, aggregates and HAVING, as functions |
| `QuerySource` | how SELECT finds CTEs, views and tables |
| `Codec` | the payload of the database file |
| `CommitLoop` | `Transaction.commit` as the loops of the code, against `Transaction` |
| `Inputs`, `SelectLaws`, `QueryLaws`, `CodecLaws` | the input of a function, and what the functions promise for it |
| `Recursion` | lemmas: induction over the naturals, and loops of so many turns |
| `EngineSteps` | lemmas: what operators return and what each step of `Engine` does, also to the mapped state |
| `EngineProofs` | COMMIT, checkpoints and restarts step by step, and the theorems about `Engine`, `EngineIsolation`, `CommitLoop` and `Durable` |
| `EmbeddingProofs`, `DdlProofs`, `CodecProofs`, `QueryProofs`, `OrderProofs` | theorems about the file, definitions, the payload, WHERE with joins and groups, and ORDER BY with LIMIT and the nearest vectors |
| `MCEngine`, `MCIsolation`, `MCDurable`, `MCDdl`, `MCQuerySource` | values of constants and symmetry for the runs |
| `MCPersistence` | `Persistence` with a history of the last checkpoint that returned |
| `MCProcedure`, `MCQuery`, `MCCodec` | inputs for `Procedure`, `Query` and `Codec`, and reference definitions for what is only model-checked |
| `MCFunctions` | one state for each input of the three modules above |

State of `Engine`, by field of the code: `store` is `Database.tables[].store`,
`commit_sequence`, `commit_queue`, `registry` and `vector_overlay` are the
`Database` fields of (nearly) those names; `active`, `snapshot_handle` and
`transactions` are fields of `Session`. A table's transaction keeps its place in
the session's list in `pos`, since COMMIT visits the list in order.

| action | code |
|---|---|
| `Begin`, `Rollback`, `Deinit` | `Session.begin`, `rollback`, `deinit` |
| `executeInsert`, `executeUpdate`, `executeDelete` | the functions of that name |
| `executeInsertInvalid` | an INSERT that fails after it opened its transaction |
| `CommitReadOnly`, `Commit`, `CommitFails` | `Session.commit`: no table touched; success; an error at one of the tables |
| `drainVectorOverlay` | `Database.drainVectorOverlay` |

`Persistence` takes `writeSnapshot` apart: `deleteTmp`, `createFile`,
`writeStreamingAll`, `sync`, `rename`, and `fails` for an error of any of them
with the clean-up that may itself fail. `live` is the committed state of the
open database, `phase` and `caller` say how far the call is and for whom. A file
has data and a flag that says whether it is synced; `journal` holds the earlier
directories that a power cut may bring back, since the code never syncs the
directory. `open`, `create`, `execute`, `checkpoint`, `close` and `deinit` are
the calls of the two owners; a database of the ABI saves nothing when it is
closed, one of the facade does. `create` also covers the facade's
`Database.create` on a path that has a file.

`Durable` takes a checkpoint as one step, which `Persistence` justifies.
`initFromSnapshot` is a restart at any moment, by crash or by close.
`beginCheckpoint`, `complete` and `fail` are the worker's; a host holds an open
ticket over any number of statements. The `checkpoint` of a `DatabaseHandle`
does not use the worker, and neither does the model.

`Embedding` adds to `Persistence` who the owner is, and what the last call and its
status were. One action of `ANext` is one call of the header, or the
return of one that writes the file; `shovelerdb_checkpoint` begins a
`writeSnapshot` and `Returns` ends it, with errors, crashes and power cuts
between. A statement that fails may have changed the committed state: a COMMIT that
returns half-way has published tables. The facade is a second kind of owner,
without statuses. Results are copies of rows with a cursor, which no call on a
database touches; they and their accessors are left out.

`Ddl` has the list `tables` beside the catalog that its entries point into
(`TableState.table`, here an index into `db_catalog.tables`). A transaction points to a slot of
the list, as `Transaction.store` does, by address; `moved` says that the list has
been reallocated since. An append may or may not move the list. A pointer that is
used when no table state is there makes the state `wild`: nothing is claimed of
the process until the file is opened again. `loud` remembers that the list has
changed under an open transaction. Rows are known by the name of the table they
were written to and fit every table; how a COMMIT fails is in `Engine`, and reads
through slots are left out. `TableDef.init` is translated check by check, and
`cloneTableDef`, of which there are two in the code, is `init` of what it made.

`QuerySource` is a state machine whose state is the place of the descent: the
source, the scope and the depth. The code visits all sources of a query one after
another; a behaviour visits one of them, so that the behaviours together are the
visits, and a descent that did not end would be a behaviour that does not end. A
depth beyond the limit is not counted further, since the code only compares it.

`Procedure`, `Select`, `Query` and `Codec` are functions, because calls are serialised and
none of them is left half-way by anything but its own error. `Procedure` gives
the rows that the session sees, the count and the error. `Query` first validates
a SELECT with aggregates, as the code does: outside of an aggregate there may only
be columns of GROUP BY. `Codec` has one number where the code writes an integer of
four or eight bytes; `decodeTable` leaves the validation of definitions and rows,
which the code does on the way, to `TableDef` and `Ddl`.

Abstractions. A content of the file is a whole snapshot in `Persistence`; the
length and the checksum are abstracted to whether `readSnapshot` accepts the file.
A row value is an element of `Values` in `Engine`; it stands for the tuple of
columns, already validated. A store is a function from ids to values: the order
of rows, which no statement but SELECT shows, is left out. WHERE is any set of
visible rows; the rows an UPDATE or DELETE gets to before it fails are again
such a set. A statement that fails and changes nothing is no step.
`last_commit_sequence` is left out, since nothing reads it. Allocation failures
are left out. `SqlValue` leaves out text, which compares as integers do, and floats, which do so
among themselves except for NaN; a blob stands for vectors. In `Select` and
`Query` names have been resolved to columns.

`Transaction.commit` assigns ids in a loop; `IsCommitIds` and `IsNextRowId` say
the same as a relation. `CommitLoop` has the loop, and `CommitLoopAgrees` says that
the two agree in every state of the engine.

## Runs

| run | bounds | shows |
|---|---|---|
| `durable` | 3 sessions, 1 table, 1 id, 2 values, 2 commits, 1 retention slot | `TypeOK`, `NoReaderLost`, `RegistryExact`, `SnapshotStable`, `OneTicket`, `RowIdsMonotonic`, `CompletedInOrder`, `DurablyIsolated` (refinement of `DurableIsolation`) |
| `two_tables` | 2 sessions, 2 tables, 1 id each, 1 slot | `QueueIdle`, `CommittedComeFirst`, `SnapshotStable`, with commits that fail half-way; `RetainedReleased` under `FairSpec` |
| `isolation` | 2 sessions, 1 table, 2 ids, 2 commits, a value with and one without a vector, drains of one delta | `OverlayCurrent`, `StagedIdsFresh`, `CommitLoopAgrees`, `Isolated` (refinement of `SnapshotIsolation`), `CommitsWhatItShows` |
| `embedding` | 2 contents, 4 unsettled directories | `TypeOK`, `FileIntact`, `Saves` (refinement of `SavedState`), `StatusTruthful` |
| `ddl` | 2 names, 1 session, 2 statements of CREATE TABLE | `CatalogAgrees`, `FileOpens`, `QuietDdlIsSafe` |
| `functions` | see below | `CallIsDirectSql`, `SelectIsOrdered`, `JoinIsRelational`, `GroupsAreClasses`, `GroupsPartition`, `NearestFirst`, `SnapshotRoundTrips`, `PayloadExact` |
| `lookup` | 2 names of views and CTEs, 1 table, depth 3 | `SelectEnds` |
| `commit_atomic` | 2 sessions, 2 tables | violated: a COMMIT publishes one table of two |
| `checkpoint_durable` | 2 contents | violated: a power cut takes back a checkpoint that returned |
| `ddl_slots` | 3 names, 1 session | violated: rows are published in another table |
| `table_copies` | 2 names, 4 statements | violated: a table that cannot be saved |
| `procedure_params` | 2 names, procedures of 0 or 1 parameters | violated: the parameter is gone after a restart |

Why the bounds are enough to meet the cases. Three sessions are a writer, a
reader of the old generation and one of the new; with one retention slot the
second copy is refused. Two commits give a generation that is neither the
oldest nor the current. One row with two values is enough for `durable`: what a
restart could confuse is an older state of it, an update or a deletion that was
only staged; and with the row deleted before a checkpoint the file has no row to
tell `next_id` from. Two rows with the same local id staged by two sessions
collide at two ids; that an id moved by COMMIT meets another of the same
transaction takes four, which only `CommitLoopBuilds` covers. Two tables are what a
partial commit needs. Four unsettled directories are those of one `writeSnapshot`
and the start of the next, so that a power cut can reach back past a whole
checkpoint. Two names are what a conflict between kinds of objects and a move
of a slot need; a third one leaves a table behind the one that moved. The two
statements of `ddl` are a definition that can be copied and gets a name and an
attribute on the way, and one that cannot be copied. Two names let views
and CTEs name themselves, each other and shadow each other; a limit of three
is reached by views that name each other below a derived table. The theorems do without
these bounds, where they cover the property.

The inputs of `functions`: procedures with one or two parameters, right and wrong
arguments, and bodies of the statements that `MCProcedure` lists, nested up to three
deep, on tables of two or three rows, with loops that end before, at and after a cap
of two; SELECT, joins and GROUP BY over up to three rows of integers, NULLs and
blobs, which do not compare, with columns that GROUP BY does and does not allow;
candidates with ties; databases with every kind of column, index, value and default.
The references are written as sets and relations, not loops: a permutation that is
sorted and stable, the pairs that ON accepts, the classes of an equivalence, the
statements of a procedure written out one after another. The last one substitutes
nothing: an expression is evaluated where a name is the variable's or else the
column's.

Symmetry is declared on sessions and, where no value has a vector, on values in
`durable`, on sessions in `isolation`, and on names and sessions in `ddl` and
`ddl_slots`; nothing orders them, and these runs have no liveness.

Deadlock is checked in every run, and none occurs: a way to begin or to end
something is always enabled, and the states of `functions` stutter.

Fairness. `FairSpec` of `Engine` adds weak fairness of `Deinit` for every session:
owners in the repository always end their session (`defer session.deinit()` at
`src/cli/commands.zig:136`, `DatabaseHandle.deinit` at
`src/abi/handles.zig:128`). No fairness is assumed of commits or drains.
`QuerySource` has weak fairness of the descent, because a call runs until it
returns; no fairness is assumed of the caller.

### What the violated runs say

* `commit_atomic`. `kitty-specs/mvp-sql-vector-memory-kernel-01KT1MHB/spec.md:224`
  says COMMIT publishes atomically. `Session.commit` (`src/db/executor.zig:1293`)
  returns at the first table that fails; earlier tables stay published, and the
  session answers AlreadyCommitted to COMMIT and ROLLBACK until it is torn down. A
  checkpoint saves what has been published (`exportSnapshot`,
  `src/db/executor.zig:203`). `Isolated`, `OverlayCurrent` and `DurablyIsolated`
  hold as long as commits are atomic, and this is the only way in which they are
  lost (see Proofs).
* `checkpoint_durable`. `docs/concurrency.md:77` says a checkpoint writes to
  durable storage. `writeSnapshot` (`src/db/persistence.zig:143`) renames last
  and does not sync the directory. The old file is intact in that case, which
  `FileIntact` and `Saves` show.
* `ddl_slots`. `docs/concurrency.md:30` says COMMIT publishes staged writes.
  `dropTable` (`src/db/executor.zig:379`) moves the table states behind it, and
  an open transaction goes on pointing to the slot. `QuietDdlIsSafe` says when
  this cannot happen.
* `table_copies`. The same specification, line 141, says that committed state can
  be written to disk and reopened. `cloneTableDef` (`src/db/executor.zig:1463`)
  validates a definition again after indexes have got names and columns have
  lost their nullability. With two unnamed indexes on a column, or a column with
  DEFAULT NULL in a PRIMARY KEY clause, CREATE TABLE succeeds and every
  checkpoint fails. `FileOpens` says that a checkpoint that succeeds is sound.
* `procedure_params`. `docs/project-plan.md:9` names persistent procedures.
  `initFromSnapshot` (`src/db/executor.zig:197`) restores them without
  parameters, which the file does not hold.

One more sentence of the documents does not hold in `Engine` and has no run:
`docs/concurrency.md:53` says sequences advance only for commits that publish
writes, but an UPDATE that matches no row opens a table transaction, and COMMIT
counts those (`src/db/executor.zig:1286`).

## Proofs

The theorems hold for any constants that satisfy the assumptions the modules name:
finitely many sessions and tables, positive limits, initial stores whose ids are
below their `next_id`, `NoHandle` not a generation.

The proofs about `Engine` and `Durable` are in layers. `EngineSteps` and the first
part of `EngineProofs` say what operators and steps do. They take what they need of
finite sets as a hypothesis, `FiniteSetFacts`. The second part of `EngineProofs`
derives that from the library (`FiniteSetFactsHold`) and combines the steps to
theorems about behaviours.

Loops are proved about with `Recursion`. The library's induction theorems take an
operator as a parameter, which no installed prover instantiates; `LeastNat` and
`EveryTurn` say the same of a set. A loop in a model is a function on `0..n`, its
states after each turn, and `LoopExists` says that there is one: without it a
recursive function of TLA+ is an arbitrary value. A proof about a loop then names
the set of turns after which an invariant holds, and shows one turn.

**The engine.** `TypeOK`, `RegistryExact`, `NoReaderLost`, `QueueIdle` and
`StagedIdsFresh` are invariants of `Spec`, and `SnapshotStable` is an action
property. None is inductive alone. `IInv` conjoins the first four with
* `StoredIdsOK`: ids of live rows are below the store's `next_id`, and ids of
  retained rows below the live store's;
* `TransactionsOK`: an inactive session has no transactions; every id of the
  base that an active transaction's session scans is below its staged ids and
  its `next_id`; a committed transaction holds no inserts.

`RegistryExact` gives `NoReaderLost` its step: a session other than the
committing one that reads the current generation makes the count exceed the
discount, so that the generation is retained before the sequence moves on.

`CommittedComeFirst` needs `OrderInv`, which adds that the places of a session's
transactions run from one to their number, so that a new transaction takes a
place that is free and last.

**Isolation.** `EngineIsolates` says that `Engine` implements `SnapshotIsolation` on
any number of tables as long as its commits are atomic: `Spec /\ []CommitAtomic =>
Isolated`. `CommitAtomic` is the formula that the run `commit_atomic` violates, so
that the two results together say which behaviours are isolated. The invariant
`OInv` adds to `IInv` that staged writes are consistent with the snapshot
(`StagedOK`), and that a retained copy of the current generation equals the live
stores (`CopiesOK`, which a commit that fails half-way breaks). `CommitIdsFresh` and
`CommitApplies` carry the argument about the ids that COMMIT reassigns;
`AtomicFailure` says that a COMMIT that fails and stays atomic has changed no
store. With one table every commit is atomic, so that `OneTableIsolates` has no
such hypothesis.

`OverlayIsCurrent` follows from the same invariant: COMMIT records the vector of
every row of the stores that it has published, under a generation that no delta had
before. What it does not record is left under an older one: `recordCommittedStore`
(`src/vector/overlay.zig:76`) skips a row whose vector is NULL and does not see one
that was deleted, and nothing takes their deltas out but a drain. A host that drains
can tell such a delta by its generation, and only by that.

`CommitsAsShown` proves `CommitsWhatItShows`. The ids that COMMIT gives to staged
rows depend on those it gave before, so this is an induction over row ids. It is
done with a least counterexample (`LeastNat`): the least staged id that COMMIT
changes would have to be taken by a row of the store, which `StagedIdsFresh`
excludes, or by a smaller one that was changed before. `OneOutcome` is proved in
the same way: the relation `CommittedStores` has at most one member, so that COMMIT
in `Engine` is as deterministic as the loop in the code.

**The loop of COMMIT.** `CommitLoopBuilds` takes any well-formed transaction and
live store, with any number of staged rows. After each turn the store has the
rows placed so far, under ids that `IsCommitIds` allows, and a `next_id` above
them; an id that is taken is moved to `next_id`, which no later staged row can meet
without being moved as well. No turn fails with DuplicateRow, and the store at
the end is the one of `CommittedStores`. `CommitLoopIsExact` and
`CommitLoopExactAcrossRestarts` get the well-formed transaction from `IInv` and
`DInv`.

**Checkpoints and restarts.** `DInv` adds to `IInv` that the file holds stores whose
ids are below their `next_id`, and that an open ticket's generation lies between
the last completed and the current one. It gives the invariants above through any
number of restarts (`SafeAcrossRestarts`, `SnapshotsStableAcrossRestarts`,
`CommittedFirstAcrossRestarts`), `OneTicket` and `CompletedInOrder`.
`EngineIsDurable` says that as long as commits are atomic `Durable` implements
`DurableIsolation`: statements map to steps of `SnapshotIsolation`, a checkpoint to
one that saves the committed rows, a restart to one that ends all transactions
and brings the saved rows back. `OneTableIsDurable` is without the hypothesis.

`RowIdsKeepRising` proves `RowIdsMonotonic`, what
`tests/fixtures/mariadb-adapted/autoincrement-deferred.md:5` says of row ids, with or
without atomic commits. The invariant is `CountersAhead`: the live `next_id` of a
table is never behind the file's. A COMMIT, whole or half-way, only raises it, a
checkpoint copies it and a restart makes the two equal. It does not follow that no
id is ever used twice: a row staged under a local id keeps it at COMMIT if no row
has it then (`src/db/transaction.zig:172`), and another session may have committed
and deleted one with it since.

`CommitsWhatItShows` is not stated across restarts: sequences start again at 0, and
its wording, by the sequence that changes, is about one process.

**The file.** `EmbeddingProofs` proves `TypeOK`, `FileIntact` and that `Persistence`
implements `SavedState`, for any contents and any bound on unsettled directories.
Its `IInv` says that the file at the path is whole and synced in every directory
that a power cut may leave, that somebody is open while `writeSnapshot` runs, and
that the temporary file holds the live state from the write on and is synced before
the rename. The checkpoint maps to the rename; all other steps of the call are
stutters. Every behaviour of the C interface and the facade is one of `Persistence`
(`EmbeddingIsPersistence`), so that all of this holds there, too
(`EmbeddingKeepsTheFile`). `StatusTruthful` is inductive with `IInv`: at the rename
the temporary file holds the live state. Assumed: "ok" is no error, and `Down` is no
owner.

**Definitions.** `DdlProofs` has three invariants, each resting on the one before. `CatalogInv` is
`CatalogAgrees` with types and with the same facts about the file, which becomes
the catalog when it is opened. `DefinitionsInv` says that each definition in the
catalog is rejected by a copy or comes back unchanged, and that those in the file
come back unchanged; `InitTwice` proves the first of any result of
`TableDef.init`, and a checkpoint that succeeds has tried every copy once.
`PointersInv` says that until the list of tables changes under an open
transaction every pointer is to the slot of its table, and rows are where they
were staged. Assumed of the constants: `Rejected` is no definition, absent names
and defaults are no identifiers and values, and the statements are well-formed
lists of columns and indexes.

**The payload.** `PayloadReadsBack` says that `decodeSnapshot` reads back every
snapshot that `encodePayload` writes; hence the payload determines the snapshot
(`PayloadDetermines`). For each kind of item two facts are proved: what was written
is read back whatever follows it, and bytes that follow do not change what is read.
Lists take both from their items, by `EveryTurn`. From the second follows that a
payload that goes on is refused (`LongPayloadRefused`), and so is one that is cut
anywhere (`CutPayloadRefused`): if a beginning could be read, the whole would leave
bytes over. `EverySnapshotRoundTrips` and `EveryPayloadExact` state the run's
properties for every input. Assumed: a stored table has distinct row ids below its
`next_id`, as every table of `Engine` has.

**SELECT.** `SelectOrders` is about rows of any number, any columns, conditions, keys,
directions and limits. What it promises is stated without the code's comparisons:
values are the same, less or of different kinds (`Same`, `Less`, `Compares`), and
rows are ordered by the first keys that differ. `KeyOrder` shows that
`rowComesAfter` computes that order, and `WhereAnswers` what WHERE answers.
Keys are ordered as far as they compare (`KeysOrdered`): of
two rows either one comes after the other, or neither, or both comparisons fail;
and coming after is transitive. One turn of the insertion sort therefore leaves a
longer beginning in order or meets two rows that do not compare (`SinkOrders`), and
the result is a stable sort, or an error exactly when two rows that WHERE accepts
do not compare. That is not obvious, since the sort compares only some pairs; but
a sort that ends has its rows in order, neighbour by neighbour and hence pair by
pair, so that any two of them compare (`InOrderCompares`).
`TopKNearest` uses the same lemmas for the search, where keys always compare.

**Joins and groups.** `JoinLists` follows the loop over the left rows: what has been
joined so far lists, in order, the pairs of these rows that ON accepts, and the
left rows without one. It fails exactly when ON fails on some pair. What ON accepts
is again stated by `Same`, and `OnAnswers` shows that the code agrees.
`GroupsArePartition` follows `buildGroups`: the groups so far partition the rows so
far into the classes of equal keys, in the order of their first rows. Equality of
keys is symmetric and transitive, and reflexive except for blobs, so that a row
with a blob key is alone.

Assumed in these three: values are NULL, integers, Booleans and blobs. With NaN
among the keys, which compares equal to every float (`src/db/query_source.zig:1326`),
or with integers beyond 2^53 compared with floats, coming after is not transitive
and `SelectOrders` does not apply. Distances are integers, that is, totally ordered.

Only model-checked: `RetainedReleased` and `SelectEnds`, since liveness is outside
the prover's reach; `GroupsAreClasses`, whose aggregates add to `GroupsPartition` sums
and extremes over sets, for which the library has no usable theorem; and
`CallIsDirectSql`, whose recursion over the nested statements of a procedure is not a
loop of a known number of turns. `two_tables` and `commit_atomic` have commits that
fail half-way; what holds there without `CommitAtomic` is proved without it: the
engine's invariants, `SnapshotStable`, `CommittedComeFirst` and `CommitLoopAgrees`.

## Not modelled

* The tokenizer and the parsers of `src/sql`: text to syntax tree, which unit
  tests reach well.
* The MariaDB fixture tools, the command line and the benchmarks: no state of
  their own. `references/mariadb` is not part of the engine (`README.md:40`).
* Vector distances, AVG, floats and NaN: floating point is out of TLC's reach.
  The sum of integers, a float in the code, is the integer that it equals.
* Overflow of `i64`: integers are unbounded, and so are procedure variables. The
  size limits of the payload, on writing (ValueTooLarge) and on reading, and the
  bytes of an integer are left out of `Codec`.
* Resolution of column names, projections and expressions beyond the comparisons
  that `Select`, `Query` and `Procedure` use.
* Memory: allocation failures, and who frees what; results of the C interface.
  `Database.create` of the facade frees its path twice when its first checkpoint
  fails (`src/db/database.zig:47`, `:56`); the model has no memory to show it in.
* `Ddl` together with generations: a table created after a generation was retained
  is not in the copy, and its reader gets SnapshotRetentionExceeded. `Engine` has
  fixed tables, and `Ddl` has no generations.
* Two handles on one path, and a checkpoint ticket that a host closes twice.
* Races of threads on the registry: callers serialise.
