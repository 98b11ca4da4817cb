# A verification project for Craton Bolt

Craton Bolt is a SQL engine that compiles queries to GPU kernels. Around the
compiler it has a stateful core: a persistent catalog of immutable Parquet
files, transactions with snapshot isolation, materialized views, a runtime that
shares one engine between sessions, and the pools, caches and budgets that
execution draws on. That core is where the order of steps matters: two sessions
interleave, a process stops between two renames, a refresh is half done. It is
what these TLA+ modules model, what TLC checks on small instances and, for a part
of it, what TLAPS proves for all of them.

## The system, part by part

Paths are relative to `src/src/`. "Hard" names the behaviour that a test can
hardly reach.

| Part | Modules | Hard | Promise |
|---|---|---|---|
| Persistent catalog (`storage/catalog.rs`) | `Manifest`, `Catalog`, `SnapshotStore` | the process stops, or a rename fails, between any two durable steps | the previous snapshot stays intact; a commit is one new snapshot; old snapshots stay readable until vacuum |
| Engine transactions, and what statements do to tables (`exec/engine_txn.rs`, `engine_ddl.rs`, `engine_dml.rs`) | `Transactions`, `SnapshotIsolation` | several transactions interleaved statement by statement on one engine | snapshot isolation, first committer wins |
| Session runtime (`exec/session.rs`) | `Sessions` | who runs while a serializable transaction is open | every statement is answered |
| Materialized views (`exec/engine_views.rs`) | `Views` | a refresh is two commits; a base table is dropped and made again | a view called fresh holds the result of its query |
| Device memory pool (`cuda/mem_pool.rs`, `cuda/buffer.rs`) | `DevicePool` | locks are released between finding a block and taking it; frees wait for several streams | no block has two owners, none is reused while the device works on it |
| CUDA contexts and what is cached in them (`cuda/*`, `exec/module_cache.rs`) | `Contexts` | an engine is dropped while the watcher or a worker acts on its context | nothing of a dead context is used |
| GPU tables, storage scans, plans, morsels (`exec/engine.rs`, `engine_support.rs`, `engine_storage.rs`, `engine_streaming_impl.rs`) | `GpuTables` | a cached copy, scan or plan is reused after its table changed, or a step failed | queries read the registered rows |
| GROUP BY kernels and their host side (`jit/hash_kernels.rs`, `jit/valid_flag_kernels.rs`, `exec/groupby.rs`) | `KeySlots`, `GroupBy` | threads race on slots with no promise of being scheduled | one slot per key; the groups are exact or the query fails |
| Caches of compiled kernels (`exec/module_cache.rs`, `jit/jit_compiler.rs`, `jit/disk_cache.rs`) | `KernelCache` | two processes share a directory; eviction beside loads that fail | a call gets the kernel of its own spec |

How they interact: a statement reaches the engine through `Sessions`, is run by
`Transactions` over the catalog's manifests (the modules share `Manifest`, and
`Transactions` relies on publishing being one step, which is what `Catalog` is
shown to implement), refreshes views, reads tables through `GpuTables`, takes
kernels from `KernelCache` and memory from `DevicePool`, all inside the context
`Contexts` follows. Each module takes from its neighbours only what its section
below names; there is no composition of all of them.

`MC<module>` modules hold the instances for TLC. Two of them run two components
side by side: a variable `part` says which one a behaviour runs, the other stays
as it started, and the states explored are those of the two.

## The persistent catalog: `Manifest`, `Catalog`, `SnapshotStore`

`Manifest.tla` holds a snapshot as a value and the change each operation makes
to its copy (`create_table` is `NewTable`, `append` is `AppendRows`, and so on).
The maps are total functions with `None` for an absent entry. A data file is its
path and its rows; a path is the three numbers of
`data/<id>/part-<version>-<k>.parquet`. Column lists, clustering keys, byte
counts and per-file statistics decide nothing and are left out.

`Catalog.tla` is the directory and its one writer.

| Variable | Code |
|---|---|
| `files`, `manifests`, `current`, `lock` | `data/`, `_bolt/manifests/`, `_bolt/CURRENT`, `_bolt/LOCK` |
| `manifest`, `txn_base` | the fields of `Catalog` |
| `pc`, `next`, `todo` | where a running operation is: the manifest `commit` is publishing, what `vacuum` has still to delete |

An operation runs up to its first durable step in one action. `commit` renames
the manifest (`PublishManifest`), then `CURRENT` (`PublishCurrent`), and either
may fail (`PublishFails`). `vacuum` deletes old manifests one at a time, collects
the references, then deletes files one at a time, and any deletion may fail.
`Crash` is possible everywhere, and leaves the lock for `RemoveStaleLock`.
`FailedWrite` is a data file that was renamed into place and then could not be
read back. Temporary files are not modelled: `write_atomic` and `write_parquet`
sync them before the rename. The directory itself is not synced by the code, so
what a power failure does to the order of two renames is outside the model: a
crash is the end of the process.

`SnapshotStore.tla` is the promise: a head, and the set of snapshots that can be
opened. A commit adds the next snapshot in one step, a discard forgets old ones.
`Catalog` implements it with the manifest `CURRENT` names as the head and the
published manifests as the set.

Run `catalog`: two names, batches of one row, snapshots up to number 2, and up to
two data files. The constraint `Small` keeps the union of two instances: one file
with two names, so that creation, renaming and dropping of both interleave with
failed commits and transactions; and two files with one name, enough for a
transaction over a published snapshot with a file of its own while an older
snapshot keeps another, for an orphan manifest being replaced, and for vacuum
interrupted at every point. Deadlock is checked.

Not a run: `UncommittedUnreferenced`. The documentation calls the files of an
uncommitted change unreferenced. They are referenced when the process stopped
between the two renames: the orphan manifest is on disk and vacuum reads it. TLC
refutes the property with the constants of `catalog`. The files go once that
manifest is replaced by the next commit or falls out of the newest ones vacuum
keeps.

Proofs (`Catalog_proofs.tla`), for all names, row counts and bounds: type
correctness, `SnapshotsIntact`, `WorkIntact`, `WriterAtCurrent`, the action
property `TimeTravel`, and that `Catalog` implements `SnapshotStore`. The
inductive invariant `IInv` adds `Protocol` to the three invariants. Without it
they are not inductive: a publishing step needs to know that the manifest under
way has the number after `CURRENT` (else it could replace a published one),
reading `CURRENT`'s manifest needs at most one manifest per number, and a vacuum
step needs to know that what is left to delete is neither the current manifest
nor referenced. The proof first reduces every operation to one shape,
`Change(m, fs)`: new files under unused names, and a commit of a manifest built
from old and new files. `ChangeInv` then treats all operations at once. The
assumptions are `CatalogAssumption`: the bounds are numbers, and `None` is none
of the values it stands beside.

`StatisticsExact` follows from a second invariant, `HeldExact`, of every manifest
on disk, in memory, kept for a rollback or under way (`Held`): a row count in it is
the sum over the files next to it. All the manifests are needed, since a rollback,
a restart or a failed commit brings an older one back. The row count is a fold over
a set of files; that it is unfolded one file at a time (`RowCountIs`) is shown from
the definition of the fold.

The catalog's `commit_concurrent`, which merges two manifests when transactions
overlap, is in `Transactions` (next section). It is the reason why nothing is said
here of table ids: two transactions may hand out the same id, and two tables then
share a data directory.


## Engine transactions: `Transactions`, `SnapshotIsolation`

`Transactions.tla` is `exec/engine_txn.rs` and the statements of
`engine_ddl.rs`, `engine_dml.rs` and `engine_views.rs` as far as they change
tables, over the manifests of `Manifest.tla`. An action is one job of the
runtime: `activate_session`, then one statement.

| In `engine` | Code |
|---|---|
| `tables`, `versions` | in-memory tables (a table's rows are the stamp of the write that made them) and `table_versions` |
| `scans` | catalog tables registered as storage scans |
| `views` | `Engine::views`, by the stamp of the last refresh |
| `manifest`, `txn_base` | the installed catalog state |
| `txn`, `parked`, `committed` | the installed transaction, the parked ones, the committed state set aside |

`Capture`, `Install`, `Park`, `Activate`, `Merge` are the methods of those names.
`Install` re-registers only what differs, name by name and in the code's order,
so what queries read can in principle disagree with the manifest; `IsolationSpec`,
whose database is what queries read, says that it does not. `published`, `files` and `epoch` are `CURRENT`'s manifest,
the data files on disk, and `data_epoch`. Publishing a manifest is one step here,
which is what `Catalog` is shown to implement. A view is created, refreshed and
dropped in one step; the steps inside are in `Views`.

`SnapshotIsolation.tla` is the promise: a database, a private copy per open
transaction, its base, and the contents at its savepoints.

Run `transactions`: two sessions, a catalog table, a view, an in-memory table,
three writes. Three writes are a write before both transactions, and one in each:
the least that gives a write-write conflict, a merge of disjoint changes, and a
third state to come back to. With two savepoints (equal names included) they are
one before, between and after them. The constraint `Small` keeps the union of two
instances: two transactions with views and without savepoints, or one transaction
with savepoints and without views, parked with one savepoint at most. It checks
the refinement (`IsolationSpec`), that the committed state kept aside is the
published one, that an aborted
transaction changes nothing, and, with `VACUUM`, restarts and transactions that
hand out the same table id, that a file is never shared (`NoSharedFile`) and
never removed while an open transaction or a savepoint can publish it
(`FilesKept`), and that every table id is below the counter of its manifest
(`FreshIds`), so that `CREATE TABLE` never takes the directory of a table its own
snapshot has. Two transactions that create tables at the same time do take the
same id, and their tables share a directory; `NoSharedFile` is what holds then.

Two properties that the documentation states do not hold, and are stated in the
module without a run of their own:

* `CommitReplaces`: the in-memory merge and the catalog merge do not look at each
  other's names. A transaction creates catalog table `a`, another session creates
  in-memory table `a`, `COMMIT` succeeds, and everyone reads the in-memory table.
  TLC refutes it with `a` in both `TempNames` and `DurableNames` and no `m`.
* `OutsideIsCommitted`: `activate_session` takes a state out of the engine before
  `install`, which can fail. The transaction is then gone and its uncommitted
  manifest stays installed, outside any transaction. TLC refutes it under
  `SpecWithErrors`, where installing may fail; the other properties are checked
  under `Spec`, where it does not.

Proofs (`Transactions_proofs.tla`), for all sessions, names, savepoints and
writes: type correctness, `CommittedIsPublished`, `FilesKept`, `NoSharedFile`,
`FreshIds`, and `OutsideIsCommitted` under `Spec`. A statement is a function on the engine, so the
lemmas speak of an engine `e` that need not be the installed one: `Activate`
yields an engine that is `Consistent` if the one it got was, and every statement
is followed from there. The inductive invariant `IInv` has `Consistent`, which
ties the four places a state can be in (installed, parked, committed, savepoint)
together, and `FilesInv`: every manifest held anywhere is made of files on disk,
and a file belongs to one table name over all of them (`OneName`). `NoSharedFile`
is not inductive without it: a merge takes the entries of one manifest into
another, and two transactions do hand out the same table id, so that only the file
names, which `NewFile` takes apart from all files there are, keep tables apart.
`FreshIds` is a part of `FilesInv`: it needs every manifest that can come back, and
that the merged counter is the larger one.
Assumption: `None` is none of the values it stands beside (`NoneAssumption`).

The refinement `IsolationSpec` and `AbortedIsInert` are checked by TLC only. The
first holds for names that are either in-memory or durable: with names that may be
both, TLC refutes it (`CommitReplaces` is the reason), so a proof would have to
assume what the code does not guarantee.

Not modelled: lazy result streams, storage tables registered without a catalog,
and the individual DML forms, which differ in the rows they produce and not in
what they do to the state.

## The session runtime: `Sessions`

`Sessions.tla` is `exec/session.rs`: clients submit jobs over a bounded channel
and one thread runs them. `run_jobs` is split where it blocks. `pc = "loop"` is
the top of its loop, `pc = "recv"` the wait for a job, with the `holder` that was
computed before the wait.

| Action | Code |
|---|---|
| `Submit`, `Send` | `submit` makes the job; `send` blocks while the channel is full |
| `DropSession` | `SessionGuard::drop` sends a rollback |
| `Cancel` | a `PendingResult` is dropped |
| `SetIsolation`, `Close` | `set_isolation`; `close`, or the last handle |
| `TimePasses` | a job has waited for the limit |
| `RunDeferred`, `Wait`, `Receive`, `Timeout`, `ViewTick`, `Disconnected`, `Rollback`, `Stop` | the branches of `run_jobs` |

Of the engine only the open transactions and the installed one are kept. Running
a job is `activate_session`, which may fail when it has a state to install
(`ActivationFails`: the job gets the error, a transaction that was taken out is
gone), and then the statement.

Fairness (`FairSpec`): weak fairness of the runtime thread as a whole, of each
blocked `send`, and of the clock. The thread is an operating system thread that
no lock of a client can hold up, a channel serves its blocked senders, and time
passes. `Timeout` is the end of a wait that the oldest deferred job bounds. A wait
that ends for the tick of scheduled views is `ViewTick`, of which no fairness is
assumed: a database need not have such views, and the answers may not depend on
them. Nothing is assumed of the clients: none has to submit, commit or close.
Weak fairness of a blocked `send` would not be enough if the channel could be
full and not full by turns for ever; within the bound on jobs it cannot.

Runs (two sessions and a channel of one place, so that senders do block; each
dropped session adds a rollback to the statements):

* `sessions`: both levels, two statements and up to two rollbacks, scheduled views
  and one switch of the level. Every accepted statement is in the channel, in the
  deferred list, or answered, and once; under Serializable a statement runs only
  when no other session is in a transaction; every accepted statement is answered;
  a closed database stops, and only when nothing is left; under Snapshot a dropped
  session's transaction is rolled back. Dropping the first session ends its
  transaction, so a deferred `BEGIN` does get its turn within these bounds.
* `session_drop` (violation): under Serializable the rollback of a dropped session
  can be deferred behind its own `BEGIN` and time out there, and the transaction
  stays open for ever.

Three more disagreements with the documentation have no run. `SessionOrder`:
under Serializable a session's later statements overtake those deferred behind
its `BEGIN`. `QueueBounded`: deferred statements do not count against the
capacity. TLC refutes both with `Levels = {TRUE}` and four statements. The third is not stated in the
module: `run_jobs` reads the isolation level before it blocks, so that the first
statement after `set_isolation` still runs under the old one.

Deadlock is not checked: after `close` the system stops, and a bounded number of
statements comes to an end. `Answered` and `Stops` say what deadlock checking
would have.

Proofs (`Sessions_proofs.tla`), for any number of sessions, statements and places
in the channel: `NothingLost`, `CleanStop` and the action property `Exclusive`.
The inductive invariant says that the jobs without an answer are those in the
channel and in the deferred list (`Accounted`), that the list followed by the
channel is in order of arrival (`Ordered`, from which no job is there twice), that
nothing comes in after a disconnect (`Ended`), and that under Serializable at most
one transaction is open, which at the wait for a job is the one of the `holder`
that was computed before it (`Alone`). `Exclusive` rests on the last: the thread
decides by a value it read before it blocked. What removing the late jobs from
the deferred list leaves (`Without`, a recursive function) is shown by the least
index at which it would be wrong.


## Materialized views: `Views`

`Views.tla` is `exec/engine_views.rs` for durable views over catalog tables,
outside transactions. A statement runs alone, but it is several catalog commits:
`op` says what it does next, and `Restart` (a crash) and `Fail` (an error) can
come between two of them where `Faults` says so. `tables` and `metas` are the
published snapshot, `views` the engine's own list.

Rows are bags of symbolic rows. A base file holds one row named after it, and a
query is the bag sum of what it reads, so a row that is counted twice or missed
shows up, as it would in a `SUM` or a `COUNT`. A refresh is full or adds only the
appended files, by the test the code makes (`CanAppend`). `COMPACT` replaces the
files of a table, also a single one, which `ORDER BY` rewrites. A query may be answered
from a fresh view with the same plan (`Answers`), also the query of another view
being created. `ids` (the tables the rows of a view
were computed from) and `before` are history.

Runs:

* `views`: two settings (`MCViews`); `setting`, chosen once, says which one a
  behaviour runs. In `Mixed`, a view over a
  table, and a second view over the first or with its query, refreshed on commit
  and on a schedule; appends, rewrites, compactions, drops, replacements, and
  restarts wherever no view is half written. A view that is reported fresh holds
  what its query returns, as long as the tables its rows came from were not
  created again (`FreshIsExactUnlessRecreated`). In `Chain`, two on-commit views,
  one over the other, with errors and crashes between any two commits. The engine
  works with no definition that is not on disk (`ViewsAreDurable`), no definition
  is without its rows (`ViewHasRows`), and when the catch-up loop returns no
  on-commit view is stale (`OnCommitViewsCaughtUp`). No table is dropped in
  `Chain`: after a `DROP MATERIALIZED VIEW` that failed at its first commit the
  engine has forgotten the view, so `DROP TABLE` accepts its rows and leaves the
  definition without them; so does `CREATE OR REPLACE TABLE` with a view's name.
  `RowsNotDropped`, the premise of `ViewHasRows`, names these cases. For the same
  reason `ViewsAreDurable` lets the engine's list lack a view.
* `view_torn_refresh` (violation): rows and definition of an incremental refresh
  are two commits. A crash between them makes the next refresh add the same files
  again, and the view is reported fresh.
* `view_recreated` (violation): a base table dropped and created again starts at
  version 1, so a view of the old table counts as fresh.

Two more disagreements have no run. `FailureLeavesTables`: `OR REPLACE` drops
before it creates, and a failure leaves nothing; TLC refutes it with one view in
`Replaceable` and errors in `Faults`. And with `OR REPLACE` two on-commit views
can be made to read each other: `OnCommitViewsCaughtUp` then fails, because the catch-up loop gives up with
one of them stale (`Queries` that let `v` read `w`, eight files).

Bounds: five or six files; three or four data versions of
a table; at most one drop. A refresh and its base change take one file each, so
six files allow three rounds of change and refresh, enough for an incremental
refresh that follows a torn one. The exact values are in `MCViews`.
Views changed inside transactions are single steps in `Transactions`. Views of an
engine without a catalog, and MIN and MAX, are not modelled.

### Proofs: `Views_proofs`

For every finite set of names, every setting (which views there may be, what they
read, when they are refreshed, what may be interrupted) and every bound:

* `FreshViewsExact`: `FreshIsExactUnlessRecreated`;
* `DefinitionsDurable`: `ViewsAreDurable`, whatever crashes and fails;
* `ViewsHaveRows`: `ViewHasRows`;
* `TypeCorrect`.

The assumptions on the constants (`ViewsAssumption`) are typing, that `Names` is
finite, and that no view is both on-commit and scheduled (the code keeps one
`RefreshMode` per view).

The first takes a stronger invariant, `ExactInv`, because freshness alone does not
survive a refresh from the added files. For each definition, provided the tables
it reads are still the ones it was computed from (`SameTables`):

* `Exact`: the recorded versions are not above the tables' own, and if they are
  equal the rows of the view are the query's;
* `Extends`: if no recorded file is gone, the rows of the view are the contents of
  the recorded files, whatever was added. This is what an incremental refresh
  relies on. Compaction keeps it because a path is never used again (`TablesInv`):
  a compacted table has none of the recorded paths.

Between the two commits of a refresh `Extends` holds for the definition about to
be written and not for the old one; that is the window of `view_torn_refresh`, and
why the theorem has the premise `Faults = {}`. Every step that changes a table is
one of four kinds (`TableStep`: dropped, made, changed, compacted), and
`KeptExact` and `KeptExtends` say once for all of them that a view whose own rows
do not change stays right. `Computed` says what the rows returned by a query, by
another view that answers it, or by an incremental refresh are worth.

The rows are sums over sets of files, defined by a fold. `SumStep`, `SumAny` and
`SumSplit` prove, by a least counterexample, that the fold does not depend on the
order in which it picks the files and splits over disjoint sets; this is what makes
"old rows plus added files" the rows of all files.

`OnCommitViewsCaughtUp` is only model-checked: that a number of rounds equal to
the number of views is enough is an induction along the reads-from relation, and
it does not hold for every setting (two views that read each other, above).

## Device memory and contexts: `DevicePool`, `Contexts`

`DevicePool.tla` is `cuda/mem_pool.rs` and `cuda/buffer.rs`. Every thread has a
stack of the calls it is in, because a sweep calls `free`, which sweeps again. A
step is what a thread does under one lock, in one atomic access, or in one driver
call. The driver is external: it hands out any address that is not in use, fails
when `Memory` is used up, and an event that reports completion did complete; a
query of an event may fail, and so may a wait. After a wait that failed
(`cuStreamSynchronize` and then `cuCtxSynchronize`, or `event_synchronize`) the code
frees the block all the same; `unwaited` keeps the streams this happened with.

`Contexts.tla` is the life of the context an engine owns and of what is cached in
it: blocks, streams, modules, sort graphs, page-locked scratch, the recorded
owning context with its guard and epoch, the watcher, and a worker that frees a
buffer without a context. A context is its serial number, and the code only sees
handles, which the driver may use again. One engine exists at a time (the permit
of `exec/engine.rs`). `Contexts` keeps only which context a pooled block belongs
to; `DevicePool` has the rest.

Run `device`, both side by side:

* `DevicePool` with two threads, two blocks and two size classes, in two parts:
  six calls without work on the device, the least with which a block is evicted by
  one thread between another's look at the index and its look at the bucket, and
  allocated and freed again under a newer entry in between; and four calls with two
  streams, enough for sweeps of a block while one stream has passed its
  event and the other has not. `OneOwner`; `NoPrematureReuse`, except for streams
  the driver refused to wait for; and `GivesUpOnlyWhenEmpty`: an allocation fails
  only if every block that is pooled then was freed after its last search began.
* `Contexts` with two threads, two handles and two contexts, so that the second
  may have the handle of the first: `BindsLive`, `HandlesOfOwnContext`,
  `WaitedStreamsLive`. `Outliving = FALSE` is an assumption of the code
  (`cuda/cuda_sys.rs`: "Any outstanding `GpuBuffer`s drop their pointers BEFORE
  this runs"). A buffer a caller keeps beyond its engine is outside it.

Proofs (`Contexts_proofs.tla`), for any number of threads, handles and contexts:
the three properties of `Contexts`. The permit makes engines take turns
(`EnginesInv`), so at most one context is alive; each cache holds things of that
context only, and only until the stage of the teardown that empties it
(`PoolInv`, `CachesInv`), which is how the order of the steps in `Drop` of
`CudaContext` enters the argument. `BindsLive` needs only the turns and the record
of the owning context (`RecordInv`) and is proved also for buffers that outlive
their engine. The other two are proved under `~Outliving`, the assumption of the
code quoted above. `ContextsAssumption` (the names of
the watcher and the worker are not those of threads, and the mark for no handle is
not a handle) is checked by TLC in `MCDevice`.

Deadlock is checked: a call of the pool that hangs would be one. Read in the code
and allowed by the model, without a property: reconciliation lets the byte counter
drift from the sum of the buckets (only its sign is promised), and `drain` may
miss blocks freed or swept beside it, which then stay in the pool. The look at the
shards of the index is one step. `retry_context_capture` is not modelled.

## Tables on the device: `GpuTables`

`GpuTables.tla` is what an engine answers queries from: eager host rows, the
overlay of lazy streams and morsels, installed storage scans, device copies,
dictionaries, compiled plans, and the two budgets. An engine is used by one thread
at a time, so a call is one action; a query is split at every step that can fail,
and an error keeps what was done before it. Rows are sequences of values that
tell batches apart. The address of a column's `Arc`, by which an overlay table is
taken for unchanged, is taken again once nothing holds it. `torn` is history:
names at which a failed call left something, `split` those whose batches
`register_batch` could not make one again.

A statement may have components that run as statements of their own
(`RunSubplan`); one of them may widen the installed scan of a table to the union of
what both need. Room for a scan is made for an estimate (`Estimate`: for a union,
the larger side), and what it takes in the end (`ActualBytes`, more or less than
that) is reserved unchecked. So the host budget is no hard limit, and no property
says it is.

Run `queries` (its first part): two names, two chunks, a device budget of one row
or none, a host budget of two chunks, one cached plan, two calls that store
something and any queries between them. A copy the engine takes for fresh is exact
(`FreshIsExactUnlessTorn`), dictionaries and plans match the rows
(`DictionariesMatchUnlessShadowed`, `PlansCurrent`), and the scans of a running
query stay installed with the chunks it needs, whatever its other scans and its
components evict (`ScansInstalled`).

The two exceptions in these names are behaviours of the code. A failed
`register_table` leaves a host revision and a dictionary, and a `register_batch`
that fails after it added its batch leaves the revision as it was. Run `stale_morsel` (violation) shows what the first can do to a query in
morsels. And `replace_table` over a storage table leaves the storage entry behind
the new rows: TLC refutes the property without that exception.

## GROUP BY on the device: `KeySlots`, `GroupBy`

`KeySlots.tla` is the three kernels that give a key its slot (linear probing,
Robin Hood, and the one with a valid flag instead of a sentinel), one thread per
row, interleaved at every access to global memory. `GroupBy.tla` adds one
aggregate kernel, the host that turns slots and spills into groups, and
`null_empty_groups`, which makes the groups without a value NULL. Three kinds
stand for all aggregates: one atomic instruction, the compare-and-swap loop over
floats, and the decimal sum of two words under a slot lock.

Run `queries` (its second part): four rows and three keys in four slots, with
homes at the two ends of the table, so that probes wrap around and Robin Hood
displaces a key of which a second row is under way. Fewer rows do not give that.
No key has two slots (`OneSlotPerKey`); a row leaves with its key in a slot,
spilled, or counted as lost (`NoKeyLost`; Robin Hood may give up in silence); the
query fails or its groups are exact, and NULL if all their values are
(`ExactOrReported`). `GroupByEnds` is liveness
under weak fairness of the next-state relation as a whole: some thread runs, and
no thread is promised its turn, which is all a warp may count on.

`ExactOrReported` does not ask for all groups after Robin Hood, which drops a key
at its probe limit, as its documentation says. A group with only NULLs has the
identity of its aggregate when the executor is done. `null_empty_groups` then runs
the plan again with `COUNT`, and makes NULL every group that has no value by this
count, or that the second run does not return. The second run is modelled by what
it may return: it fails, or has the groups `GroupsOfRows` allows, so that after
Robin Hood a group with values may become NULL, which `ExactOrReported` names. NaN, signed zeros, the overflow check
of a 64-bit sum, averages, and the partitioned and shared-memory fast paths are
not modelled.

Proofs (`GroupBy_proofs.tla`), for any number of rows and slots, every hash
function, and each of the three kernels: `OneSlotPerKey`, `NoKeyLost`, and the
half of `ExactOrReported` about keys (`GroupsOfRows`: no group of a key without
rows, none missing, when the executor is done and after `null_empty_groups`). One argument serves all three kernels: a key is only looked
for past slots that hold other keys (`Passed`), and such a slot never takes that
key later. For Robin Hood, which moves keys, `Passed` also says that what is in
those slots is at least as far from home; for the kernel without a sentinel, a
claimed slot has one owner and its key is not read before it is stored
(`ClaimsExclusive`). That the value of a group is the fold over its rows, in
whatever order the atomics ran, is checked by TLC only: it needs induction over
the rows with an operator as a parameter.

## Caches of compiled kernels: `KernelCache`

A call for a kernel looks in the map of the engine (some families), in the spec
cache of the process, in the directory, then generates the text and loads it
through the cache by PTX text. A step is what a thread does under one lock, or one
call of the file system or the driver. A text is named by its spec and the version
of the generator that wrote it. Hashes are modelled by which arguments they
confuse, as one of the `Modes`.

| Variable | Code |
|---|---|
| `engine_cache`, `spec_cache` | `Engine::module_cache`, a `SpecCache` with its order |
| `ptx_cache`, `ready` | `PtxCache`, each entry with its place in the order of use, and the `OnceCell`s that are filled |
| `opened`, `files` | the handle `disk_cache()` keeps, and the `.ptx` files with digest, body and time |

Faults: the generator, a store, an open, a removal or a load fails; a listing of the
directory fails, or misses files whose metadata cannot be read; a process ends
anywhere and starts again; the machine stops, and files renamed but not synced
lose their body. `Clear` runs only when no thread of the process is in a call.

Run `kernels`: two threads in one process, or in two that share a directory and
may be of two versions; two specs; every capacity one; three calls and one fault.
Three calls are one that fills the caches and two that race over them. A call
returns the kernel of its own spec and version (`RightKernel`), two threads never
load one text for its cell at a time (`LoadedOnce`; a text whose hash another one has
taken is loaded without a cell, by as many threads as ask for it), the directory is
within its limit when the sweeps are done and the last listing missed nothing
(`DirectoryBounded`), and every call returns (`Returns`). A listing that failed
leaves the directory over its limit until the next store or open, as the comment in
`store` says; `missed` keeps this. Fairness: weak fairness
of each thread's step, which an operating system thread has and a driver and a
file system that answer. Calls are bounded, so a thread that waits for a cell
cannot be overtaken for ever. Deadlock is not checked, as the calls come to an
end; `Returns` says what deadlock checking would.

Run `ptx_slots` (violation): a load that fails leaves an empty cell, which
`evict_lru_ready` takes for one being compiled, so the capacity is exceeded with
nothing in flight.

Two more disagreements have no run; TLC refutes both with the constants of
`kernels`. `NeverTheWrongKernel`: the spec cache compares the whole spec on a hit,
the map of the engine and the directory do not, so two specs with one 128-bit hash
get one kernel. This is what `RightKernel` leaves out. `OwnEntryStays`: a sweep
may remove the entry its own store just wrote, because the file has the time of
its temporary file, older than one another writer made meanwhile, and because a
file that another sweep removed first is not counted, so one more goes. Only a
recompilation is lost.

Files with equal or unreadable times, the byte limit beside the entry limit, the trust check of
the directory, and temporary files a crash leaves (nothing removes them) are not
modelled.

Proofs (`KernelCache_proofs.tla`), for any finite set of threads, any processes
and specs, every capacity and any number of calls and faults: `KernelsRight` is
`RightKernel`, `CompiledOnce` is `LoadedOnce`. `KernelCacheAssumption` asks for
types, capacities above zero, finitely many threads, and a `None` that is no text.
The inductive invariant (`Inv`) has four parts:

* types;
* `ThreadInv`: a thread that has got hold of a text has the one of its spec and
  version. At a sweep this depends on which sweep it is: the one that opens the
  directory comes before the text, the one of a store after it, and `opened` tells
  them apart because one thread of a process opens at a time (`OneOpener`);
* `MemoryInv`: so does every entry of the spec cache; the map of the engine and the
  digests in the directory too, where hashes tell specs apart. A file without its
  body keeps its digest, so it is not `Valid`;
* `LoadInv`: the cache has one entry for a text, a thread that holds an empty cell
  holds the one of its entry, and no two threads fill one cell.

`RightKernel` is not inductive because a wrong text could wait in a cache;
`LoadedOnce` is not because a thread could hold a cell whose entry is gone. The
last needs that eviction passes over entries with empty cells. Each step of one
thread has the shape `Moves`, and lemmas about it say once what such a step
keeps. `DirectoryBounded` is only model-checked: it counts files over lists that
two sweeps work off at the same time. `Returns` is liveness.

## What is proved and what is only checked

Proved by TLAPS for all values of the constants: the theorems of the modules
`<component>_proofs`, described with their components and listed in
`PROJECT.json`. Each rests on an inductive invariant that is also a theorem there,
and which TLC checked on the instance of the run before it was proved.

| Run | Proved | Only checked by TLC |
|---|---|---|
| `catalog` | all its properties | |
| `transactions` | `CommittedIsPublished`, `FilesKept`, `NoSharedFile`, `FreshIds` | `IsolationSpec`, `AbortedIsInert` |
| `sessions` | `NothingLost`, `CleanStop`, `Exclusive` | `Answered`, `Stops`, `SnapshotDropped` |
| `views` | `FreshIsExactUnlessRecreated`, `ViewsAreDurable`, `ViewHasRows` | `OnCommitViewsCaughtUp` |
| `device` | `BindsLive`, `HandlesOfOwnContext`, `WaitedStreamsLive` | `OneOwner`, `NoPrematureReuse`, `GivesUpOnlyWhenEmpty` |
| `queries` | `OneSlotPerKey`, `NoKeyLost`, half of `ExactOrReported` | its other half, `GroupByEnds`, those of `GpuTables` |
| `kernels` | `RightKernel`, `LoadedOnce` | `DirectoryBounded`, `Returns` |

`Answered`, `Stops`, `SnapshotDropped`, `GroupByEnds` and `Returns` are liveness
under fairness, which the proof system does not do. Induction over data is done by
the least counterexample of a set of numbers (`LeastNatural`), for the sums of
`Views` over the fold itself.

The runs marked as violations are disagreements between the code and what its
documentation says; each is quoted under `findings` in `PROJECT.json`.

The type invariants (`TypeOK`, `TypeGroupBy`) are not among the properties of the
runs. Those of the modules with proofs are part of the inductive invariants; the
others were checked on the instances of the runs while the modules were written.

A `CONSTRAINT` (`catalog`, `transactions`) stops exploration at the states outside
it; those states are still checked, their successors are not explored.

## Not modelled

Most of the repository's lines are the SQL frontend, the optimizer, the planner,
the executors' data paths and the emitters of kernel text: functions from a plan or
a batch to another, over an unbounded syntax, with no state between calls and no
order of steps to get wrong. Differential tests fit them; the models above cover a
small share of the lines and most of the state that outlives a call.

* Memory governor and spill files (`exec/memory.rs`, `exec/spill.rs`): `GpuTables`
  counts the reservations of scans. `try_reserve` checks and then adds, so two
  threads that reserve through a shared handle may go over the budget together;
  consumers registered by callers are not modelled either.
* Out-of-core execution (`exec/engine_ooc.rs`): its temporary tables are `BindTemp`
  of `GpuTables`; how rows are partitioned is data.
* Join, sort, scan and partition kernels: the join build is a linear probe with
  duplicates, the others are arithmetic between barriers. The opt-in graph cache
  of the sort is in `Contexts` as far as the context of an entry goes; that its
  key has neither direction nor null order is not modelled.
* The Flight server translates requests to calls that `Sessions` models; metrics
  and logs decide nothing.
* Views without a catalog, MIN and MAX views,
  lazy result streams in transactions, `COPY` formats.
