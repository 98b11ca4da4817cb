----------------------------- MODULE GpuTables -----------------------------
(***************************************************************************)
(* The tables of one Engine and everything derived from them: the eager    *)
(* host rows, the overlay of lazy streams and storage scans, the copies on *)
(* the device and how their freshness is decided, the string dictionaries, *)
(* the compiled plans, and the two memory budgets that evict copies.       *)
(*                                                                         *)
(* An Engine is used by one thread at a time, so a call is one action,     *)
(* except that a query is split at every step that can fail: no other call *)
(* starts while stmt holds a query.  Each fallible call of the code is a   *)
(* choice between its outcomes, and an error keeps what was done before.   *)
(*                                                                         *)
(* Rows are sequences of values that tell batches apart.  A batch in the   *)
(* overlay also has the address of its first column's Arc: an address is   *)
(* taken again once nothing holds it.  A column revision always equals the *)
(* revision of its table.  data_epoch only grows and is part of a compiled *)
(* plan's key, so plans keeps the entries of the present epoch only.       *)
(***************************************************************************)
EXTENDS Integers, FiniteSets, Sequences, SequencesExt, FiniteSetsExt, Functions

CONSTANTS
  Names,
  Chunks,         \* the chunks of a storage table, a set of values
  LazyRows,       \* what the producer of a lazy stream yields
  TempNames,      \* names statements bind temporary tables to
  TempRows,       \* rows a statement may bind to a temporary table
  Statements,     \* [reads, chunks, rowwise]: tables read, chunks a scan needs
  Subplans,       \* components of the statements the host orchestrates
  Budgets,        \* [device, host]: budgets an engine may be built with, in rows
  Unlimited,
  None,           \* an absent entry
  Arcs,           \* addresses of column Arcs
  PlanCap,        \* COMPILED_PLAN_CACHE_CAP
  MaxCalls        \* bound: calls that store or register something

VARIABLES
  budget,      \* the device and the host budget
  tables,      \* Engine::tables: host rows
  split,       \* those whose batches could not be coalesced
  overlay,     \* streaming_sources
  store,       \* storage_tables: the installed scan and its reservation
  revision,    \* host_revisions, 0 for no entry
  device,      \* gpu_tables: rows and last_uploaded_revision
  deviceOnly,  \* device_overlays
  uploaded,    \* overlay_uploads: the Arc held for each name
  residency,   \* recorded bytes of gpu_residency, 0 for none
  recent,      \* names of gpu_residency, least recently used first
  scanned,     \* storage tables scanned, least recently used first
  dict,        \* the dictionary registry: rows each entry was built from
  plans,       \* compiled_plans of the present data epoch, oldest first
  stmt,        \* the running query
  calls,       \* calls that stored or registered something
  torn         \* history: names with what a failed call left behind

host == <<tables, split, overlay, store, revision, dict>>
copies == <<device, deviceOnly, uploaded, residency, recent>>
vars == <<budget, host, copies, scanned, plans, stmt, calls, torn>>

Streaming == [drained |-> FALSE, rows |-> <<>>, arc |-> 0]

Batch(rows, arc) == [drained |-> TRUE, rows |-> rows, arc |-> arc]

Unscanned == [installed |-> None, bytes |-> 0]

HasTable(n) == tables[n] # None \/ overlay[n] # None \/ store[n] # None

\* What materialize_table(n) returns; None is its error.
Rows(n) ==
  IF n \in split THEN None
  ELSE IF tables[n] # None THEN tables[n]
  ELSE IF overlay[n] # None /\ overlay[n].drained THEN overlay[n].rows ELSE None

Init ==
  /\ budget \in Budgets
  /\ tables = [n \in Names |-> None] /\ split = {} /\ overlay = [n \in Names |-> None]
  /\ store = [n \in Names |-> None] /\ revision = [n \in Names |-> 0]
  /\ dict = [n \in Names |-> None]
  /\ device = [n \in Names |-> None] /\ deviceOnly = {}
  /\ uploaded = [n \in Names |-> 0] /\ residency = [n \in Names |-> 0]
  /\ recent = <<>> /\ scanned = <<>>
  /\ plans = <<>> /\ stmt = None /\ calls = 0 /\ torn = {}

----------------------------------------------------------------------------
(* Arcs and least-recently-used orders.                                    *)

\* Mutant: overlay_uploads remembers an address without holding the Arc.
FreshArcUnheld(n) ==
  Min(Arcs \ ({o.arc : o \in {overlay[n]} \ {None}}
                 \cup {w.arc : w \in IF stmt = None THEN {} ELSE {stmt.whole} \ {None}}))

\* An address nothing of n holds; addresses are only compared within a name.
FreshArc(n) ==
  Min(Arcs \ ({uploaded[n]} \cup {o.arc : o \in {overlay[n]} \ {None}}
                 \cup {w.arc : w \in IF stmt = None THEN {} ELSE {stmt.whole} \ {None}}))

Touched(order, n) == Append(SelectSeq(order, LAMBDA m : m # n), n)

Forgotten(order, S) == SelectSeq(order, LAMBDA m : m \notin S)

\* Names of S, those never used first, then the least recently used ones.
InLruOrder(S, order) ==
  SetToSeq(S \ Range(order)) \o SelectSeq(order, LAMBDA m : m \in S)

Within(bytes, limit) == IF limit = Unlimited THEN TRUE ELSE bytes <= limit

\* The victims an eviction loop takes until what it took is one of enough.
TakenUntil(victims, enough) ==
  LET Prefix(k) == ToSet(SubSeq(victims, 1, k)) IN
  Prefix(Min({k \in 0..Len(victims) : Prefix(k) \in enough \/ k = Len(victims)}))

BumpDataEpoch == plans' = <<>>

----------------------------------------------------------------------------
(* Registering, appending to, replacing and dropping tables.               *)

CanStore == stmt = None /\ calls < MaxCalls

NewBatch == <<calls + 1>>

\* A name that is taken, a batch with another schema, a dictionary or a staged
\* replacement that could not be built: only the data epoch has moved.
Rejected ==
  /\ stmt = None
  /\ BumpDataEpoch
  /\ UNCHANGED <<budget, host, copies, scanned, stmt, calls, torn>>

StoreRows(n, rows) ==
  /\ tables' = [tables EXCEPT ![n] = rows] /\ split' = split \ {n}
  /\ revision' = [revision EXCEPT ![n] = @ + 1]
  /\ dict' = [dict EXCEPT ![n] = rows]
  /\ device' = [device EXCEPT ![n] = [rows |-> rows, rev |-> revision[n] + 1]]
  /\ torn' = torn \ {n}

RegisterTable(n) ==
  /\ CanStore /\ ~HasTable(n)
  /\ StoreRows(n, NewBatch)
  /\ calls' = calls + 1 /\ BumpDataEpoch
  /\ UNCHANGED <<budget, overlay, store, deviceOnly, uploaded, residency, recent, scanned, stmt>>

\* A column has no plan type, or the upload failed: the dictionary stays, and
\* after an upload the revision too.
RegisterTableFails(n) ==
  /\ CanStore /\ ~HasTable(n)
  /\ dict' = [dict EXCEPT ![n] = NewBatch]
  /\ revision' \in {revision, [revision EXCEPT ![n] = @ + 1]}
  /\ torn' = torn \cup {n}
  /\ calls' = calls + 1 /\ BumpDataEpoch
  /\ UNCHANGED <<budget, tables, split, overlay, store, copies, scanned, stmt>>

RegisterLazy(n) ==
  /\ CanStore /\ ~HasTable(n)
  /\ overlay' = [overlay EXCEPT ![n] = Streaming]
  /\ calls' = calls + 1 /\ BumpDataEpoch
  /\ UNCHANGED <<budget, tables, split, store, revision, dict, copies, scanned, stmt, torn>>

RegisterStorageTable(n) ==
  /\ CanStore /\ ~HasTable(n)
  /\ store' = [store EXCEPT ![n] = Unscanned]
  /\ scanned' = Forgotten(scanned, {n})
  /\ calls' = calls + 1 /\ BumpDataEpoch
  /\ UNCHANGED <<budget, tables, split, overlay, revision, dict, copies, stmt, torn>>

\* Mutant: an append leaves the dictionaries of the rows before it.
RegisterBatchKeepsDictionary(n) ==
  /\ CanStore /\ tables[n] # None
  /\ tables' = [tables EXCEPT ![n] = @ \o NewBatch]
  /\ revision' = [revision EXCEPT ![n] = @ + 1]
  /\ calls' = calls + 1 /\ BumpDataEpoch
  /\ UNCHANGED <<budget, split, overlay, store, dict, copies, scanned, stmt, torn>>

\* The device copy keeps its old revision and is extended when next used.
RegisterBatch(n) ==
  /\ CanStore /\ tables[n] # None
  /\ LET rows == tables[n] \o NewBatch IN
       /\ tables' = [tables EXCEPT ![n] = rows]
       /\ \/ /\ n \notin split
             /\ dict' = [dict EXCEPT ![n] = rows]
             /\ revision' = [revision EXCEPT ![n] = @ + 1]
             /\ torn' = torn \ {n}
             /\ UNCHANGED split
          \* No dictionary could be built, or a column has no plan type: the rows
          \* are in already, and in the second case their dictionary.
          \/ /\ n \notin split
             /\ \E d \in {None, rows} : dict' = [dict EXCEPT ![n] = d]
             /\ torn' = torn \cup {n}
             /\ UNCHANGED <<split, revision>>
          \* The batches cannot be coalesced, now and whenever they are read.
          \/ /\ split' = split \cup {n}
             /\ torn' = torn \cup {n}
             /\ UNCHANGED <<dict, revision>>
  /\ calls' = calls + 1 /\ BumpDataEpoch
  /\ UNCHANGED <<budget, overlay, store, copies, scanned, stmt>>

\* Everything fallible is staged before the first change.
ReplaceTable(n) ==
  /\ CanStore
  /\ StoreRows(n, NewBatch)
  /\ overlay' = [overlay EXCEPT ![n] = None]
  /\ calls' = calls + 1 /\ BumpDataEpoch
  /\ UNCHANGED <<budget, store, deviceOnly, uploaded, residency, recent, scanned, stmt>>

DeregisterTable(n) ==
  /\ stmt = None /\ HasTable(n)
  /\ tables' = [tables EXCEPT ![n] = None] /\ split' = split \ {n}
  /\ overlay' = [overlay EXCEPT ![n] = None]
  /\ store' = [store EXCEPT ![n] = None] /\ revision' = [revision EXCEPT ![n] = 0]
  /\ dict' = [dict EXCEPT ![n] = None]
  /\ device' = [device EXCEPT ![n] = None] /\ uploaded' = [uploaded EXCEPT ![n] = 0]
  /\ residency' = [residency EXCEPT ![n] = 0] /\ recent' = Forgotten(recent, {n})
  /\ scanned' = Forgotten(scanned, {n})
  /\ torn' = torn \ {n} /\ BumpDataEpoch
  /\ UNCHANGED <<budget, deviceOnly, stmt, calls>>

----------------------------------------------------------------------------
(* Preparing a query: room on the device, storage scans, drains, compiling. *)

Query(s, phase, todo) ==
  [run |-> s, phase |-> phase, todo |-> todo, nested |-> FALSE,
   whole |-> None, at |-> 0, rows |-> None]

\* Tables uploaded at registration have no recorded size.
ResidentBytes(n) ==
  IF residency[n] > 0 THEN residency[n]
  ELSE IF tables[n] # None THEN Len(tables[n])
  ELSE IF store[n] # None THEN Cardinality(Chunks)
  ELSE IF Rows(n) # None THEN Len(Rows(n)) ELSE 0

\* The device copies make_device_room(keep) evicts.
DeviceVictims(keep) ==
  LET resident == {n \in Names : device[n] # None}
      fits == {out \in SUBSET resident :
                 Within(MapThenSumSet(ResidentBytes, resident \ out), budget.device)}
  IN TakenUntil(InLruOrder(resident \ keep, recent), fits)

\* A cached plan is run as it is; otherwise room is made first.
StartQuery(s) ==
  /\ stmt = None
  /\ \A n \in s.reads : HasTable(n)
  /\ \/ /\ \E i \in DOMAIN plans : plans[i].run = s
        /\ stmt' = Query(s, "execute", s.reads)
        /\ UNCHANGED copies
     \/ /\ \A i \in DOMAIN plans : plans[i].run # s
        /\ stmt' = Query(s, "prepare", s.reads)
        /\ LET out == DeviceVictims(s.reads) IN
             /\ device' = [n \in Names |-> IF n \in out THEN None ELSE device[n]]
             /\ uploaded' = [n \in Names |-> IF n \in out THEN 0 ELSE uploaded[n]]
             /\ residency' = [n \in Names |-> IF n \in out THEN 0 ELSE residency[n]]
             /\ recent' = Forgotten(recent, out)
        /\ UNCHANGED deviceOnly
  /\ UNCHANGED <<budget, host, scanned, plans, calls, torn>>

\* A component of a statement the host orchestrates (a recursive query, LATERAL,
\* an out-of-core partition...): its plan is not cached, and no room is made.
RunSubplan(s) ==
  /\ stmt = None
  /\ \A n \in s.reads : HasTable(n)
  /\ stmt' = [Query(s, "prepare", s.reads) EXCEPT !.nested = TRUE]
  /\ UNCHANGED <<budget, host, copies, scanned, plans, calls, torn>>

Reserved(S) == MapThenSumSet(LAMBDA n : store[n].bytes, S)

Stored == {n \in Names : store[n] # None}

\* Whether the scan of n fits the host budget once the scans of out are gone.
ScanFits(n, need, out) ==
  Within(Reserved(Stored \ (out \cup {n})) + need, budget.host)

\* The installed scans make_host_room evicts for a scan of n.
ScanVictims(n, need, keep) ==
  LET installed == {m \in Stored \ (keep \cup {n}) : store[m].installed # None}
  IN TakenUntil(InLruOrder(installed, scanned), {out \in SUBSET installed : ScanFits(n, need, out)})

Covers(n, chunks) == store[n].installed # None /\ chunks \subseteq store[n].installed

\* Names of the query that are storage tables still to be scanned.
ToScan == stmt.todo \cap Stored

Preparing(n) == stmt # None /\ stmt.phase = "prepare" /\ n \in stmt.todo

ReuseScan(n) ==
  /\ Preparing(n) /\ n \in Stored /\ Covers(n, stmt.run.chunks)
  /\ scanned' = Touched(scanned, n)
  /\ stmt' = [stmt EXCEPT !.todo = @ \ {n}]
  /\ UNCHANGED <<budget, host, copies, plans, calls, torn>>

\* Mutant: an eviction does not move the data epoch.
EvictedPlansKept(out) == plans

\* Mutant: a scan may evict the other scans of its own statement.
KeepNothing == {}

\* evict_storage_scan of every scan of out.
EvictedStore(out) == [m \in Names |-> IF m \in out THEN Unscanned ELSE store[m]]
EvictedOverlay(out) == [m \in Names |-> IF m \in out THEN None ELSE overlay[m]]
EvictedDevice(out) == [m \in Names |-> IF m \in out THEN None ELSE device[m]]
EvictedUploads(out) == [m \in Names |-> IF m \in out THEN 0 ELSE uploaded[m]]
EvictedPlans(out) == IF out = {} THEN plans ELSE <<>>

KeptScans == stmt.run.reads \cap Stored

Installed(n) == IF store[n].installed = None THEN {} ELSE store[n].installed

\* The chunks read: a component widens the scan that is installed.
Selection(n) == stmt.run.chunks \cup IF stmt.nested THEN Installed(n) ELSE {}

\* The size room is made for.  Of two selections united it is the larger one's.
Estimate(n) ==
  Max({Cardinality(stmt.run.chunks)} \cup IF stmt.nested THEN {Cardinality(Installed(n))} ELSE {})

\* The size that is reserved without another look at the budget: strings are
\* shorter or longer than the estimate has them.
ActualBytes(chunks) == {1, 2 * Cardinality(chunks)}

\* No room, or the scan could not be read: what was evicted is gone.
InstallScanFails(n) ==
  /\ Preparing(n) /\ n \in Stored /\ ~Covers(n, stmt.run.chunks)
  /\ LET out == ScanVictims(n, Estimate(n), KeptScans) IN
       /\ store' = EvictedStore(out) /\ overlay' = EvictedOverlay(out)
       /\ device' = EvictedDevice(out) /\ uploaded' = EvictedUploads(out)
       /\ plans' = EvictedPlans(out)
  /\ stmt' = None
  /\ UNCHANGED <<budget, tables, split, revision, dict, deviceOnly, residency, recent, scanned,
                 calls, torn>>

\* Whole-table dictionaries only without a device budget, and best effort.
ScanDictionaries(rows) == IF budget.device = Unlimited THEN {rows, None} ELSE {None}

InstallScan(n) ==
  /\ Preparing(n) /\ n \in Stored /\ ~Covers(n, stmt.run.chunks)
  /\ LET out == ScanVictims(n, Estimate(n), KeptScans)
         rows == SetToSortSeq(Selection(n), <)
     IN /\ ScanFits(n, Estimate(n), out)
        /\ \E bytes \in ActualBytes(Selection(n)) :
             store' = [EvictedStore(out) EXCEPT
                         ![n] = [installed |-> Selection(n), bytes |-> bytes]]
        /\ overlay' = [EvictedOverlay(out) EXCEPT ![n] = Batch(rows, FreshArc(n))]
        /\ device' = [EvictedDevice(out) EXCEPT ![n] = None]
        /\ uploaded' = EvictedUploads(out)
        /\ \E d \in ScanDictionaries(rows) : dict' = [dict EXCEPT ![n] = d]
  /\ BumpDataEpoch
  /\ scanned' = Touched(scanned, n)
  /\ stmt' = [stmt EXCEPT !.todo = @ \ {n}]
  /\ UNCHANGED <<budget, tables, split, revision, deviceOnly, residency, recent, calls, torn>>

Undrained(n) == overlay[n] # None /\ ~overlay[n].drained

\* The dictionaries after a drain: built unless a budget is set; a busy
\* registry or an unsupported column leaves the entry that is there.
DrainDictionaries(n) == IF budget.device = Unlimited THEN {LazyRows, dict[n]} ELSE {dict[n]}

Drain(n) ==
  /\ Preparing(n) /\ ToScan = {} /\ Undrained(n)
  /\ overlay' = [overlay EXCEPT ![n] = Batch(LazyRows, FreshArc(n))]
  /\ \E d \in DrainDictionaries(n) : dict' = [dict EXCEPT ![n] = d]
  /\ BumpDataEpoch
  /\ stmt' = [stmt EXCEPT !.todo = @ \ {n}]
  /\ UNCHANGED <<budget, tables, split, store, revision, copies, scanned, calls, torn>>

\* The producer failed or its batches drifted: the entry stays a stream.
DrainFails(n) ==
  /\ Preparing(n) /\ ToScan = {} /\ Undrained(n)
  /\ stmt' = None
  /\ UNCHANGED <<budget, host, copies, scanned, plans, calls, torn>>

\* Compile once nothing is left to load; the key is taken afterwards.
Compile ==
  /\ stmt # None /\ stmt.phase = "prepare"
  /\ \A n \in stmt.todo : n \notin Stored /\ ~Undrained(n)
  /\ LET s == stmt.run
         plan == [run |-> s, rows |-> [n \in s.reads |-> Rows(n)],
                  dict |-> [n \in s.reads |-> dict[n]]]
     IN /\ plans' = CASE stmt.nested -> plans
                      [] Len(plans) < PlanCap -> Append(plans, plan)
                      [] OTHER -> Append(Tail(plans), plan)
        /\ stmt' = [stmt EXCEPT !.phase = "execute", !.todo = s.reads]
  /\ UNCHANGED <<budget, host, copies, scanned, calls, torn>>

----------------------------------------------------------------------------
(* Executing: device copies on demand, morsels, temporary tables.          *)

\* overlay_head: the Arc that stands for the overlay's data, 0 when a host
\* revision decides instead.
OverlayHead(n) ==
  IF revision[n] = 0 /\ overlay[n] # None /\ overlay[n].drained
  THEN overlay[n].arc ELSE 0

\* The cases in which ensure_gpu_table returns the copy it has.
Fresh(n) ==
  /\ device[n] # None
  /\ \/ n \in deviceOnly
     \/ /\ OverlayHead(n) # 0 /\ uploaded[n] = OverlayHead(n)
        /\ Len(device[n].rows) = Len(overlay[n].rows)
     \/ revision[n] # 0 /\ device[n].rev = revision[n]

\* incremental_rebuild keeps the rows that are on the device when the host
\* has more rows than they are and the columns can be extended.
Uploads(n) ==
  LET rows == Rows(n)
      kept == IF device[n] = None THEN <<>> ELSE device[n].rows
  IN {rows} \cup IF revision[n] # 0 /\ Len(kept) \in 1..(Len(rows) - 1)
                 THEN {kept \o SubSeq(rows, Len(kept) + 1, Len(rows))} ELSE {}

TouchResidency(n, bytes) ==
  /\ recent' = Touched(recent, n)
  /\ residency' = [residency EXCEPT ![n] = bytes]

\* ensure_gpu_table(n).
EnsureGpuTable(n) ==
  \/ /\ Fresh(n)
     /\ IF n \in deviceOnly THEN UNCHANGED <<recent, residency>>
        ELSE TouchResidency(n, residency[n])
     /\ UNCHANGED <<device, uploaded>>
  \/ /\ ~Fresh(n) /\ Rows(n) # None
     /\ \E rows \in Uploads(n) :
          device' = [device EXCEPT ![n] = [rows |-> rows, rev |-> revision[n]]]
     /\ uploaded' = [uploaded EXCEPT ![n] = OverlayHead(n)]
     /\ TouchResidency(n, Len(Rows(n)))

\* The rows are missing, or the upload failed and took the old copy along.
EnsureGpuTableFails(n) ==
  /\ ~Fresh(n)
  /\ device' = IF Rows(n) = None THEN device ELSE [device EXCEPT ![n] = None]
  /\ TouchResidency(n, residency[n])
  /\ UNCHANGED uploaded

\* A row-wise plan over one overlay table larger than the device budget.
Streamed(n) ==
  /\ stmt.run.rowwise /\ stmt.run.reads = {n}
  /\ budget.device # Unlimited
  /\ tables[n] = None /\ overlay[n] # None /\ Len(overlay[n].rows) > budget.device

Executing(n) == stmt # None /\ stmt.phase = "execute" /\ n \in stmt.todo

ReadTable(n) ==
  /\ Executing(n) /\ ~Streamed(n)
  /\ \/ /\ EnsureGpuTable(n)
        /\ stmt' = IF stmt.todo = {n} THEN None ELSE [stmt EXCEPT !.todo = @ \ {n}]
     \/ EnsureGpuTableFails(n) /\ stmt' = None
  /\ UNCHANGED <<budget, host, deviceOnly, scanned, plans, calls, torn>>

MorselRows(whole, at) ==
  SubSeq(whole.rows, at, Min({at + Max({budget.device, 1}) - 1, Len(whole.rows)}))

\* Put the morsel that starts at row at into the overlay.
InstallMorsel(n, whole, at) ==
  /\ overlay' = [overlay EXCEPT ![n] = Batch(MorselRows(whole, at), FreshArc(n))]
  /\ stmt' = [stmt EXCEPT !.phase = "morsel", !.whole = whole, !.at = at]

FirstMorsel(n) ==
  /\ Executing(n) /\ Streamed(n)
  /\ InstallMorsel(n, overlay[n], 1)
  /\ UNCHANGED <<budget, tables, split, store, revision, dict, copies, scanned, plans, calls, torn>>

RestoreWhole(n) ==
  /\ overlay' = [overlay EXCEPT ![n] = stmt.whole]
  /\ stmt' = None

\* Run the installed morsel; the whole batch comes back after the last one
\* and after an error.
RunMorsel(n) ==
  /\ stmt # None /\ stmt.phase = "morsel" /\ n \in stmt.todo
  /\ LET next == stmt.at + Len(overlay[n].rows) IN
     \/ /\ EnsureGpuTable(n)
        /\ IF next > Len(stmt.whole.rows) THEN RestoreWhole(n)
           ELSE InstallMorsel(n, stmt.whole, next)
     \/ EnsureGpuTableFails(n) /\ RestoreWhole(n)
  /\ UNCHANGED <<budget, tables, split, store, revision, dict, deviceOnly, scanned, plans, calls, torn>>

\* A statement binds rows it computed to a name that is free: a working set,
\* a VALUES list, an aggregate's input, an out-of-core partition.
BindTemp(n) ==
  /\ stmt = None /\ n \in TempNames /\ ~HasTable(n)
  /\ \E rows \in TempRows :
       \/ /\ overlay' = [overlay EXCEPT ![n] = Batch(rows, FreshArc(n))]
          /\ device' = [device EXCEPT ![n] = None]
          /\ stmt' = [Query(None, "temp", {n}) EXCEPT !.rows = rows]
          /\ UNCHANGED deviceOnly
       \* The rows of a device pipeline, which exist on the device only.
       \/ /\ overlay' = [overlay EXCEPT ![n] = Streaming]
          /\ device' = [device EXCEPT ![n] = [rows |-> rows, rev |-> 0]]
          /\ deviceOnly' = deviceOnly \cup {n}
          /\ stmt' = [Query(None, "pipeline", {n}) EXCEPT !.rows = rows]
  /\ UNCHANGED <<budget, tables, split, store, revision, dict, uploaded, residency, recent, scanned,
                 plans, calls, torn>>

Bound(n) == stmt # None /\ stmt.phase \in {"temp", "pipeline"} /\ n \in stmt.todo

ReadTemp(n) ==
  /\ Bound(n)
  /\ EnsureGpuTable(n)
  /\ UNCHANGED <<budget, host, deviceOnly, scanned, plans, stmt, calls, torn>>

\* A host path reads the pipeline's rows: they are downloaded once.
Download(n) ==
  /\ Bound(n) /\ n \in deviceOnly
  /\ deviceOnly' = deviceOnly \ {n}
  /\ \/ /\ overlay' = [overlay EXCEPT ![n] = Batch(device[n].rows, FreshArc(n))]
        /\ uploaded' = [uploaded EXCEPT ![n] = FreshArc(n)]
     \/ UNCHANGED <<overlay, uploaded>>
  /\ UNCHANGED <<budget, tables, split, store, revision, dict, device, residency, recent, scanned,
                 plans, stmt, calls, torn>>

\* The binding is removed on every exit path.
ReleaseTemp(n) ==
  /\ Bound(n)
  /\ overlay' = [overlay EXCEPT ![n] = None]
  /\ device' = [device EXCEPT ![n] = None]
  /\ deviceOnly' = deviceOnly \ {n}
  /\ uploaded' = IF stmt.phase = "pipeline" THEN [uploaded EXCEPT ![n] = 0] ELSE uploaded
  /\ stmt' = None
  /\ UNCHANGED <<budget, tables, split, store, revision, dict, residency, recent, scanned, plans,
                 calls, torn>>

----------------------------------------------------------------------------
Next ==
  \/ \E n \in Names :
       \/ RegisterTable(n) \/ RegisterTableFails(n) \/ RegisterLazy(n)
       \/ RegisterStorageTable(n) \/ RegisterBatch(n) \/ ReplaceTable(n) \/ DeregisterTable(n)
       \/ ReuseScan(n) \/ InstallScan(n) \/ InstallScanFails(n) \/ Drain(n) \/ DrainFails(n)
       \/ ReadTable(n) \/ FirstMorsel(n) \/ RunMorsel(n)
       \/ BindTemp(n) \/ ReadTemp(n) \/ Download(n) \/ ReleaseTemp(n)
  \/ \E s \in Statements : StartQuery(s)
  \/ \E s \in Subplans : RunSubplan(s)
  \/ Compile
  \/ Rejected

Spec == Init /\ [][Next]_vars

----------------------------------------------------------------------------
TypeOK ==
  /\ \A n \in Names :
       /\ tables[n] # None => tables[n] \in Seq(Int)
       /\ overlay[n] # None => overlay[n].drained \in BOOLEAN /\ overlay[n].arc \in Arcs \cup {0}
       /\ overlay[n] # None => (overlay[n].drained <=> overlay[n].arc # 0)
       /\ store[n] # None => (store[n].installed = None <=> store[n].bytes = 0)
       /\ uploaded[n] \in Arcs \cup {0} /\ revision[n] \in Nat /\ residency[n] \in Nat
       /\ device[n] # None => device[n].rev \in 0..revision[n]
  /\ deviceOnly \subseteq Names /\ torn \subseteq Names /\ split \subseteq torn
  /\ Len(plans) <= PlanCap /\ calls \in 0..MaxCalls
  /\ stmt = None => deviceOnly = {}

\* Both a table of rows and a registered storage table: replace_table leaves
\* the storage entry in place.
Shadowed(n) == tables[n] # None /\ store[n] # None

\* What a read of n is about: the rows bound by the statement, or the rows
\* of the table.
Current(n) == IF n \in deviceOnly THEN stmt.rows ELSE Rows(n)

\* A device copy that ensure_gpu_table returns without a look at the host
\* holds exactly the rows of the table, whatever was appended, replaced,
\* swapped in as a morsel, bound, evicted or reloaded meanwhile; names at
\* which a failed registration or append left something are left out.
FreshIsExactUnlessTorn ==
  \A n \in Names \ torn : Fresh(n) => device[n].rows = Current(n)

\* While a morsel is in the overlay, the copy ensure_gpu_table returns is the
\* morsel's: an overlay table has no host revision a stale copy could match.
MorselsExact ==
  stmt # None /\ stmt.phase = "morsel" =>
    \A n \in stmt.todo : Fresh(n) => device[n].rows = overlay[n].rows

\* Outside a morsel, the dictionaries a plan over a table, a drained stream or
\* an installed scan is rewritten with were built from the rows it will read;
\* torn names and storage tables that replace_table shadows are left out.
DictionariesMatchUnlessShadowed ==
  stmt = None \/ stmt.phase = "execute" =>
    \A n \in Names \ torn :
      ~Shadowed(n) /\ dict[n] # None /\ Rows(n) # None => dict[n] = Rows(n)

\* Between statements every compiled plan that would be reused was compiled
\* from the rows and the dictionaries that are there now.
PlansCurrent ==
  stmt = None =>
    \A i \in DOMAIN plans : \A n \in plans[i].run.reads :
      plans[i].rows[n] = Rows(n) /\ plans[i].dict[n] = dict[n]

\* While a query executes, every storage table it reads is still installed
\* with all the chunks the query needs, however its own scans and those of
\* earlier statements were evicted to make room for one another.
ScansInstalled ==
  stmt # None /\ stmt.phase \in {"execute", "morsel"} =>
    \A n \in stmt.run.reads \cap Stored :
      Covers(n, stmt.run.chunks) /\ (n \in split \/ Rows(n) # None)
============================================================================
