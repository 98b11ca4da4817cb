------------------------------- MODULE Catalog -------------------------------
(***************************************************************************)
(* The persistent catalog (storage/catalog.rs): a directory of immutable   *)
(* data files and numbered manifests, one of which _bolt/CURRENT names,    *)
(* and the one writer process that holds _bolt/LOCK, with one transaction  *)
(* at a time.  The transactions of several sessions, which take turns with *)
(* state and set_state and publish with commit_concurrent, are in module   *)
(* Transactions.                                                           *)
(*                                                                         *)
(* An operation runs up to its first durable step in one action, and each  *)
(* later durable step (the rename of the manifest, the rename of CURRENT,  *)
(* each file vacuum deletes) is an action of its own, so that the process  *)
(* can crash or the step can fail between any two of them.  write_atomic   *)
(* and write_parquet sync a temporary file and rename it: the rename is    *)
(* the atomic step, the temporary files are not modelled.                  *)
(***************************************************************************)
EXTENDS Manifest

CONSTANTS RowCounts,        \* rows a written batch may hold; 0 writes no file
          ViewDeps,         \* what a stored view may depend on
          MaxVersion,       \* bound: no operation starts above this snapshot
          MaxTableId,       \* bound on the table ids handed out
          MaxTableVersion,  \* bound on the data versions of a table
          MaxRows,          \* bound on the rows of a file and of ANALYZE
          MaxFiles          \* bound on the data files on disk

ASSUME CatalogAssumption ==
  /\ RowCounts \subseteq Nat /\ ViewDeps \subseteq SUBSET Names
  /\ MaxVersion \in Nat /\ MaxTableId \in Nat /\ MaxTableVersion \in Nat
  /\ MaxRows \in Nat /\ MaxFiles \in Nat
  /\ None \notin TableMeta \cup ViewMeta \cup ManifestType \cup Nat

VARIABLES files,      \* data files on disk
          manifests,  \* manifests on disk
          current,    \* number CURRENT names (0: there is no CURRENT)
          lock,       \* whether _bolt/LOCK exists
          pc,         \* where the writer process is
          manifest,   \* Catalog.manifest
          txn_base,   \* Catalog.txn_base
          next,       \* manifest being published
          todo        \* what vacuum has still to delete

disk == <<files, manifests, current, lock>>
process == <<pc, manifest, txn_base, next, todo>>
vars == <<files, manifests, current, lock, pc, manifest, txn_base, next, todo>>

PCs == {"closed", "idle", "manifest", "current", "vacuum_manifests", "vacuum_files"}

ReadManifest(v) == CHOOSE m \in manifests : m.version = v

OpenSnapshot(v) == IF v = 0 THEN EmptyManifest ELSE ReadManifest(v)

Versions == {m.version : m \in manifests}

Init ==
  /\ files = {} /\ manifests = {} /\ current = 0 /\ lock = FALSE
  /\ pc = "closed" /\ manifest = EmptyManifest /\ txn_base = None
  /\ next = None /\ todo = {}

-----------------------------------------------------------------------------
(***************************************************************************)
(* The life of the writer process.                                         *)
(***************************************************************************)
Open ==
  /\ pc = "closed" /\ ~lock
  /\ current # 0 => current \in Versions
  /\ lock' = TRUE
  /\ pc' = "idle"
  /\ manifest' = OpenSnapshot(current)
  /\ UNCHANGED <<files, manifests, current, txn_base, next, todo>>

Forget ==
  /\ pc' = "closed" /\ manifest' = EmptyManifest /\ txn_base' = None
  /\ next' = None /\ todo' = {}

\* WriterLock is dropped with the catalog; an open transaction just goes.
Close ==
  /\ pc = "idle"
  /\ lock' = FALSE
  /\ Forget
  /\ UNCHANGED <<files, manifests, current>>

\* The process dies anywhere; nothing removes its lock file.
Crash ==
  /\ pc # "closed"
  /\ Forget
  /\ UNCHANGED disk

\* "remove it if no process is using it", says the error of the next open.
RemoveStaleLock ==
  /\ pc = "closed" /\ lock
  /\ lock' = FALSE
  /\ UNCHANGED <<files, manifests, current, process>>

-----------------------------------------------------------------------------
(***************************************************************************)
(* write_files: no rows, no file; otherwise one file under the first part  *)
(* number that does not exist yet.  The value is the set of the possible   *)
(* results (none when the disk holds MaxFiles).                            *)
(***************************************************************************)
Exists(path) == \E f \in files : f.path = path

WriteFiles(id, version, rows) ==
  LET path(k) == [id |-> id, version |-> version, k |-> k]
      free == {k \in 0 .. MaxFiles : /\ Cardinality(files) < MaxFiles /\ rows \in 1 .. MaxRows
                                    /\ ~Exists(path(k))
                                    /\ \A j \in 0 .. (k - 1) : Exists(path(j))}
  IN IF rows = 0 THEN {{}} ELSE {{[path |-> path(k), rows |-> rows]} : k \in free}

InBounds(m) ==
  /\ m.next_table_id <= MaxTableId
  /\ \A n \in Names : HasTable(m, n) =>
       /\ m.tables[n].table_version <= MaxTableVersion
       /\ m.tables[n].analyzed \in (0 .. MaxRows) \cup {None}

\* Mutant of Commit: the snapshot is written under the number it started from.
CommitSameVersion(m) ==
  /\ InBounds(m)
  /\ IF txn_base # None
       THEN /\ manifest' = [m EXCEPT !.version = txn_base.version + 1]
            /\ UNCHANGED <<pc, next>>
       ELSE /\ next' = m
            /\ pc' = "manifest"
            /\ UNCHANGED manifest
  /\ UNCHANGED <<manifests, current, lock, txn_base, todo>>

\* Inside a transaction a change stays in memory; outside, publishing starts.
Commit(m) ==
  /\ InBounds(m)
  /\ IF txn_base # None
       THEN /\ manifest' = [m EXCEPT !.version = txn_base.version + 1]
            /\ UNCHANGED <<pc, next>>
       ELSE /\ next' = [m EXCEPT !.version = manifest.version + 1]
            /\ pc' = "manifest"
            /\ UNCHANGED manifest
  /\ UNCHANGED <<manifests, current, lock, txn_base, todo>>

Writable == pc = "idle" /\ manifest.version < MaxVersion

CreateTable(n, rows) ==
  /\ Writable /\ ~NameTaken(manifest, n)
  /\ \E fs \in WriteFiles(manifest.next_table_id, manifest.version + 1, rows) :
       /\ files' = files \cup fs
       /\ Commit(NewTable(manifest, n, "managed", fs))

CreateExternalTable(n) ==
  /\ Writable /\ ~NameTaken(manifest, n)
  /\ Commit(NewTable(manifest, n, "external", {}))
  /\ UNCHANGED files

WriteTo(n, rows) == WriteFiles(manifest.tables[n].id, manifest.version + 1, rows)

\* No rows: append returns before it commits.
Append(n, rows) ==
  /\ Writable /\ IsManaged(manifest, n) /\ rows # 0
  /\ \E fs \in WriteTo(n, rows) :
       /\ files' = files \cup fs
       /\ Commit(AppendRows(manifest, n, fs))

Truncate(n) ==
  /\ Writable /\ IsManaged(manifest, n)
  /\ Commit(SetRows(manifest, n, {}))
  /\ UNCHANGED files

Drop(n) ==
  /\ Writable /\ HasTable(manifest, n)
  /\ Commit(DropTable(manifest, n))
  /\ UNCHANGED files

\* ANALYZE: the statistics come from a full scan of the table.
SetStatistics(n) ==
  /\ Writable /\ HasTable(manifest, n)
  /\ \E stats \in (IF IsManaged(manifest, n) THEN {RowCount(manifest.tables[n].files)}
                                             ELSE RowCounts) :
       Commit(RecordStatistics(manifest, n, stats))
  /\ UNCHANGED files

\* resort: a non-empty clustering key was given.
Compact(n, resort) ==
  /\ Writable /\ IsManaged(manifest, n)
  /\ Cardinality(manifest.tables[n].files) > 1 \/ resort
  /\ \E fs \in WriteTo(n, RowCount(manifest.tables[n].files)) :
       /\ files' = files \cup fs
       /\ Commit(CompactRows(manifest, n, fs))

\* DELETE and UPDATE rewrite the files they touch.
RewriteFiles(n, remove, rows) ==
  /\ Writable /\ IsManaged(manifest, n)
  /\ remove \subseteq manifest.tables[n].files
  /\ \E fs \in WriteTo(n, rows) :
       /\ files' = files \cup fs
       /\ Commit(RewriteRows(manifest, n, remove, fs))

\* ALTER TABLE rewrites the table under its new columns.
ReplaceTable(n, rows) ==
  /\ Writable /\ IsManaged(manifest, n)
  /\ \E fs \in WriteTo(n, rows) :
       /\ files' = files \cup fs
       /\ Commit(SetRows(manifest, n, fs))

\* A view refresh; of any table, where ALTER TABLE insists on a managed one.
ReplaceContents(n, rows) ==
  /\ Writable /\ HasTable(manifest, n)
  /\ \E fs \in WriteTo(n, rows) :
       /\ files' = files \cup fs
       /\ Commit(SetRows(manifest, n, fs))

Rename(old, new) ==
  /\ Writable /\ HasTable(manifest, old) /\ ~NameTaken(manifest, new)
  /\ DependentViews(manifest, old) = {}
  /\ Commit(RenameTable(manifest, old, new))
  /\ UNCHANGED files

StoreView(n, deps) ==
  /\ Writable
  /\ Commit(PutView(manifest, n, [dependencies |-> deps]))
  /\ UNCHANGED files

DeleteView(n) ==
  /\ Writable
  /\ Commit(RemoveView(manifest, n))
  /\ UNCHANGED files

\* write_files succeeds on disk and then fails (the file it wrote cannot be
\* read back): the operation returns the error and leaves the file behind.
FailedWrite(id, rows) ==
  /\ Writable
  /\ id \in {manifest.next_table_id}
            \cup {manifest.tables[n].id : n \in {x \in Names : IsManaged(manifest, x)}}
  /\ \E fs \in WriteFiles(id, manifest.version + 1, rows) : files' = files \cup fs
  /\ UNCHANGED <<manifests, current, lock, process>>

-----------------------------------------------------------------------------
(***************************************************************************)
(* Publishing: the manifest is renamed into place, then CURRENT.           *)
(***************************************************************************)
PublishManifest ==
  /\ pc = "manifest"
  /\ manifests' = {m \in manifests : m.version # next.version} \cup {next}
  /\ pc' = "current"
  /\ UNCHANGED <<files, current, lock, manifest, txn_base, next, todo>>

\* Mutant of PublishFails: the catalog was moved on before the publishing.
PublishFailsForward ==
  /\ pc \in {"manifest", "current"}
  /\ manifest' = next
  /\ next' = None
  /\ pc' = "idle"
  /\ UNCHANGED <<disk, txn_base, todo>>

PublishCurrent ==
  /\ pc = "current"
  /\ current' = next.version
  /\ manifest' = next
  /\ next' = None
  /\ pc' = "idle"
  /\ UNCHANGED <<files, manifests, lock, txn_base, todo>>

\* Either step fails: commit returns the error, the catalog stays where it was.
PublishFails ==
  /\ pc \in {"manifest", "current"}
  /\ next' = None
  /\ pc' = "idle"
  /\ UNCHANGED <<disk, manifest, txn_base, todo>>

-----------------------------------------------------------------------------
(***************************************************************************)
(* Transactions of the catalog itself.                                     *)
(***************************************************************************)
Begin ==
  /\ Writable /\ txn_base = None
  /\ txn_base' = manifest
  /\ UNCHANGED <<disk, pc, manifest, next, todo>>

\* Mutant of CommitTransaction: numbered from the transaction's own manifest,
\* which already counts one snapshot more than its base.
CommitTransactionSkips ==
  /\ pc = "idle" /\ txn_base # None
  /\ txn_base' = None
  /\ manifest' = txn_base
  /\ IF manifest = txn_base
       THEN UNCHANGED <<pc, next>>
       ELSE /\ next' = [manifest EXCEPT !.version = @ + 1]
            /\ pc' = "manifest"
  /\ UNCHANGED <<disk, todo>>

\* An unchanged transaction publishes nothing.  On failure of the publishing
\* that starts here the catalog is back at its base.
CommitTransaction ==
  /\ pc = "idle" /\ txn_base # None
  /\ txn_base' = None
  /\ manifest' = txn_base
  /\ IF manifest = txn_base
       THEN UNCHANGED <<pc, next>>
       ELSE /\ next' = [manifest EXCEPT !.version = txn_base.version + 1]
            /\ pc' = "manifest"
  /\ UNCHANGED <<disk, todo>>

RollbackTransaction ==
  /\ pc = "idle" /\ txn_base # None
  /\ manifest' = txn_base
  /\ txn_base' = None
  /\ UNCHANGED <<disk, pc, next, todo>>

-----------------------------------------------------------------------------
(***************************************************************************)
(* vacuum(keep): old manifests first, then the files that no remaining     *)
(* manifest references.  A deletion that fails is skipped.                 *)
(***************************************************************************)
Outdated(keep) ==
  {m \in manifests : /\ m.version # manifest.version
                     /\ Cardinality({v \in Versions : v > m.version}) >= keep}

\* Mutant of Vacuum: it also runs inside a transaction.
VacuumInTransaction(keep) ==
  /\ pc = "idle"
  /\ todo' = Outdated(IF keep = 0 THEN 1 ELSE keep)
  /\ pc' = "vacuum_manifests"
  /\ UNCHANGED <<disk, manifest, txn_base, next>>

Vacuum(keep) ==
  /\ pc = "idle" /\ txn_base = None
  /\ todo' = Outdated(IF keep = 0 THEN 1 ELSE keep)
  /\ pc' = "vacuum_manifests"
  /\ UNCHANGED <<disk, manifest, txn_base, next>>

VacuumManifest(m) ==
  /\ pc = "vacuum_manifests" /\ m \in todo
  /\ todo' = todo \ {m}
  /\ manifests' \in {manifests, manifests \ {m}}
  /\ UNCHANGED <<files, current, lock, pc, manifest, txn_base, next>>

\* Mutant of Referenced: only the current snapshot counts.
ReferencedByCurrent == FilesOf(manifest)

\* Every manifest still on disk counts; the current one is taken from memory.
Referenced ==
  UNION {FilesOf(IF m.version = manifest.version THEN manifest ELSE m) : m \in manifests}

VacuumScan ==
  /\ pc = "vacuum_manifests" /\ todo = {}
  /\ todo' = files \ Referenced
  /\ pc' = "vacuum_files"
  /\ UNCHANGED <<disk, manifest, txn_base, next>>

VacuumFile(f) ==
  /\ pc = "vacuum_files" /\ f \in todo
  /\ todo' = todo \ {f}
  /\ files' \in {files, files \ {f}}
  /\ UNCHANGED <<manifests, current, lock, pc, manifest, txn_base, next>>

VacuumReturns ==
  /\ pc = "vacuum_files" /\ todo = {}
  /\ pc' = "idle"
  /\ UNCHANGED <<disk, manifest, txn_base, next, todo>>

\* A directory or an old manifest cannot be read: the rest is left alone.
VacuumFails ==
  /\ pc \in {"vacuum_manifests", "vacuum_files"}
  /\ pc = "vacuum_manifests" => todo = {}
  /\ pc' = "idle" /\ todo' = {}
  /\ UNCHANGED <<disk, manifest, txn_base, next>>

-----------------------------------------------------------------------------
Operation ==
  \E n \in Names :
    \/ \E rows \in RowCounts :
         \/ CreateTable(n, rows)
         \/ Append(n, rows)
         \/ ReplaceTable(n, rows) \/ ReplaceContents(n, rows)
         \/ \E remove \in SUBSET files : RewriteFiles(n, remove, rows)
    \/ CreateExternalTable(n)
    \/ Truncate(n)
    \/ Drop(n)
    \/ SetStatistics(n)
    \/ \E resort \in BOOLEAN : Compact(n, resort)
    \/ \E new \in Names : Rename(n, new)
    \/ \E deps \in ViewDeps : StoreView(n, deps)
    \/ DeleteView(n)

Next ==
  \/ Open \/ Close \/ Crash \/ RemoveStaleLock
  \/ Operation
  \/ \E id \in 1 .. MaxTableId, rows \in RowCounts : FailedWrite(id, rows)
  \/ PublishManifest \/ PublishCurrent \/ PublishFails
  \/ Begin \/ CommitTransaction \/ RollbackTransaction
  \/ \E keep \in 0 .. MaxVersion : Vacuum(keep)
  \/ \E x \in todo : VacuumManifest(x) \/ VacuumFile(x)
  \/ VacuumScan \/ VacuumReturns \/ VacuumFails

Spec == Init /\ [][Next]_vars

-----------------------------------------------------------------------------
TypeOK ==
  /\ files \subseteq DataFile
  /\ manifests \subseteq ManifestType
  /\ current \in Nat
  /\ lock \in BOOLEAN
  /\ pc \in PCs
  /\ manifest \in ManifestType
  /\ txn_base \in ManifestType \cup {None}
  /\ next \in ManifestType \cup {None}
  /\ todo \subseteq ManifestType \cup DataFile

Published == {m \in manifests : m.version <= current}

\* The manifest the writer process goes back to: the last one it published.
LastPublished == IF txn_base # None THEN txn_base ELSE manifest

\* "A crash at any point leaves the previous snapshot intact": whatever the
\* writer was doing when it stopped, commit or vacuum, CURRENT names a manifest
\* that is on disk, and every file of every manifest on disk is there with the
\* rows it was committed with.
SnapshotsIntact ==
  /\ current # 0 => current \in Versions
  /\ \A m \in manifests : FilesOf(m) \subseteq files
  /\ \A f, g \in files : f.path = g.path => f = g

\* The states the live writer may still publish or go back to (its manifest, a
\* transaction's base, a manifest on its way to disk) are made of files that
\* exist: vacuum never takes a file from a change that is not yet published.
WorkIntact ==
  pc # "closed" =>
    \A m \in {manifest, txn_base, next} \ {None} : FilesOf(m) \subseteq files

\* What commit, a failed commit, a transaction and its end leave in memory is
\* what CURRENT names: the writer never builds on a snapshot that is not the
\* published one.
WriterAtCurrent ==
  pc # "closed" => LastPublished = OpenSnapshot(current)

\* Statistics recorded by ANALYZE are those of the rows the table holds now, in
\* every snapshot: each operation that changes rows forgets them, compaction
\* keeps the rows.
StatisticsExact ==
  \A m \in manifests \cup {manifest} : \A n \in Names :
    IsManaged(m, n) /\ m.tables[n].analyzed # None =>
      m.tables[n].analyzed = RowCount(m.tables[n].files)

\* A published snapshot is immutable: as long as its manifest is kept,
\* open_snapshot reads the same manifest under its number, and the one CURRENT
\* names is never discarded.
TimeTravel ==
  [][/\ \A m \in Published : m \in manifests' \/ m.version \notin Versions'
     /\ OpenSnapshot(current) \in manifests' \/ current = 0]_vars

\* The module comment: "files written by an uncommitted change are unreferenced
\* and removed by vacuum".  When vacuum looks for unreferenced files, only the
\* published snapshots keep a file alive.
\* (Does not hold: README.)
UncommittedUnreferenced ==
  pc = "vacuum_manifests" /\ todo = {} => Referenced \subseteq UNION {FilesOf(m) : m \in Published}

\* What makes the properties above inductive: one manifest per number, a
\* manifest on its way to disk is the next one, and vacuum deletes neither the
\* current manifest nor a file that a manifest on disk is made of.
Protocol ==
  /\ \A m \in manifests : m.version > 0
  /\ \A m, r \in manifests : m.version = r.version => m = r
  /\ pc \in {"manifest", "current"} <=> next # None
  /\ next # None => next.version = current + 1
  /\ pc = "current" => next \in manifests
  /\ pc # "idle" => txn_base = None
  /\ pc = "vacuum_manifests" => \A m \in todo : m.version # manifest.version
  /\ pc = "vacuum_files" => \A m \in manifests : todo \cap FilesOf(m) = {}

IInv == TypeOK /\ SnapshotsIntact /\ WorkIntact /\ WriterAtCurrent /\ Protocol

Store == INSTANCE SnapshotStore WITH
           First <- EmptyManifest, head <- OpenSnapshot(current), kept <- Published

\* Commit, crash, failed commit, transaction and vacuum all look from outside
\* like one snapshot at a time appearing whole, and old ones disappearing.
StoreSpec == Store!Spec
=============================================================================
