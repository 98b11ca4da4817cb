---------------------------- MODULE Transactions ----------------------------
(***************************************************************************)
(* Transactions of several sessions on one engine (exec/engine_txn.rs), on *)
(* top of the catalog's own transactions (storage/catalog.rs).             *)
(*                                                                         *)
(* The engine has one installed state.  Before each statement the runtime  *)
(* calls activate_session, which parks the state that is installed and     *)
(* installs the session's: its open transaction's, or the committed one.   *)
(* Installing re-registers only what differs, so what queries read (host   *)
(* batches and storage scans) is a part of the state next to the manifest  *)
(* it should agree with.                                                   *)
(*                                                                         *)
(* An action is one job of the runtime: activation and one statement.  The *)
(* engine is a record, and each method of the code a function from engine  *)
(* to engine, so that an action composes them as the code calls them.      *)
(* The rows of an in-memory table are the stamp of the write that produced *)
(* them.  data_epoch is bumped in more places than epoch is here: only the *)
(* values touch_table records are compared, and those stay distinct.       *)
(* Publishing is one step: Catalog shows that it is one from outside.      *)
(* Not modelled: lazy streams, and storage tables registered without a     *)
(* catalog.                                                                *)
(***************************************************************************)
EXTENDS Manifest, Sequences

CONSTANTS Sessions,
          TempNames,       \* names used for in-memory tables
          DurableNames,    \* names used for catalog tables
          ViewNames,       \* of these, the ones used for materialized views
          SavepointNames,
          MaxEpoch,        \* bound on the number of writes
          MaxSavepoints    \* bound on the savepoints of a transaction

ASSUME TransactionsAssumption ==
  /\ TempNames \cup DurableNames = Names /\ ViewNames \subseteq DurableNames
  /\ MaxEpoch \in Nat /\ MaxSavepoints \in Nat

VARIABLES engine,      \* Engine, with its Catalog
          published,   \* the manifest CURRENT names
          files,       \* data files on disk
          epoch        \* data_epoch

vars == <<engine, published, files, epoch>>

NoNames == [n \in Names |-> None]

\* Engine::open on a catalog: its tables and views are registered.
Opened(m) ==
  [tables |-> NoNames, versions |-> [n \in Names |-> 0], scans |-> m.tables,
   views |-> [n \in Names |-> IF m.views[n] # None THEN 0 ELSE None],
   manifest |-> m, txn_base |-> None,
   txn |-> None, parked |-> [s \in Sessions |-> None], committed |-> None]

Init ==
  /\ engine = Opened(EmptyManifest)
  /\ published = EmptyManifest /\ files = {} /\ epoch = 0

-----------------------------------------------------------------------------
(***************************************************************************)
(* Capturing and installing a state.                                       *)
(***************************************************************************)
Has(e, n) == e.tables[n] # None \/ e.scans[n] # None

Capture(e) == [tables |-> e.tables, versions |-> e.versions, views |-> e.views,
               manifest |-> e.manifest, txn_base |-> e.txn_base]

\* register_catalog_table, deregister_table and register_table on what is
\* registered under one name.
Scanned(t) == [table |-> None, scan |-> t]
Gone == [table |-> None, scan |-> None]
InMemory(rows) == [table |-> rows, scan |-> None]

\* Mutant of Registered: a catalog table is not opened again when its entry
\* changed.
RegisteredKeepsScan(e, s, n) ==
  LET after == s.manifest.tables[n]
      now == [table |-> e.tables[n], scan |-> e.scans[n]]
      catalog == IF after # None
                   THEN IF ~Has(e, n) THEN Scanned(after) ELSE now
                   ELSE IF Has(e, n) /\ s.tables[n] = None THEN Gone ELSE now
  IN IF s.tables[n] = None
       THEN IF catalog.table # None THEN Gone ELSE catalog
       ELSE IF catalog.table # None /\ e.versions[n] = s.versions[n]
              THEN catalog ELSE InMemory(s.tables[n])

\* install, name by name: first the catalog table, re-opened if its entry
\* differs or nothing is registered, then the in-memory table, kept if it is
\* registered under the same data version, then leftover scans.
Registered(e, s, n) ==
  LET before == e.manifest.tables[n]
      after == s.manifest.tables[n]
      now == [table |-> e.tables[n], scan |-> e.scans[n]]
      catalog == IF after # None
                   THEN IF before # after \/ ~Has(e, n) THEN Scanned(after) ELSE now
                   ELSE IF Has(e, n) /\ s.tables[n] = None THEN Gone ELSE now
      memory == IF s.tables[n] = None
                  THEN IF catalog.table # None THEN Gone ELSE catalog
                  ELSE IF catalog.table # None /\ e.versions[n] = s.versions[n]
                         THEN catalog ELSE InMemory(s.tables[n])
  IN IF memory.scan # None /\ after = None THEN Gone ELSE memory

Install(e, s) ==
  LET now == [n \in Names |-> Registered(e, s, n)]
  IN [e EXCEPT !.tables = [n \in Names |-> now[n].table],
               !.scans = [n \in Names |-> now[n].scan],
               !.versions = s.versions, !.views = s.views,
               !.manifest = s.manifest, !.txn_base = s.txn_base]

-----------------------------------------------------------------------------
(***************************************************************************)
(* Whose state is installed.                                               *)
(***************************************************************************)
Holder(e) == IF e.txn = None THEN None ELSE e.txn.session

HasTransaction(e, s) == Holder(e) = s \/ e.parked[s] # None

OpenTransactions(e) == {s \in Sessions : HasTransaction(e, s)}

Park(e) ==
  IF e.txn = None
    THEN [e EXCEPT !.committed = Capture(e)]
    ELSE [e EXCEPT !.parked[e.txn.session] = [txn |-> e.txn, work |-> Capture(e)],
                   !.txn = None]

Activate(e, s) ==
  LET target == IF HasTransaction(e, s) THEN s ELSE None
      out == Park(e)
  IN CASE Holder(e) = target -> e
       [] target = None /\ Holder(e) # None ->
            Install([out EXCEPT !.committed = None], out.committed)
       [] OTHER ->
            [Install([out EXCEPT !.parked[s] = None], out.parked[s].work)
               EXCEPT !.txn = out.parked[s].txn]

-----------------------------------------------------------------------------
(***************************************************************************)
(* COMMIT: the three-way merge of the in-memory state, then the catalog's. *)
(***************************************************************************)
DataVersion(s) == [n \in Names |-> IF s.tables[n] # None THEN s.versions[n] ELSE None]

EngineConflicts(base, work, committed) ==
  Conflicts(DataVersion(base), DataVersion(work), DataVersion(committed))
    \cup Conflicts(base.views, work.views, committed.views)

CatalogConflicts(base, work, committed) ==
  Conflicts(base.tables, work.tables, committed.tables)
    \cup Conflicts(base.views, work.views, committed.views)

MergedVersion(base, work, committed, n) ==
  CASE work.tables[n] = None /\ work.versions[n] \notin {0, base.versions[n]} -> work.versions[n]
    [] DataVersion(base)[n] = DataVersion(work)[n] -> committed.versions[n]
    [] OTHER -> IF work.tables[n] # None THEN work.versions[n] ELSE 0

\* The snapshot that becomes the committed state: the manifest published over
\* committed's, no transaction open.
Merge(base, work, committed) ==
  LET changed(n) == DataVersion(base)[n] # DataVersion(work)[n]
      next == MergeManifests(base.manifest, work.manifest, committed.manifest)
  IN [tables |-> [n \in Names |-> IF changed(n) THEN work.tables[n] ELSE committed.tables[n]],
      versions |-> [n \in Names |-> MergedVersion(base, work, committed, n)],
      views |-> MergeEntries(base.views, work.views, committed.views),
      manifest |-> IF next = committed.manifest THEN next ELSE [next EXCEPT !.version = @ + 1],
      txn_base |-> None]

\* Mutant of RolledBack: back to the state at BEGIN.
RolledBackToBase(e) ==
  Install([e EXCEPT !.txn = None, !.committed = None],
          [e.txn.base EXCEPT !.txn_base = None])

RolledBack(e) == Install([e EXCEPT !.txn = None, !.committed = None], e.committed)

Serializable(e) ==
  /\ EngineConflicts(e.txn.base, Capture(e), e.committed) = {}
  /\ CatalogConflicts(e.txn.base.manifest, e.manifest, e.committed.manifest) = {}

Committed(e) ==
  Install([e EXCEPT !.txn = None, !.committed = None],
          Merge(e.txn.base, Capture(e), e.committed))

-----------------------------------------------------------------------------
(***************************************************************************)
(* What the statements do to the engine.                                   *)
(***************************************************************************)
\* Catalog::commit; fs are new data files.
CatalogCommit(e, m) ==
  LET from == IF e.txn_base # None THEN e.txn_base ELSE e.manifest
  IN [e EXCEPT !.manifest = [m EXCEPT !.version = from.version + 1]]

\* A change of catalog table n, and its registration.
CatalogChange(e, m, n) ==
  [CatalogCommit(e, m) EXCEPT !.tables[n] = None, !.scans[n] = m.tables[n],
                              !.versions[n] = epoch + 1]

MemoryChange(e, n) == [e EXCEPT !.tables[n] = epoch + 1, !.versions[n] = epoch + 1]

Deregister(e, n) == [e EXCEPT !.tables[n] = None, !.scans[n] = None]

\* Engine::drop_table.
Dropped(e, n) ==
  Deregister(IF HasTable(e.manifest, n) THEN CatalogCommit(e, DropTable(e.manifest, n)) ELSE e, n)

\* Mutant of NewFile: part number 0, whether it exists or not.
NewFileZero(id, version) == [path |-> [id |-> id, version |-> version, k |-> 0], rows |-> 1]

\* write_files: the first part number that is free on disk.
NewFile(id, version) ==
  LET taken == {f.path.k : f \in {g \in files : g.path.id = id /\ g.path.version = version}}
      k == CHOOSE k \in 0 .. Cardinality(taken) :
             k \notin taken /\ \A j \in 0 .. (k - 1) : j \in taken
  IN [path |-> [id |-> id, version |-> version, k |-> k], rows |-> 1]

Usable(e) == e.txn # None => ~e.txn.aborted

IsView(e, n) == e.views[n] # None

-----------------------------------------------------------------------------
(***************************************************************************)
(* One job of the runtime: activate the session, run one statement.        *)
(***************************************************************************)
\* The statement leaves the engine at e, with data files fs.  Outside a
\* transaction it has published its manifest.
Run(e, fs) ==
  /\ epoch < MaxEpoch /\ epoch' = epoch + 1
  /\ engine' = e
  /\ files' = files \cup fs
  /\ published' = IF e.txn_base = None THEN e.manifest ELSE published

\* A query, or a statement refused because the transaction is aborted, changes
\* nothing but the state that is installed.
Query(e) ==
  /\ engine' = e
  /\ UNCHANGED <<published, files, epoch>>

CreateTemporary(e, n) ==
  /\ Usable(e) /\ ~Has(e, n)
  /\ Run(MemoryChange(e, n), {})

CreateDurable(e, n) ==
  LET f == NewFile(e.manifest.next_table_id, e.manifest.version + 1)
  IN /\ Usable(e) /\ ~Has(e, n) /\ ~NameTaken(e.manifest, n)
     /\ Run(CatalogChange(e, NewTable(e.manifest, n, "managed", {f}), n), {f})

\* INSERT appends a file to a catalog table, or rows to an in-memory one.
Insert(e, n) ==
  LET f == NewFile(e.manifest.tables[n].id, e.manifest.version + 1)
  IN /\ Usable(e) /\ Has(e, n) /\ ~IsView(e, n)
     /\ IF HasTable(e.manifest, n)
          THEN Run(CatalogChange(e, AppendRows(e.manifest, n, {f}), n), {f})
          ELSE Run(MemoryChange(e, n), {})

Truncate(e, n) ==
  /\ Usable(e) /\ Has(e, n) /\ ~IsView(e, n)
  /\ IF HasTable(e.manifest, n)
       THEN Run(CatalogChange(e, SetRows(e.manifest, n, {}), n), {})
       ELSE Run(MemoryChange(e, n), {})

Drop(e, n) ==
  /\ Usable(e) /\ Has(e, n) /\ ~IsView(e, n)
  /\ Run(Dropped(e, n), {})

\* A durable view: its backing table, its definition in the catalog and in the
\* engine.
Persisted(e, n) ==
  [CatalogCommit(e, PutView(e.manifest, n, [dependencies |-> {}])) EXCEPT !.views[n] = epoch + 1]

CreateView(e, n) ==
  LET f == NewFile(e.manifest.next_table_id, e.manifest.version + 1)
  IN /\ Usable(e) /\ ~Has(e, n) /\ ~IsView(e, n)
     /\ Run(Persisted(CatalogChange(e, NewTable(e.manifest, n, "managed", {f}), n), n), {f})

RefreshView(e, n) ==
  LET f == NewFile(e.manifest.tables[n].id, e.manifest.version + 1)
  IN /\ Usable(e) /\ IsView(e, n) /\ HasTable(e.manifest, n)
     /\ Run(Persisted(CatalogChange(e, SetRows(e.manifest, n, {f}), n), n), {f})

DropView(e, n) ==
  LET without == CatalogCommit([e EXCEPT !.views[n] = None], RemoveView(e.manifest, n))
  IN /\ Usable(e) /\ IsView(e, n)
     /\ Run(IF Has(e, n) THEN Dropped(without, n) ELSE without, {})

\* A statement fails inside a transaction: abort_transaction_on_error.
FailedStatement(e) ==
  /\ e.txn # None /\ Usable(e)
  /\ engine' = [e EXCEPT !.txn.aborted = TRUE]
  /\ UNCHANGED <<published, files, epoch>>

-----------------------------------------------------------------------------
(***************************************************************************)
(* Transaction control.                                                    *)
(***************************************************************************)
Begin(s, e) ==
  LET began == [e EXCEPT !.txn_base = e.manifest]
  IN /\ e.txn = None
     /\ engine' = [began EXCEPT !.committed = Capture(e),
                                !.txn = [session |-> s, aborted |-> FALSE,
                                         base |-> Capture(began), savepoints |-> <<>>]]
     /\ UNCHANGED <<published, files, epoch>>

\* Mutant of Commit: without the check for conflicts.
CommitLastWins(e) ==
  /\ e.txn # None
  /\ IF ~e.txn.aborted
       THEN engine' = Committed(e) /\ published' = engine'.manifest
       ELSE engine' = RolledBack(e) /\ UNCHANGED published
  /\ UNCHANGED <<files, epoch>>

\* Mutant of Commit: an aborted transaction is published.
CommitAborted(e) ==
  /\ e.txn # None
  /\ IF Serializable(e)
       THEN engine' = Committed(e) /\ published' = engine'.manifest
       ELSE engine' = RolledBack(e) /\ UNCHANGED published
  /\ UNCHANGED <<files, epoch>>

\* An aborted transaction and one with a conflict are rolled back.
Commit(e) ==
  /\ e.txn # None
  /\ IF ~e.txn.aborted /\ Serializable(e)
       THEN engine' = Committed(e) /\ published' = engine'.manifest
       ELSE engine' = RolledBack(e) /\ UNCHANGED published
  /\ UNCHANGED <<files, epoch>>

\* ROLLBACK; also a COMMIT whose publishing fails.
Rollback(e) ==
  /\ e.txn # None
  /\ engine' = RolledBack(e)
  /\ UNCHANGED <<published, files, epoch>>

Savepoint(e, name) ==
  /\ e.txn # None /\ Usable(e) /\ Len(e.txn.savepoints) < MaxSavepoints
  /\ engine' = [e EXCEPT !.txn.savepoints = Append(@, [name |-> name, state |-> Capture(e)])]
  /\ UNCHANGED <<published, files, epoch>>

\* savepoint_index: the newest savepoint of that name.
Newest(t, name, i) ==
  /\ i \in DOMAIN t.savepoints /\ t.savepoints[i].name = name
  /\ \A j \in DOMAIN t.savepoints : j > i => t.savepoints[j].name # name

\* Mutant of RollbackToSavepoint: the later savepoints stay defined.
RollbackToKeepsLater(e, name) ==
  /\ e.txn # None
  /\ \E i \in DOMAIN e.txn.savepoints :
       /\ Newest(e.txn, name, i)
       /\ engine' = Install([e EXCEPT !.txn.aborted = FALSE], e.txn.savepoints[i].state)
  /\ UNCHANGED <<published, files, epoch>>

RollbackToSavepoint(e, name) ==
  /\ e.txn # None
  /\ \E i \in DOMAIN e.txn.savepoints :
       /\ Newest(e.txn, name, i)
       /\ engine' = Install([e EXCEPT !.txn.savepoints = SubSeq(@, 1, i),
                                      !.txn.aborted = FALSE],
                            e.txn.savepoints[i].state)
  /\ UNCHANGED <<published, files, epoch>>

ReleaseSavepoint(e, name) ==
  /\ e.txn # None /\ Usable(e)
  /\ \E i \in DOMAIN e.txn.savepoints :
       /\ Newest(e.txn, name, i)
       /\ engine' = [e EXCEPT !.txn.savepoints = SubSeq(@, 1, i - 1)]
  /\ UNCHANGED <<published, files, epoch>>

-----------------------------------------------------------------------------
\* Mutant of Vacuum: only the installed transaction is in its way.
VacuumWhileParked(e) ==
  /\ e.txn = None
  /\ engine' = e
  /\ files' = files \cap FilesOf(e.manifest)
  /\ UNCHANGED <<published, epoch>>

\* VACUUM KEEP 1: refused while any session has a transaction open.
Vacuum(e) ==
  /\ OpenTransactions(e) = {}
  /\ engine' = e
  /\ files' = files \cap FilesOf(e.manifest)
  /\ UNCHANGED <<published, epoch>>

\* The process stops, anywhere, and opens the catalog again.
Restart ==
  /\ engine' = Opened(published)
  /\ UNCHANGED <<published, files, epoch>>

\* One job: the session is activated, then the statement runs.
Next ==
  \/ \E s \in Sessions : \E e \in {Activate(engine, s)} :
       \/ Query(e) \/ FailedStatement(e) \/ Begin(s, e) \/ Commit(e) \/ Rollback(e) \/ Vacuum(e)
       \/ \E n \in TempNames : CreateTemporary(e, n)
       \/ \E n \in DurableNames \ ViewNames : CreateDurable(e, n)
       \/ \E n \in Names : Insert(e, n) \/ Truncate(e, n) \/ Drop(e, n)
       \/ \E n \in ViewNames : CreateView(e, n) \/ RefreshView(e, n) \/ DropView(e, n)
       \/ \E name \in SavepointNames :
            \/ Savepoint(e, name) \/ RollbackToSavepoint(e, name) \/ ReleaseSavepoint(e, name)
  \/ Restart

Spec == Init /\ [][Next]_vars

\* install stops at its first error (a file that cannot be opened, no device
\* memory): the catalog's state is set, done are the names re-registered before.
InstallFails(e, s, done) ==
  LET now == [n \in Names |-> IF n \in done THEN Registered(e, s, n)
                              ELSE [table |-> e.tables[n], scan |-> e.scans[n]]]
  IN [e EXCEPT !.tables = [n \in Names |-> now[n].table],
               !.scans = [n \in Names |-> now[n].scan],
               !.manifest = s.manifest, !.txn_base = s.txn_base]

MustRegister(e, s) ==
  {n \in Names : Registered(e, s, n) \notin {Gone, [table |-> e.tables[n], scan |-> e.scans[n]]}}

\* activate_session with such an error: the statement is not run, and the state
\* taken out to be installed is dropped.
ActivateFails(s) ==
  LET out == Park(engine)
      target == IF HasTransaction(engine, s) THEN s ELSE None
      e == IF target = None THEN [out EXCEPT !.committed = None] ELSE [out EXCEPT !.parked[s] = None]
      state == IF target = None THEN out.committed ELSE out.parked[s].work
  IN /\ Holder(engine) # target
     /\ \E n \in MustRegister(e, state), done \in SUBSET Names :
          n \notin done /\ engine' = InstallFails(e, state, done)
     /\ UNCHANGED <<published, files, epoch>>

SpecWithErrors == Init /\ [][Next \/ \E s \in Sessions : ActivateFails(s)]_vars

-----------------------------------------------------------------------------
SnapshotType ==
  [tables : [Names -> Nat \cup {None}], versions : [Names -> Nat],
   views : [Names -> Nat \cup {None}],
   manifest : ManifestType, txn_base : ManifestType \cup {None}]

SavepointType == [name : SavepointNames, state : SnapshotType]

TransactionType ==
  [session : Sessions, aborted : BOOLEAN, base : SnapshotType, savepoints : Seq(SavepointType)]

ParkedType == [txn : TransactionType, work : SnapshotType]

EngineType ==
  [tables : [Names -> Nat \cup {None}], versions : [Names -> Nat],
   scans : [Names -> TableMeta \cup {None}], views : [Names -> Nat \cup {None}],
   manifest : ManifestType, txn_base : ManifestType \cup {None},
   txn : TransactionType \cup {None}, parked : [Sessions -> ParkedType \cup {None}],
   committed : SnapshotType \cup {None}]

\* Option::None is none of the values it stands beside.
ASSUME NoneAssumption ==
  None \notin Sessions \cup Nat \cup TableMeta \cup ViewMeta \cup ManifestType
                \cup SnapshotType \cup TransactionType \cup ParkedType

TypeOK ==
  /\ engine \in EngineType
  /\ published \in ManifestType /\ files \subseteq DataFile /\ epoch \in 0 .. MaxEpoch

\* The open transaction of s.
Transaction(s) == IF Holder(engine) = s THEN engine.txn ELSE engine.parked[s].txn

CommittedManifest == IF engine.txn = None THEN engine.manifest ELSE engine.committed.manifest

\* Every manifest that the engine may publish or return to.
Manifests ==
  LET of(t) == {t.base.manifest} \cup {t.savepoints[i].state.manifest : i \in DOMAIN t.savepoints}
      ofParked == {engine.parked[s] : s \in {x \in Sessions : engine.parked[x] # None}}
  IN {engine.manifest, CommittedManifest, published}
       \cup (IF engine.txn = None THEN {} ELSE of(engine.txn))
       \cup UNION {{p.work.manifest} \cup of(p.txn) : p \in ofParked}

\* The committed state the engine keeps, whoever is installed, is the published
\* one: no switch between sessions, rollback, failed commit or merge makes the
\* next commit start from anything else.
CommittedIsPublished == CommittedManifest = published

\* Whatever is committed, parked, or remembered by a savepoint is made of files
\* that exist: VACUUM never runs under an open transaction of any session.
FilesKept == \A m \in Manifests : FilesOf(m) \subseteq files

\* A data file belongs to one table.  Two transactions may hand out the same
\* table id (commit_concurrent takes the larger counter), so this rests on
\* write_files looking for a name that does not exist.
NoSharedFile ==
  \A m \in Manifests : \A a, b \in Names :
    a # b /\ HasTable(m, a) /\ HasTable(m, b) =>
      m.tables[a].files \cap m.tables[b].files = {}

IdsBelow(m) == \A n \in Names : HasTable(m, n) => m.tables[n].id < m.next_table_id

\* Every table id is below the counter of its manifest, so CREATE TABLE never
\* gives a table the data directory of one its own snapshot has: through
\* rollbacks, savepoints that bring an older counter back, restarts, and
\* commit_concurrent, which takes the larger of two counters.  (Two transactions
\* that create tables at the same time do end up in one directory.)
FreshIds == \A m \in Manifests : IdsBelow(m)

\* activate_session installs "its open transaction's [state], or the committed
\* state when it has none": with no transaction installed, statements run on
\* the committed state and publish what they do.
\* (Does not hold under SpecWithErrors: README.)
OutsideIsCommitted ==
  engine.txn = None => engine.manifest = published /\ engine.txn_base = None

-----------------------------------------------------------------------------
(***************************************************************************)
(* What each session sees, as the abstract specification's state.          *)
(***************************************************************************)
Contents(rows, t) ==
  IF rows # None THEN [memory |-> rows] ELSE IF t # None THEN [files |-> t.files] ELSE None

Seen(e) == [n \in Names |-> Contents(e.tables[n], e.scans[n])]

SeenIn(s) == [n \in Names |-> Contents(s.tables[n], s.manifest.tables[n])]

\* What s sees inside its transaction.
SeenBy(s) ==
  CASE Holder(engine) = s -> Seen(engine)
    [] Holder(engine) # s /\ engine.parked[s] # None -> SeenIn(engine.parked[s].work)
    [] OTHER -> None

Isolation == INSTANCE SnapshotIsolation WITH
  Durable <- DurableNames,
  db <- IF engine.txn = None THEN Seen(engine) ELSE SeenIn(engine.committed),
  work <- [s \in Sessions |-> SeenBy(s)],
  base <- [s \in Sessions |-> IF HasTransaction(engine, s)
                                THEN SeenIn(Transaction(s).base) ELSE None],
  marks <- [s \in Sessions |->
              IF HasTransaction(engine, s)
                THEN [i \in DOMAIN Transaction(s).savepoints |->
                        SeenIn(Transaction(s).savepoints[i].state)]
                ELSE <<>>]

\* Snapshot isolation, first committer wins: parking, re-registration and the
\* two merges are invisible, and every session sees what the abstract
\* specification says.
IsolationSpec == Isolation!Spec

\* "A statement that fails inside a transaction aborts it": from then on the
\* transaction's tables do not change until ROLLBACK TO SAVEPOINT ends the
\* aborted state, and if the transaction ends instead, nothing is published.
AbortedIsInert ==
  [][\A s \in OpenTransactions(engine) :
       Transaction(s).aborted =>
         IF s \in OpenTransactions(engine)'
           THEN Transaction(s)'.aborted => SeenBy(s)' = SeenBy(s)
           ELSE published' = published]_vars

\* "the tables and views it changed replace the committed ones": after a COMMIT
\* that is not rolled back, every session outside a transaction sees the
\* committed transaction's version of each table it changed.
\* (Does not hold: README.)
CommitReplaces ==
  [][\A s \in OpenTransactions(engine) :
       published' # published /\ s \notin OpenTransactions(engine)' =>
         \A n \in Names : SeenBy(s)[n] # SeenIn(Transaction(s).base)[n] =>
           Seen(engine')[n] = SeenBy(s)[n]]_vars
=============================================================================
