------------------------ MODULE Transactions_proofs ------------------------
(***************************************************************************)
(* Transactions for any number of sessions, names, savepoints and writes.  *)
(* A statement is a function on the engine, so the lemmas speak about an   *)
(* engine e that need not be the installed one: Activate yields an engine  *)
(* that is as good as the one it got, and each statement is then followed  *)
(* from there.                                                             *)
(***************************************************************************)
EXTENDS Transactions, FiniteSetTheorems, WellFoundedInduction, TLAPS

\* The files a manifest gives table a.
TableFiles(m, a) == IF HasTable(m, a) THEN m.tables[a].files ELSE {}

\* m is r with files taken away, or F added to table n, and its counter is above
\* its ids if that of r is.
Grown(m, r, n, F) ==
  /\ m \in ManifestType /\ (IdsBelow(r) => IdsBelow(m))
  /\ \A a \in Names : TableFiles(m, a) \subseteq TableFiles(r, a) \cup (IF a = n THEN F ELSE {})

LEMMA TableEntry ==
  ASSUME NEW m \in ManifestType, NEW n \in Names, HasTable(m, n)
  PROVE  /\ m.tables[n] \in TableMeta /\ TableFiles(m, n) = m.tables[n].files
         /\ m.tables[n].id \in Nat /\ m.tables[n].files \subseteq DataFile
<1>1. m.tables[n] \in TableMeta
  BY Zenon DEF ManifestType, HasTable
<1> QED BY <1>1, Zenon DEF TableFiles, TableMeta

LEMMA FilesOfTables ==
  ASSUME NEW m, NEW f
  PROVE  f \in FilesOf(m) <=> \E a \in Names : f \in TableFiles(m, a)
BY Zenon DEF FilesOf, TableFiles

\* One entry written.
LEMMA WithTableGrown ==
  ASSUME NEW m \in ManifestType, NEW n \in Names, NEW t \in TableMeta \cup {None}, NEW F,
         t # None => /\ t.files \subseteq TableFiles(m, n) \cup F
                     /\ t.id < m.next_table_id \/ (HasTable(m, n) /\ t.id = m.tables[n].id)
  PROVE  Grown(WithTable(m, n, t), m, n, F)
<1> DEFINE r == WithTable(m, n, t)
<1>1. /\ r \in ManifestType /\ r.next_table_id = m.next_table_id
      /\ \A x \in Names : r.tables[x] = IF x = n THEN t ELSE m.tables[x]
  BY Zenon DEF WithTable, ManifestType
<1> HIDE DEF r
<1>2. ASSUME NEW a \in Names
      PROVE  TableFiles(r, a) \subseteq TableFiles(m, a) \cup (IF a = n THEN F ELSE {})
  <2>1. CASE a = n
    BY <1>1, <2>1, Zenon DEF TableFiles, HasTable
  <2>2. CASE a # n
    BY <1>1, <2>2, Zenon DEF TableFiles, HasTable
  <2> QED BY <2>1, <2>2, Zenon
<1>3. IdsBelow(m) => IdsBelow(r)
  BY <1>1, Zenon DEF IdsBelow, HasTable
<1> QED BY <1>1, <1>2, <1>3, Zenon DEF Grown, r

\* The same tables.
LEMMA SameTablesGrown ==
  ASSUME NEW m, NEW r, m \in ManifestType, m.tables = r.tables,
         m.next_table_id = r.next_table_id, NEW n, NEW F
  PROVE  Grown(m, r, n, F)
BY Zenon DEF Grown, IdsBelow, TableFiles, HasTable

LEMMA GrownTwice ==
  ASSUME NEW m, NEW r, NEW q, NEW n, NEW F, NEW G, G \subseteq F,
         Grown(m, r, n, G), Grown(r, q, n, F)
  PROVE  Grown(m, q, n, F)
<1> SUFFICES ASSUME NEW a \in Names
             PROVE  TableFiles(m, a) \subseteq TableFiles(q, a) \cup (IF a = n THEN F ELSE {})
  BY Zenon DEF Grown
<1>1. TableFiles(m, a) \subseteq TableFiles(r, a) \cup (IF a = n THEN G ELSE {})
  BY Zenon DEF Grown
<1>2. TableFiles(r, a) \subseteq TableFiles(q, a) \cup (IF a = n THEN F ELSE {})
  BY Zenon DEF Grown
<1>3. CASE a = n
  BY <1>1, <1>2, <1>3, Zenon
<1>4. CASE a # n
  BY <1>1, <1>2, <1>4, Zenon
<1> QED BY <1>3, <1>4, Zenon

\* A number changed.
LEMMA NumberedGrown ==
  ASSUME NEW m \in ManifestType, NEW v \in Nat, NEW r, NEW n, NEW F, Grown(m, r, n, F)
  PROVE  Grown([m EXCEPT !.version = v], r, n, F)
<1> DEFINE q == [m EXCEPT !.version = v]
<1>1. q \in ManifestType /\ q.tables = m.tables /\ q.next_table_id = m.next_table_id
  BY Zenon DEF ManifestType
<1> HIDE DEF q
<1>2. Grown(q, m, n, {})
  BY <1>1, SameTablesGrown, Zenon
<1>3. Grown(q, r, n, F)
  BY <1>2, GrownTwice
<1> QED BY <1>3, Zenon DEF q

LEMMA SetRowsGrown ==
  ASSUME NEW m \in ManifestType, NEW n \in Names, HasTable(m, n), NEW S \in SUBSET DataFile, NEW F,
         S \subseteq m.tables[n].files \cup F
  PROVE  Grown(SetRows(m, n, S), m, n, F)
<1> DEFINE t == [m.tables[n] EXCEPT !.files = S, !.table_version = @ + 1, !.analyzed = None]
<1>1. m.tables[n] \in TableMeta /\ TableFiles(m, n) = m.tables[n].files
  BY TableEntry, Zenon
<1>2. m.tables[n].table_version + 1 \in Nat
  BY <1>1 DEF TableMeta
<1>3. t \in TableMeta /\ t.files = S /\ t.id = m.tables[n].id
  BY <1>1, <1>2, Zenon DEF TableMeta
<1>4. SetRows(m, n, S) = WithTable(m, n, t)
  BY Zenon DEF SetRows
<1> HIDE DEF t
<1> QED BY <1>1, <1>3, <1>4, WithTableGrown, Zenon

LEMMA NewTableGrown ==
  ASSUME NEW m \in ManifestType, NEW n \in Names, NEW F \in SUBSET DataFile
  PROVE  Grown(NewTable(m, n, "managed", F), m, n, F)
<1> DEFINE c == [m EXCEPT !.next_table_id = @ + 1]
           t == [id |-> m.next_table_id, kind |-> "managed", files |-> F,
                 table_version |-> 1, analyzed |-> None]
<1>1. m.next_table_id \in Nat /\ m.next_table_id + 1 \in Nat
  BY DEF ManifestType
<1>2. c \in ManifestType /\ c.tables = m.tables /\ c.next_table_id = m.next_table_id + 1
  BY <1>1, Zenon DEF ManifestType
<1>3. t \in TableMeta /\ t.files = F /\ t.id = m.next_table_id
  BY <1>1, Zenon DEF TableMeta, TableKind
<1>4. NewTable(m, n, "managed", F) = WithTable(c, n, t)
  BY Zenon DEF NewTable
<1> HIDE DEF c, t
<1>5. Grown(WithTable(c, n, t), c, n, F)
  <2>1. t.id < c.next_table_id
    BY <1>1, <1>2, <1>3
  <2> QED BY <1>2, <1>3, <2>1, WithTableGrown, Zenon
<1>6. Grown(c, m, n, F)
  <2>1. \A a \in Names : HasTable(m, a) => m.tables[a].id \in Nat
    BY TableEntry, Zenon
  <2>2. IdsBelow(m) => IdsBelow(c)
    BY <1>1, <1>2, <2>1 DEF IdsBelow, HasTable
  <2> QED BY <1>2, <2>2, Zenon DEF Grown, TableFiles, HasTable
<1> QED BY <1>4, <1>5, <1>6, GrownTwice, Zenon

LEMMA DropTableGrown ==
  ASSUME NEW m \in ManifestType, NEW n \in Names
  PROVE  Grown(DropTable(m, n), m, n, {})
BY WithTableGrown, Zenon DEF DropTable

LEMMA ViewGrown ==
  ASSUME NEW m \in ManifestType, NEW n \in Names, NEW v \in ViewMeta \cup {None}, NEW F
  PROVE  Grown(PutView(m, n, v), m, n, F) /\ Grown(RemoveView(m, n), m, n, F)
<1>1. /\ PutView(m, n, v) \in ManifestType /\ PutView(m, n, v).tables = m.tables
      /\ PutView(m, n, v).next_table_id = m.next_table_id
      /\ RemoveView(m, n) \in ManifestType /\ RemoveView(m, n).tables = m.tables
      /\ RemoveView(m, n).next_table_id = m.next_table_id
  BY Zenon DEF PutView, RemoveView, ManifestType
<1> QED BY <1>1, SameTablesGrown, Zenon

-----------------------------------------------------------------------------
(***************************************************************************)
(* What each method does to an engine.                                     *)
(***************************************************************************)
\* The parts of the engine that only transaction control changes.
SameControl(e, d) ==
  e.txn = d.txn /\ e.parked = d.parked /\ e.committed = d.committed /\ e.txn_base = d.txn_base

LEMMA EngineFields ==
  ASSUME NEW e \in EngineType
  PROVE  /\ e.manifest \in ManifestType /\ e.txn_base \in ManifestType \cup {None}
         /\ e.txn \in TransactionType \cup {None} /\ e.committed \in SnapshotType \cup {None}
         /\ e.parked \in [Sessions -> ParkedType \cup {None}]
         /\ e.tables \in [Names -> Nat \cup {None}] /\ e.versions \in [Names -> Nat]
         /\ e.scans \in [Names -> TableMeta \cup {None}] /\ e.views \in [Names -> Nat \cup {None}]
BY Zenon DEF EngineType

LEMMA CaptureFacts ==
  ASSUME NEW e \in EngineType
  PROVE  /\ Capture(e) \in SnapshotType
         /\ Capture(e).manifest = e.manifest /\ Capture(e).txn_base = e.txn_base
BY EngineFields, Zenon DEF Capture, SnapshotType

LEMMA RegisteredType ==
  ASSUME NEW e \in EngineType, NEW s \in SnapshotType, NEW n \in Names
  PROVE  Registered(e, s, n) \in [table : Nat \cup {None}, scan : TableMeta \cup {None}]
<1>1. /\ e.tables[n] \in Nat \cup {None} /\ e.scans[n] \in TableMeta \cup {None}
  BY EngineFields, Zenon
<1>2. s.tables[n] \in Nat \cup {None} /\ s.manifest.tables[n] \in TableMeta \cup {None}
  BY Zenon DEF SnapshotType, ManifestType
<1> QED BY <1>1, <1>2, Zenon DEF Registered, Gone, Scanned, InMemory

LEMMA InstallFacts ==
  ASSUME NEW e \in EngineType, NEW s \in SnapshotType
  PROVE  /\ Install(e, s) \in EngineType
         /\ Install(e, s).manifest = s.manifest /\ Install(e, s).txn_base = s.txn_base
         /\ Install(e, s).txn = e.txn /\ Install(e, s).parked = e.parked
         /\ Install(e, s).committed = e.committed
<1> DEFINE now == [n \in Names |-> Registered(e, s, n)]
           T == [n \in Names |-> now[n].table]
           C == [n \in Names |-> now[n].scan]
<1>1. T \in [Names -> Nat \cup {None}] /\ C \in [Names -> TableMeta \cup {None}]
  BY RegisteredType, Zenon
<1>2. Install(e, s) = [e EXCEPT !.tables = T, !.scans = C, !.versions = s.versions,
                                !.views = s.views, !.manifest = s.manifest, !.txn_base = s.txn_base]
  BY Zenon DEF Install
<1> HIDE DEF T, C
<1>3. /\ s.versions \in [Names -> Nat] /\ s.views \in [Names -> Nat \cup {None}]
      /\ s.manifest \in ManifestType /\ s.txn_base \in ManifestType \cup {None}
  BY Zenon DEF SnapshotType
<1> QED BY <1>1, <1>2, <1>3, ZenonT(40) DEF EngineType

LEMMA CatalogCommitFacts ==
  ASSUME NEW e \in EngineType, NEW n \in Names, NEW F, NEW m \in ManifestType,
         Grown(m, e.manifest, n, F)
  PROVE  /\ CatalogCommit(e, m) \in EngineType /\ SameControl(CatalogCommit(e, m), e)
         /\ Grown(CatalogCommit(e, m).manifest, e.manifest, n, F)
         /\ CatalogCommit(e, m).manifest.tables = m.tables
         /\ CatalogCommit(e, m).scans = e.scans /\ CatalogCommit(e, m).tables = e.tables
<1>1. PICK v : v = (IF e.txn_base # None THEN e.txn_base ELSE e.manifest).version + 1
  BY Zenon
<1>2. v \in Nat
  BY <1>1, EngineFields DEF ManifestType
<1>3. PICK r : r = [m EXCEPT !.version = v]
  BY Zenon
<1>4. r \in ManifestType /\ Grown(r, e.manifest, n, F) /\ r.tables = m.tables
  BY <1>2, <1>3, NumberedGrown, Zenon DEF ManifestType
<1>5. CatalogCommit(e, m) = [e EXCEPT !.manifest = r]
  BY <1>1, <1>3, Zenon DEF CatalogCommit
<1>6. /\ [e EXCEPT !.manifest = r] \in EngineType /\ SameControl([e EXCEPT !.manifest = r], e)
      /\ [e EXCEPT !.manifest = r].manifest = r /\ [e EXCEPT !.manifest = r].scans = e.scans
      /\ [e EXCEPT !.manifest = r].tables = e.tables
  BY <1>4, Zenon DEF EngineType, SameControl
<1> QED BY <1>4, <1>5, <1>6, Zenon

LEMMA CatalogChangeFacts ==
  ASSUME NEW e \in EngineType, NEW n \in Names, NEW F, NEW m \in ManifestType,
         Grown(m, e.manifest, n, F), epoch + 1 \in Nat
  PROVE  /\ CatalogChange(e, m, n) \in EngineType /\ SameControl(CatalogChange(e, m, n), e)
         /\ Grown(CatalogChange(e, m, n).manifest, e.manifest, n, F)
         /\ CatalogChange(e, m, n).manifest.tables = m.tables
<1>1. PICK c : c = CatalogCommit(e, m)
  BY Zenon
<1>2. /\ c \in EngineType /\ SameControl(c, e) /\ Grown(c.manifest, e.manifest, n, F)
      /\ c.manifest.tables = m.tables
  <2>1. c \in EngineType /\ SameControl(c, e) /\ Grown(c.manifest, e.manifest, n, F)
    BY <1>1, CatalogCommitFacts, Zenon
  <2>2. c.manifest.tables = m.tables
    BY <1>1, CatalogCommitFacts
  <2> QED BY <2>1, <2>2, Zenon
<1>3. CatalogChange(e, m, n) = [c EXCEPT !.tables[n] = None, !.scans[n] = m.tables[n],
                                         !.versions[n] = epoch + 1]
  BY <1>1, Zenon DEF CatalogChange
<1>4. m.tables[n] \in TableMeta \cup {None}
  BY Zenon DEF ManifestType
<1>5. PICK d : d = [c EXCEPT !.tables[n] = None, !.scans[n] = m.tables[n], !.versions[n] = epoch + 1]
  BY Zenon
<1>6. d \in EngineType
  <2>1. /\ [c.tables EXCEPT ![n] = None] \in [Names -> Nat \cup {None}]
        /\ [c.scans EXCEPT ![n] = m.tables[n]] \in [Names -> TableMeta \cup {None}]
        /\ [c.versions EXCEPT ![n] = epoch + 1] \in [Names -> Nat]
    BY <1>2, <1>4, EngineFields, Zenon
  <2> QED BY <1>2, <1>5, <2>1, ZenonT(40) DEF EngineType
<1>7. d.manifest = c.manifest /\ SameControl(d, c)
  BY <1>2, <1>5, Zenon DEF EngineType, SameControl
<1> QED BY <1>2, <1>3, <1>5, <1>6, <1>7, Zenon DEF SameControl

LEMMA MemoryChangeFacts ==
  ASSUME NEW e \in EngineType, NEW n \in Names, epoch + 1 \in Nat
  PROVE  /\ MemoryChange(e, n) \in EngineType /\ SameControl(MemoryChange(e, n), e)
         /\ MemoryChange(e, n).manifest = e.manifest
BY Zenon DEF MemoryChange, EngineType, SameControl

LEMMA DeregisterFacts ==
  ASSUME NEW e \in EngineType, NEW n \in Names
  PROVE  /\ Deregister(e, n) \in EngineType /\ SameControl(Deregister(e, n), e)
         /\ Deregister(e, n).manifest = e.manifest
BY Zenon DEF Deregister, EngineType, SameControl

LEMMA DroppedFacts ==
  ASSUME NEW e \in EngineType, NEW n \in Names
  PROVE  /\ Dropped(e, n) \in EngineType /\ SameControl(Dropped(e, n), e)
         /\ Grown(Dropped(e, n).manifest, e.manifest, n, {})
<1>1. e.manifest \in ManifestType
  BY EngineFields, Zenon
<1>2. Grown(DropTable(e.manifest, n), e.manifest, n, {}) /\ DropTable(e.manifest, n) \in ManifestType
  BY <1>1, DropTableGrown, Zenon DEF Grown
<1>3. PICK d : d = IF HasTable(e.manifest, n) THEN CatalogCommit(e, DropTable(e.manifest, n)) ELSE e
  BY Zenon
<1>4. d \in EngineType /\ SameControl(d, e) /\ Grown(d.manifest, e.manifest, n, {})
  <2>1. CASE HasTable(e.manifest, n)
    BY <1>2, <1>3, <2>1, CatalogCommitFacts, Zenon
  <2>2. CASE ~HasTable(e.manifest, n)
    BY <1>1, <1>3, <2>2, SameTablesGrown, Zenon DEF SameControl
  <2> QED BY <2>1, <2>2, Zenon
<1>5. Dropped(e, n) = Deregister(d, n)
  BY <1>3, Zenon DEF Dropped
<1> QED BY <1>4, <1>5, DeregisterFacts DEF SameControl

LEMMA PersistedFacts ==
  ASSUME NEW e \in EngineType, NEW n \in Names, epoch + 1 \in Nat
  PROVE  /\ Persisted(e, n) \in EngineType /\ SameControl(Persisted(e, n), e)
         /\ Grown(Persisted(e, n).manifest, e.manifest, n, {})
<1>1. e.manifest \in ManifestType /\ [dependencies |-> {}] \in ViewMeta
  BY EngineFields, Zenon DEF ViewMeta
<1>2. PICK m : m = PutView(e.manifest, n, [dependencies |-> {}])
  BY Zenon
<1>3. m \in ManifestType /\ Grown(m, e.manifest, n, {})
  BY <1>1, <1>2, ViewGrown, Zenon DEF Grown
<1>4. PICK c : c = CatalogCommit(e, m)
  BY Zenon
<1>5. c \in EngineType /\ SameControl(c, e) /\ Grown(c.manifest, e.manifest, n, {})
  BY <1>3, <1>4, CatalogCommitFacts, Zenon
<1>6. Persisted(e, n) = [c EXCEPT !.views[n] = epoch + 1]
  BY <1>2, <1>4, Zenon DEF Persisted
<1>7. /\ [c EXCEPT !.views[n] = epoch + 1] \in EngineType
      /\ SameControl([c EXCEPT !.views[n] = epoch + 1], c)
      /\ [c EXCEPT !.views[n] = epoch + 1].manifest = c.manifest
  BY <1>5, ZenonT(40) DEF EngineType, SameControl
<1> QED BY <1>5, <1>6, <1>7, Zenon DEF SameControl

-----------------------------------------------------------------------------
(***************************************************************************)
(* Whose state is installed, and what is kept of the others.               *)
(***************************************************************************)
\* A transaction that works on w: the catalog is inside one there and at every
\* savepoint.
OpenWork(t, w) ==
  w.txn_base # None /\ \A i \in DOMAIN t.savepoints : t.savepoints[i].state.txn_base # None

\* With no transaction installed the engine is at the published manifest;
\* otherwise the committed state it keeps is.
Consistent(e, p) ==
  /\ e \in EngineType
  /\ e.txn = None => e.manifest = p /\ e.txn_base = None
  /\ e.txn # None => /\ e.committed # None
                     /\ e.committed.manifest = p /\ e.committed.txn_base = None
                     /\ OpenWork(e.txn, e)
                     /\ e.parked[e.txn.session] = None
  /\ \A s \in Sessions : e.parked[s] # None => /\ OpenWork(e.parked[s].txn, e.parked[s].work)
                                               /\ e.parked[s].txn.session = s

OfTransaction(t) ==
  {t.base.manifest} \cup {t.savepoints[i].state.manifest : i \in DOMAIN t.savepoints}

\* Manifests, of an engine that need not be the installed one.
HeldBy(e, p, m) ==
  \/ m = e.manifest \/ m = p
  \/ e.txn # None /\ m \in OfTransaction(e.txn) \cup {e.committed.manifest}
  \/ \E s \in Sessions : e.parked[s] # None /\
       m \in OfTransaction(e.parked[s].txn) \cup {e.parked[s].work.manifest}

LEMMA ManifestsHeld ==
  ASSUME NEW m
  PROVE  m \in Manifests <=> HeldBy(engine, published, m)
BY DEF Manifests, HeldBy, OfTransaction, CommittedManifest

\* The transaction a session takes out of the parked ones.
LEMMA ParkedFields ==
  ASSUME NEW e \in EngineType, NEW s \in Sessions, e.parked[s] # None
  PROVE  e.parked[s].txn \in TransactionType /\ e.parked[s].work \in SnapshotType
<1>1. e.parked[s] \in ParkedType
  BY EngineFields, Zenon
<1> QED BY <1>1, Zenon DEF ParkedType

LEMMA TransactionFields ==
  ASSUME NEW t \in TransactionType
  PROVE  /\ t.session \in Sessions /\ t.aborted \in BOOLEAN /\ t.base \in SnapshotType
         /\ t.savepoints \in Seq(SavepointType) /\ t.session # None /\ t # None
         /\ \A i \in DOMAIN t.savepoints : t.savepoints[i].state \in SnapshotType
<1>1. /\ t.session \in Sessions /\ t.aborted \in BOOLEAN /\ t.base \in SnapshotType
      /\ t.savepoints \in Seq(SavepointType)
  BY Zenon DEF TransactionType
<1>2. \A i \in DOMAIN t.savepoints : t.savepoints[i] \in SavepointType
  BY <1>1
<1> QED BY <1>1, <1>2, NoneAssumption, Zenon DEF SavepointType

\* park leaves the engine with no transaction, and everything it had kept.
LEMMA ParkFacts ==
  ASSUME NEW e, NEW p, Consistent(e, p)
  PROVE  /\ Park(e) \in EngineType /\ Park(e).txn = None
         /\ Park(e).committed \in SnapshotType
         /\ Park(e).committed.manifest = p /\ Park(e).committed.txn_base = None
         /\ \A s \in Sessions :
              Park(e).parked[s] = IF Holder(e) = s THEN [txn |-> e.txn, work |-> Capture(e)]
                                                   ELSE e.parked[s]
<1>1. e \in EngineType /\ Capture(e) \in SnapshotType /\ Capture(e).manifest = e.manifest
      /\ Capture(e).txn_base = e.txn_base
  BY CaptureFacts, Zenon DEF Consistent
<1>2. CASE e.txn = None
  <2>1. Park(e) = [e EXCEPT !.committed = Capture(e)]
    BY <1>2, Zenon DEF Park
  <2>2. Holder(e) = None
    BY <1>2, Zenon DEF Holder
  <2>3. /\ Park(e) \in EngineType /\ Park(e).txn = e.txn /\ Park(e).committed = Capture(e)
        /\ Park(e).parked = e.parked
    BY <1>1, <2>1, Zenon DEF EngineType
  <2> QED BY <1>1, <1>2, <2>2, <2>3, NoneAssumption, Zenon DEF Consistent
<1>3. CASE e.txn # None
  <2>1. e.txn \in TransactionType /\ e.txn.session \in Sessions /\ Holder(e) = e.txn.session
    BY <1>1, <1>3, EngineFields, TransactionFields, Zenon DEF Holder
  <2>2. PICK k : k = [txn |-> e.txn, work |-> Capture(e)]
    BY Zenon
  <2>3. k \in ParkedType
    BY <1>1, <2>1, <2>2, Zenon DEF ParkedType
  <2>4. Park(e) = [e EXCEPT !.parked[e.txn.session] = k, !.txn = None]
    BY <1>3, <2>2, Zenon DEF Park
  <2>5. e.parked \in [Sessions -> ParkedType \cup {None}]
    BY <1>1, EngineFields, Zenon
  <2>6. [e.parked EXCEPT ![e.txn.session] = k] \in [Sessions -> ParkedType \cup {None}]
    BY <2>3, <2>5, Zenon
  <2>7. /\ Park(e) \in EngineType /\ Park(e).txn = None /\ Park(e).committed = e.committed
        /\ Park(e).parked = [e.parked EXCEPT ![e.txn.session] = k]
    BY <1>1, <2>4, <2>6, Zenon DEF EngineType
  <2>8. e.committed \in SnapshotType
    BY <1>1, <1>3, EngineFields, Zenon DEF Consistent
  <2> QED BY <1>3, <2>1, <2>2, <2>5, <2>7, <2>8 DEF Consistent
<1> QED BY <1>2, <1>3, Zenon

\* The three things activate_session does: nothing, back to the committed
\* state, or to the session's parked transaction.
Back(e, p, d) ==
  /\ d \in EngineType /\ Holder(e) # None
  /\ d.txn = None /\ d.manifest = p /\ d.txn_base = None
  /\ d.parked = Park(e).parked

Switch(e, p, s, d) ==
  /\ d \in EngineType /\ Holder(e) # s /\ e.parked[s] # None
  /\ d.txn = e.parked[s].txn /\ d.committed = Park(e).committed
  /\ d.manifest = e.parked[s].work.manifest /\ d.txn_base = e.parked[s].work.txn_base
  /\ \A x \in Sessions : d.parked[x] = IF x = s THEN None ELSE Park(e).parked[x]

LEMMA ActivateIs ==
  ASSUME NEW e, NEW p, NEW s \in Sessions, Consistent(e, p), NEW d, d = Activate(e, s)
  PROVE  \/ d = e /\ Holder(e) = IF HasTransaction(e, s) THEN s ELSE None
         \/ ~HasTransaction(e, s) /\ Back(e, p, d)
         \/ Switch(e, p, s, d)
<1>1. PICK target : target = IF HasTransaction(e, s) THEN s ELSE None
  BY Zenon
<1>2. PICK out : out = Park(e)
  BY Zenon
<1>3. /\ out \in EngineType /\ out.txn = None /\ out.committed \in SnapshotType
      /\ out.committed.manifest = p /\ out.committed.txn_base = None
      /\ \A x \in Sessions : Holder(e) # x => out.parked[x] = e.parked[x]
  BY <1>2, ParkFacts, Zenon
<1>4. e \in EngineType
  BY Zenon DEF Consistent
<1>5. CASE Holder(e) = target
  BY <1>1, <1>5, Zenon DEF Activate
<1>6. CASE Holder(e) # target /\ target = None
  <2>1. PICK o : o = [out EXCEPT !.committed = None]
    BY Zenon
  <2>2. d = Install(o, out.committed)
    BY <1>1, <1>2, <1>6, <2>1, Zenon DEF Activate
  <2>3. o \in EngineType /\ o.txn = None /\ o.parked = out.parked
    BY <1>3, <2>1, Zenon DEF EngineType
  <2>4. ~HasTransaction(e, s)
    BY <1>1, <1>6, NoneAssumption, Zenon
  <2> QED BY <1>2, <1>3, <1>6, <2>2, <2>3, <2>4, InstallFacts DEF Back
<1>7. CASE Holder(e) # target /\ target # None
  <2>1. target = s /\ HasTransaction(e, s) /\ Holder(e) # s
    BY <1>1, <1>7, Zenon
  <2>2. e.parked[s] # None /\ out.parked[s] = e.parked[s]
    BY <1>3, <2>1, Zenon DEF HasTransaction
  <2>3. e.parked[s].txn \in TransactionType /\ e.parked[s].work \in SnapshotType
    BY <1>4, <2>2, ParkedFields, Zenon
  <2>4. PICK o : o = [out EXCEPT !.parked[s] = None]
    BY Zenon
  <2>5. d = [Install(o, e.parked[s].work) EXCEPT !.txn = e.parked[s].txn]
    BY <1>1, <1>2, <1>7, <2>2, <2>4, Zenon DEF Activate
  <2>6. out.parked \in [Sessions -> ParkedType \cup {None}]
    BY <1>3, EngineFields, Zenon
  <2>7. [out.parked EXCEPT ![s] = None] \in [Sessions -> ParkedType \cup {None}]
    BY <2>6, Zenon
  <2>8. /\ o \in EngineType /\ o.committed = out.committed
        /\ o.parked = [out.parked EXCEPT ![s] = None]
    BY <1>3, <2>4, <2>7, Zenon DEF EngineType
  <2>9. PICK i : i = Install(o, e.parked[s].work)
    BY Zenon
  <2>10. /\ i \in EngineType /\ i.committed = out.committed
         /\ i.parked = [out.parked EXCEPT ![s] = None]
         /\ i.manifest = e.parked[s].work.manifest /\ i.txn_base = e.parked[s].work.txn_base
    BY <2>3, <2>8, <2>9, InstallFacts, Zenon
  <2>11. /\ d \in EngineType /\ d.txn = e.parked[s].txn /\ d.committed = i.committed
         /\ d.parked = i.parked /\ d.manifest = i.manifest /\ d.txn_base = i.txn_base
    BY <2>3, <2>5, <2>9, <2>10, Zenon DEF EngineType
  <2> QED BY <1>2, <2>1, <2>2, <2>6, <2>10, <2>11, ZenonT(40) DEF Switch
<1> QED BY <1>5, <1>6, <1>7, Zenon

\* activate_session leaves a consistent engine, with s's transaction or none,
\* and makes no manifest.
LEMMA ActivateFacts ==
  ASSUME NEW e, NEW p, NEW s \in Sessions, Consistent(e, p), NEW d, d = Activate(e, s)
  PROVE  /\ Consistent(d, p)
         /\ Holder(d) = None => ~HasTransaction(e, s) /\ d.parked[s] = None
         /\ Holder(d) \in {None, s}
         /\ \A m : HeldBy(d, p, m) => HeldBy(e, p, m)
<1>1. PICK out : out = Park(e)
  BY Zenon
<1>2. /\ out.committed \in SnapshotType
      /\ out.committed.manifest = p /\ out.committed.txn_base = None
      /\ \A x \in Sessions : out.parked[x] = IF Holder(e) = x THEN [txn |-> e.txn, work |-> Capture(e)]
                                                              ELSE e.parked[x]
  BY <1>1, ParkFacts, Zenon
<1>3. e \in EngineType /\ Capture(e).manifest = e.manifest /\ Capture(e).txn_base = e.txn_base
  BY CaptureFacts, Zenon DEF Consistent
<1>4. ASSUME NEW x \in Sessions, out.parked[x] # None
      PROVE  /\ OpenWork(out.parked[x].txn, out.parked[x].work)
             /\ out.parked[x].txn.session = x
             /\ \A m \in OfTransaction(out.parked[x].txn) \cup {out.parked[x].work.manifest} :
                  HeldBy(e, p, m)
  <2>1. CASE Holder(e) = x
    <3>1. e.txn # None /\ e.txn.session = x
      BY <2>1, NoneAssumption, Zenon DEF Holder
    <3>2. out.parked[x].txn = e.txn /\ out.parked[x].work = Capture(e)
      BY <1>2, <2>1
    <3>3. OpenWork(e.txn, Capture(e))
      BY <1>3, <3>1, Zenon DEF Consistent, OpenWork
    <3> QED BY <1>3, <3>1, <3>2, <3>3, Zenon DEF HeldBy
  <2>2. CASE Holder(e) # x
    <3>1. out.parked[x] = e.parked[x]
      BY <1>2, <2>2, Zenon
    <3> QED BY <1>4, <3>1, Zenon DEF Consistent, HeldBy
  <2> QED BY <2>1, <2>2, Zenon
<1>5. CASE d = e /\ Holder(e) = IF HasTransaction(e, s) THEN s ELSE None
  BY <1>5, NoneAssumption, Zenon DEF HasTransaction
<1>6. CASE ~HasTransaction(e, s) /\ Back(e, p, d)
  <2>1. /\ d \in EngineType /\ d.txn = None /\ d.manifest = p /\ d.txn_base = None
        /\ d.parked = out.parked
    BY <1>1, <1>6, Zenon DEF Back
  <2>2. Consistent(d, p)
    BY <1>4, <2>1, Zenon DEF Consistent
  <2>3. Holder(d) = None /\ d.parked[s] = None
    BY <1>2, <1>6, <2>1, Zenon DEF Holder, HasTransaction
  <2>4. ASSUME NEW m, HeldBy(d, p, m) PROVE HeldBy(e, p, m)
    <3>1. CASE m = p
      BY <3>1, Zenon DEF HeldBy
    <3>2. CASE m # p
      <4>1. PICK x \in Sessions : /\ out.parked[x] # None
                                  /\ m \in OfTransaction(out.parked[x].txn) \cup {out.parked[x].work.manifest}
        BY <2>1, <2>4, <3>2, Zenon DEF HeldBy
      <4> QED BY <1>4, <4>1, Zenon
    <3> QED BY <3>1, <3>2, Zenon
  <2> QED BY <1>6, <2>2, <2>3, <2>4, Zenon
<1>7. CASE Switch(e, p, s, d)
  <2>1. /\ d \in EngineType /\ Holder(e) # s /\ e.parked[s] # None
        /\ d.txn = e.parked[s].txn /\ d.committed = out.committed
        /\ d.manifest = e.parked[s].work.manifest /\ d.txn_base = e.parked[s].work.txn_base
        /\ \A x \in Sessions : d.parked[x] = IF x = s THEN None ELSE out.parked[x]
    BY <1>1, <1>7, Zenon DEF Switch
  <2>2. e.parked[s].txn \in TransactionType /\ e.parked[s].work \in SnapshotType
    BY <1>3, <2>1, ParkedFields, Zenon
  <2>3. d.txn # None /\ d.txn.session = s /\ OpenWork(d.txn, d)
    <3>1. d.txn # None
      BY <2>1, <2>2, TransactionFields, Zenon
    <3>2. OpenWork(e.parked[s].txn, e.parked[s].work) /\ e.parked[s].txn.session = s
      BY <2>1, Zenon DEF Consistent
    <3> QED BY <2>1, <3>1, <3>2, Zenon DEF OpenWork
  <2>4. Holder(d) = s
    BY <2>3, Zenon DEF Holder
  <2>5. \A x \in Sessions : d.parked[x] # None => /\ OpenWork(d.parked[x].txn, d.parked[x].work)
                                                  /\ d.parked[x].txn.session = x
    BY <1>4, <2>1
  <2>6. d.committed # None /\ d.committed.manifest = p /\ d.committed.txn_base = None
    BY <1>2, <2>1, NoneAssumption, Zenon
  <2>7. d.parked[d.txn.session] = None
    BY <2>1, <2>3, Zenon
  <2>8. Consistent(d, p)
    BY <2>1, <2>3, <2>5, <2>6, <2>7, ZenonT(40) DEF Consistent
  <2>9. ASSUME NEW m, HeldBy(d, p, m) PROVE HeldBy(e, p, m)
    <3>1. CASE m = p
      BY <3>1, Zenon DEF HeldBy
    <3>2. CASE m \in OfTransaction(e.parked[s].txn) \cup {e.parked[s].work.manifest}
      BY <2>1, <3>2, Zenon DEF HeldBy
    <3>3. CASE \E x \in Sessions : /\ out.parked[x] # None
                                   /\ m \in OfTransaction(out.parked[x].txn) \cup {out.parked[x].work.manifest}
      BY <1>4, <3>3, Zenon
    <3> QED BY <2>1, <2>6, <2>9, <3>1, <3>2, <3>3, SMTT(30) DEF HeldBy
  <2> QED BY <2>4, <2>8, <2>9, NoneAssumption, Zenon
<1> QED BY <1>5, <1>6, <1>7, ActivateIs, Zenon

-----------------------------------------------------------------------------
(***************************************************************************)
(* write_files: a part number that is free on disk exists and is taken.    *)
(***************************************************************************)
LEMMA LeastNatural ==
  ASSUME NEW T, T \subseteq Nat, T # {}
  PROVE  \E n \in T : \A m \in T : ~(m < n)
<1>1. IsWellFoundedOn(OpToRel(<, Nat), Nat)
  BY NatLessThanWellFounded, Zenon
<1>2. PICK n \in T : \A m \in T : ~(<<m, n>> \in OpToRel(<, Nat))
  BY <1>1, WFMin, Zenon
<1> QED BY <1>2, Zenon DEF OpToRel

\* A finite set leaves a number free among one more than it has elements.
LEMMA FreeNumber ==
  ASSUME NEW taken, IsFiniteSet(taken)
  PROVE  \E k \in 0 .. Cardinality(taken) : k \notin taken /\ \A j \in 0 .. (k - 1) : j \in taken
<1>1. PICK c : c = Cardinality(taken) /\ c \in Nat
  BY FS_CardinalityType, Zenon
<1>2. PICK T : T = {k \in 0 .. c : k \notin taken}
  BY Zenon
<1>3. T # {}
  <2> SUFFICES ASSUME T = {} PROVE FALSE
    BY Zenon
  <2>1. 0 .. c \subseteq taken
    BY <1>2, Zenon
  <2>2. Cardinality(0 .. c) <= c
    BY <1>1, <2>1, FS_Subset, Zenon
  <2>3. Cardinality(0 .. c) = c - 0 + 1
    BY <1>1, FS_Interval
  <2> QED BY <1>1, <2>2, <2>3
<1>4. PICK k \in T : \A m \in T : ~(m < k)
  BY <1>2, <1>3, LeastNatural
<1>5. k \in 0 .. c /\ k \notin taken
  BY <1>2, <1>4, Zenon
<1>6. \A j \in 0 .. (k - 1) : j \in taken
  BY <1>1, <1>2, <1>4, <1>5
<1> QED BY <1>1, <1>5, <1>6, Zenon

LEMMA NewFileFacts ==
  ASSUME IsFiniteSet(files), NEW id \in Nat, NEW version \in Nat, NEW f, f = NewFile(id, version)
  PROVE  f \in DataFile /\ f \notin files
<1>1. PICK taken : taken = {g.path.k : g \in {h \in files : h.path.id = id /\ h.path.version = version}}
  BY Zenon
<1>2. IsFiniteSet(taken)
  <2>1. PICK S : S = {h \in files : h.path.id = id /\ h.path.version = version}
    BY Zenon
  <2>2. IsFiniteSet(S)
    BY <2>1, FS_Subset, Zenon
  <2>3. [h \in S |-> h.path.k] \in Surjection(S, taken)
    BY <1>1, <2>1, Zenon DEF Surjection
  <2> QED BY <2>2, <2>3, FS_Surjection, Zenon
<1>3. PICK k : k = CHOOSE i \in 0 .. Cardinality(taken) :
                     i \notin taken /\ \A j \in 0 .. (i - 1) : j \in taken
  BY Zenon
<1>4. k \in 0 .. Cardinality(taken) /\ k \notin taken
  BY <1>2, <1>3, FreeNumber, Zenon
<1>5. k \in Nat
  BY <1>2, <1>4, FS_CardinalityType
<1>6. f = [path |-> [id |-> id, version |-> version, k |-> k], rows |-> 1]
  BY <1>1, <1>3, Zenon DEF NewFile
<1>7. f \in DataFile
  BY <1>5, <1>6 DEF DataFile, FilePath
<1>8. f \in files => f.path.k \in taken
  BY <1>1, <1>6, ZenonT(40)
<1> QED BY <1>4, <1>6, <1>7, <1>8

-----------------------------------------------------------------------------
(***************************************************************************)
(* The inductive invariant.  A file belongs to one name, in all manifests  *)
(* together: that is what survives the merge of two transactions, which    *)
(* takes each entry from one of the two.                                   *)
(***************************************************************************)
OneName ==
  \A m, r \in Manifests : \A a, b \in Names :
    a # b => TableFiles(m, a) \cap TableFiles(r, b) = {}

FilesInv ==
  /\ files \subseteq DataFile /\ IsFiniteSet(files)
  /\ \A m \in Manifests : m \in ManifestType /\ IdsBelow(m) /\ FilesOf(m) \subseteq files
  /\ OneName

IInv ==
  /\ Consistent(engine, published)
  /\ published \in ManifestType /\ epoch \in 0 .. MaxEpoch
  /\ FilesInv

\* Where the files of a manifest come from: the same table of a manifest that
\* was held, or new ones for table n.
Sourced(m, n, F) ==
  /\ m \in ManifestType /\ IdsBelow(m)
  /\ \A a \in Names : \A f \in TableFiles(m, a) :
       (\E r \in Manifests : f \in TableFiles(r, a)) \/ (a = n /\ f \in F)

LEMMA ManifestsHeldNext ==
  ASSUME NEW m
  PROVE  m \in Manifests' <=> HeldBy(engine', published', m)
BY DEF Manifests, HeldBy, OfTransaction, CommittedManifest

LEMMA SourcedOld ==
  ASSUME FilesInv, NEW m \in Manifests, NEW n, NEW F
  PROVE  Sourced(m, n, F)
BY Zenon DEF FilesInv, Sourced

LEMMA SourcedGrown ==
  ASSUME FilesInv, NEW r \in Manifests, NEW m, NEW n, NEW F, Grown(m, r, n, F)
  PROVE  Sourced(m, n, F)
<1> SUFFICES ASSUME NEW a \in Names, NEW f \in TableFiles(m, a), ~(a = n /\ f \in F)
             PROVE  f \in TableFiles(r, a)
  BY Zenon DEF FilesInv, Sourced, Grown
<1>1. TableFiles(m, a) \subseteq TableFiles(r, a) \cup (IF a = n THEN F ELSE {})
  BY Zenon DEF Grown
<1> QED BY <1>1, Zenon

LEMMA FilesStep ==
  ASSUME FilesInv, NEW n, NEW F \in SUBSET DataFile, IsFiniteSet(F), F \cap files = {},
         files' = files \cup F, \A m \in Manifests' : Sourced(m, n, F)
  PROVE  FilesInv'
<1>1. files' \subseteq DataFile /\ IsFiniteSet(files')
  BY FS_Union, Zenon DEF FilesInv
<1>2. ASSUME NEW m \in Manifests' PROVE m \in ManifestType /\ IdsBelow(m) /\ FilesOf(m) \subseteq files'
  <2>1. Sourced(m, n, F)
    BY Zenon
  <2>2. ASSUME NEW a \in Names, NEW f \in TableFiles(m, a) PROVE f \in files'
    <3>1. CASE f \in F
      BY <3>1, Zenon
    <3>2. CASE f \notin F
      <4>1. PICK r \in Manifests : f \in TableFiles(r, a)
        BY <2>1, <2>2, <3>2, Zenon DEF Sourced
      <4>2. f \in FilesOf(r)
        BY <4>1, FilesOfTables, Zenon
      <4> QED BY <4>2, Zenon DEF FilesInv
    <3> QED BY <3>1, <3>2, Zenon
  <2> QED BY <2>1, <2>2, FilesOfTables DEF Sourced
<1>3. ASSUME NEW m \in Manifests', NEW r \in Manifests', NEW a \in Names, NEW b \in Names, a # b,
             NEW f \in TableFiles(m, a), f \in TableFiles(r, b)
      PROVE  FALSE
  <2>1. Sourced(m, n, F) /\ Sourced(r, n, F)
    BY Zenon
  <2>2. \A q \in Manifests, c \in Names : f \in TableFiles(q, c) => f \notin F
    BY FilesOfTables, Zenon DEF FilesInv
  <2>3. (\E q \in Manifests : f \in TableFiles(q, a)) \/ (a = n /\ f \in F)
    BY <2>1, Zenon DEF Sourced
  <2>4. (\E q \in Manifests : f \in TableFiles(q, b)) \/ (b = n /\ f \in F)
    BY <1>3, <2>1, Zenon DEF Sourced
  <2>5. PICK p, q \in Manifests : f \in TableFiles(p, a) /\ f \in TableFiles(q, b)
    BY <1>3, <2>2, <2>3, <2>4, Zenon
  <2>6. TableFiles(p, a) \cap TableFiles(q, b) = {}
    BY <1>3, Zenon DEF FilesInv, OneName
  <2> QED BY <2>5, <2>6, Zenon
<1>4. OneName'
  <2> SUFFICES ASSUME NEW m \in Manifests', NEW r \in Manifests', NEW a \in Names, NEW b \in Names, a # b
               PROVE  TableFiles(m, a) \cap TableFiles(r, b) = {}
    BY Zenon DEF OneName
  <2> QED BY <1>3, Zenon
<1> QED BY <1>1, <1>2, <1>4, Zenon DEF FilesInv

\* The engine a statement starts from.
LEMMA Activated ==
  ASSUME IInv, NEW s \in Sessions, NEW e, e = Activate(engine, s)
  PROVE  /\ Consistent(e, published) /\ e \in EngineType
         /\ Holder(e) \in {None, s} /\ (Holder(e) = None => e.parked[s] = None)
         /\ \A m : HeldBy(e, published, m) => m \in Manifests
<1>1. Consistent(engine, published)
  BY Zenon DEF IInv
<1>2. /\ Consistent(e, published) /\ Holder(e) \in {None, s} /\ (Holder(e) = None => e.parked[s] = None)
      /\ \A m : HeldBy(e, published, m) => HeldBy(engine, published, m)
  BY <1>1, ActivateFacts
<1>3. e \in EngineType
  BY <1>2, Zenon DEF Consistent
<1> QED BY <1>2, <1>3, ManifestsHeld, Zenon

\* A statement: it changes one table, with new files F, and leaves transaction
\* control alone.
LEMMA StatementStep ==
  ASSUME IInv, NEW s \in Sessions, NEW e, e = Activate(engine, s), NEW n \in Names,
         NEW F \in SUBSET DataFile, IsFiniteSet(F), F \cap files = {},
         NEW d \in EngineType, SameControl(d, e), Grown(d.manifest, e.manifest, n, F), Run(d, F)
  PROVE  IInv'
<1>1. /\ Consistent(e, published) /\ e \in EngineType
      /\ \A m : HeldBy(e, published, m) => m \in Manifests
  BY Activated, Zenon
<1>2. /\ engine' = d /\ files' = files \cup F /\ epoch' \in 0 .. MaxEpoch
      /\ published' = IF d.txn_base = None THEN d.manifest ELSE published
  <2>1. epoch \in 0 .. MaxEpoch /\ epoch < MaxEpoch /\ epoch' = epoch + 1
    BY Zenon DEF Run, IInv
  <2>2. epoch' \in 0 .. MaxEpoch
    BY <2>1, TransactionsAssumption
  <2> QED BY <2>2, Zenon DEF Run
<1>3. e.manifest \in Manifests
  BY <1>1, Zenon DEF HeldBy
<1>4. FilesInv
  BY Zenon DEF IInv
<1>5. Sourced(d.manifest, n, F)
  BY <1>3, <1>4, SourcedGrown, Zenon
<1>6. /\ Consistent(d, published')
      /\ \A m : HeldBy(d, published', m) => m = d.manifest \/ HeldBy(e, published, m)
  <2>1. CASE e.txn = None
    <3>1. published' = d.manifest /\ d.txn = None /\ d.txn_base = None /\ d.parked = e.parked
      BY <1>1, <1>2, <2>1, Zenon DEF SameControl, Consistent
    <3>2. Consistent(d, d.manifest)
      BY <1>1, <3>1, Zenon DEF Consistent
    <3>3. \A m : HeldBy(d, d.manifest, m) => m = d.manifest \/ HeldBy(e, published, m)
      BY <3>1, Zenon DEF HeldBy
    <3> QED BY <3>1, <3>2, <3>3, Zenon
  <2>2. CASE e.txn # None
    <3>1. /\ d.txn = e.txn /\ d.parked = e.parked /\ d.committed = e.committed
          /\ d.txn_base = e.txn_base /\ e.txn_base # None
      BY <1>1, <2>2, Zenon DEF SameControl, Consistent, OpenWork
    <3>2. published' = published
      BY <1>2, <3>1, ZenonT(40)
    <3>3. OpenWork(d.txn, d)
      BY <1>1, <2>2, <3>1, SMTT(30) DEF Consistent, OpenWork
    <3>4. Consistent(d, published)
      BY <1>1, <2>2, <3>1, <3>3 DEF Consistent
    <3>5. \A m : HeldBy(d, published, m) => m = d.manifest \/ HeldBy(e, published, m)
      BY <3>1, Zenon DEF HeldBy
    <3> QED BY <3>2, <3>4, <3>5, Zenon
  <2> QED BY <2>1, <2>2, Zenon
<1>7. \A m \in Manifests' : Sourced(m, n, F)
  BY <1>1, <1>2, <1>4, <1>5, <1>6, ManifestsHeldNext, SourcedOld, SMTT(30)
<1>8. FilesInv'
  BY <1>2, <1>4, <1>7, FilesStep, Zenon
<1>9. published' \in ManifestType
  BY <1>2, EngineFields, Zenon DEF IInv
<1> QED BY <1>2, <1>6, <1>8, <1>9, Zenon DEF IInv

\* Every statement that writes.
LEMMA StatementInv ==
  ASSUME IInv, NEW s \in Sessions, NEW e, e = Activate(engine, s), NEW n \in Names,
         \/ CreateTemporary(e, n) \/ CreateDurable(e, n) \/ Insert(e, n) \/ Truncate(e, n)
         \/ Drop(e, n) \/ CreateView(e, n) \/ RefreshView(e, n) \/ DropView(e, n)
  PROVE  IInv'
<1>1. e \in EngineType /\ e.manifest \in ManifestType
  BY Activated, EngineFields, Zenon
<1>2. epoch + 1 \in Nat /\ IsFiniteSet(files)
  BY TransactionsAssumption DEF IInv, FilesInv
<1>3. e.manifest.next_table_id \in Nat /\ e.manifest.version + 1 \in Nat
  BY <1>1 DEF ManifestType
<1>4. ASSUME NEW id \in Nat, NEW f, f = NewFile(id, e.manifest.version + 1)
      PROVE  {f} \in SUBSET DataFile /\ {f} \cap files = {} /\ IsFiniteSet({f})
  BY <1>2, <1>3, <1>4, NewFileFacts, FS_Singleton, Zenon
<1>5. {} \in SUBSET DataFile /\ {} \cap files = {} /\ IsFiniteSet({})
  BY FS_EmptySet, Zenon
\* A change of the catalog, alone or under a view.
<1>6. ASSUME NEW F \in SUBSET DataFile, F \cap files = {}, IsFiniteSet(F),
             NEW m, Grown(m, e.manifest, n, F),
             Run(CatalogChange(e, m, n), F) \/ Run(Persisted(CatalogChange(e, m, n), n), F)
      PROVE  IInv'
  <2>1. PICK d : d = CatalogChange(e, m, n)
    BY Zenon
  <2>2. d \in EngineType /\ SameControl(d, e) /\ Grown(d.manifest, e.manifest, n, F)
    <3>1. m \in ManifestType
      BY <1>6, Zenon DEF Grown
    <3> QED BY <1>1, <1>2, <1>6, <2>1, <3>1, CatalogChangeFacts, ZenonT(40)
  <2>3. CASE Run(d, F)
    BY <1>6, <2>2, <2>3, StatementStep, ZenonT(40)
  <2>4. CASE Run(Persisted(d, n), F)
    <3>1. PICK c : c = Persisted(d, n)
      BY Zenon
    <3>2. c \in EngineType /\ SameControl(c, d) /\ Grown(c.manifest, d.manifest, n, {})
      BY <1>2, <2>2, <3>1, PersistedFacts, Zenon
    <3>3. Grown(c.manifest, e.manifest, n, F)
      BY <2>2, <3>2, GrownTwice
    <3>4. SameControl(c, e)
      BY <2>2, <3>2, Zenon DEF SameControl
    <3> QED BY <1>6, <2>4, <3>1, <3>2, <3>3, <3>4, StatementStep, SMTT(30)
  <2> QED BY <1>6, <2>1, <2>3, <2>4, Zenon
\* A change of a table in memory.
<1>7. ASSUME Run(MemoryChange(e, n), {}) PROVE IInv'
  <2>1. PICK d : d = MemoryChange(e, n)
    BY Zenon
  <2>2. d \in EngineType /\ SameControl(d, e) /\ d.manifest = e.manifest
    BY <1>1, <1>2, <2>1, MemoryChangeFacts, Zenon
  <2>3. Grown(d.manifest, e.manifest, n, {})
    BY <1>1, <2>2, SameTablesGrown, Zenon
  <2> QED BY <1>5, <1>7, <2>1, <2>2, <2>3, StatementStep, ZenonT(40)
<1>8. CASE CreateTemporary(e, n)
  BY <1>7, <1>8, Zenon DEF CreateTemporary
<1>9. CASE CreateDurable(e, n) \/ CreateView(e, n)
  <2>1. PICK f : f = NewFile(e.manifest.next_table_id, e.manifest.version + 1)
    BY Zenon
  <2>2. {f} \in SUBSET DataFile /\ {f} \cap files = {} /\ IsFiniteSet({f})
    BY <1>3, <1>4, <2>1, Zenon
  <2>3. PICK m : m = NewTable(e.manifest, n, "managed", {f})
    BY Zenon
  <2>4. Grown(m, e.manifest, n, {f})
    BY <1>1, <2>2, <2>3, NewTableGrown, Zenon
  <2>5. Run(CatalogChange(e, m, n), {f}) \/ Run(Persisted(CatalogChange(e, m, n), n), {f})
    BY <1>9, <2>1, <2>3, Zenon DEF CreateDurable, CreateView
  <2> QED BY <1>6, <2>2, <2>4, <2>5, Zenon
<1>10. ASSUME HasTable(e.manifest, n), NEW F \in SUBSET DataFile, F \cap files = {}, IsFiniteSet(F),
              NEW S \in SUBSET DataFile, S \subseteq e.manifest.tables[n].files \cup F,
              \/ Run(CatalogChange(e, SetRows(e.manifest, n, S), n), F)
              \/ Run(Persisted(CatalogChange(e, SetRows(e.manifest, n, S), n), n), F)
       PROVE  IInv'
  <2>1. PICK m : m = SetRows(e.manifest, n, S)
    BY Zenon
  <2>2. Grown(m, e.manifest, n, F)
    BY <1>1, <1>10, <2>1, SetRowsGrown, ZenonT(40)
  <2> QED BY <1>6, <1>10, <2>1, <2>2, ZenonT(40)
<1>11. CASE Insert(e, n) \/ RefreshView(e, n)
  <2>1. CASE ~HasTable(e.manifest, n)
    BY <1>7, <1>11, <2>1, Zenon DEF Insert, RefreshView
  <2>2. CASE HasTable(e.manifest, n)
    <3>1. PICK f : f = NewFile(e.manifest.tables[n].id, e.manifest.version + 1)
      BY Zenon
    <3>2. e.manifest.tables[n].id \in Nat /\ e.manifest.tables[n].files \subseteq DataFile
      BY <1>1, <2>2, TableEntry, Zenon
    <3>3. {f} \in SUBSET DataFile /\ {f} \cap files = {} /\ IsFiniteSet({f})
      BY <1>4, <3>1, <3>2, Zenon
    <3>4. \/ Run(CatalogChange(e, SetRows(e.manifest, n, e.manifest.tables[n].files \cup {f}), n), {f})
          \/ Run(Persisted(CatalogChange(e, SetRows(e.manifest, n, {f}), n), n), {f})
      BY <1>11, <2>2, <3>1, Zenon DEF Insert, RefreshView, AppendRows
    <3>5. e.manifest.tables[n].files \cup {f} \in SUBSET DataFile
      BY <3>2, <3>3, ZenonT(40)
    <3> QED BY <1>10, <2>2, <3>3, <3>4, <3>5, ZenonT(40)
  <2> QED BY <2>1, <2>2, Zenon
<1>12. CASE Truncate(e, n)
  <2>1. CASE ~HasTable(e.manifest, n)
    BY <1>7, <1>12, <2>1, ZenonT(40) DEF Truncate
  <2>2. CASE HasTable(e.manifest, n)
    <3>1. Run(CatalogChange(e, SetRows(e.manifest, n, {}), n), {})
      BY <1>12, <2>2, Zenon DEF Truncate
    <3> QED BY <1>5, <1>10, <2>2, <3>1, ZenonT(40)
  <2> QED BY <2>1, <2>2, Zenon
<1>13. CASE Drop(e, n)
  <2>1. PICK d : d = Dropped(e, n)
    BY Zenon
  <2>2. d \in EngineType /\ SameControl(d, e) /\ Grown(d.manifest, e.manifest, n, {})
    BY <1>1, <2>1, DroppedFacts, Zenon
  <2>3. Run(d, {})
    BY <1>13, <2>1, Zenon DEF Drop
  <2> QED BY <1>5, <2>2, <2>3, StatementStep, Zenon
<1>14. CASE DropView(e, n)
  <2>1. PICK o : o = [e EXCEPT !.views[n] = None]
    BY Zenon
  <2>2. o \in EngineType /\ SameControl(o, e) /\ o.manifest = e.manifest
    BY <1>1, <2>1, Zenon DEF EngineType, SameControl
  <2>3. PICK m : m = RemoveView(e.manifest, n)
    BY Zenon
  <2>4. m \in ManifestType /\ Grown(m, o.manifest, n, {})
    BY <1>1, <2>2, <2>3, ViewGrown, ZenonT(40) DEF Grown
  <2>5. PICK w : w = CatalogCommit(o, m)
    BY Zenon
  <2>6. w \in EngineType /\ SameControl(w, o) /\ Grown(w.manifest, o.manifest, n, {})
    BY <2>2, <2>4, <2>5, CatalogCommitFacts, Zenon
  <2>7. PICK d : d = IF Has(e, n) THEN Dropped(w, n) ELSE w
    BY Zenon
  <2>8. d \in EngineType /\ SameControl(d, w) /\ Grown(d.manifest, w.manifest, n, {})
    <3>1. CASE Has(e, n)
      BY <2>6, <2>7, <3>1, DroppedFacts, ZenonT(40)
    <3>2. CASE ~Has(e, n)
      BY <2>6, <2>7, <3>2, SameTablesGrown, EngineFields, ZenonT(40) DEF SameControl
    <3> QED BY <3>1, <3>2, Zenon
  <2>9. SameControl(d, e)
    BY <2>2, <2>6, <2>8, Zenon DEF SameControl
  <2>10. Grown(d.manifest, e.manifest, n, {})
    BY <2>2, <2>6, <2>8, GrownTwice, SMTT(30)
  <2>11. Run(d, {})
    BY <1>14, <2>1, <2>3, <2>5, <2>7, ZenonT(40) DEF DropView
  <2> QED BY <1>5, <2>8, <2>9, <2>10, <2>11, StatementStep, SMTT(30)
<1> QED BY <1>8, <1>9, <1>11, <1>12, <1>13, <1>14, SMTT(30)

-----------------------------------------------------------------------------
(***************************************************************************)
(* Transaction control.                                                    *)
(***************************************************************************)
\* A step that writes no file.
LEMMA ControlStep ==
  ASSUME IInv, UNCHANGED <<files, epoch>>, Consistent(engine', published'), published' \in ManifestType,
         \A m : HeldBy(engine', published', m) => Sourced(m, None, {})
  PROVE  IInv'
<1>1. FilesInv /\ files' = files \cup {} /\ {} \in SUBSET DataFile /\ IsFiniteSet({})
  BY FS_EmptySet, Zenon DEF IInv
<1>2. \A m \in Manifests' : Sourced(m, None, {})
  BY ManifestsHeldNext, Zenon
<1>3. FilesInv'
  BY <1>1, <1>2, FilesStep, Zenon
<1> QED BY <1>3, Zenon DEF IInv

\* One that also makes no manifest.
LEMMA QuietStep ==
  ASSUME IInv, UNCHANGED <<published, files, epoch>>, Consistent(engine', published),
         \A m : HeldBy(engine', published, m) => m \in Manifests
  PROVE  IInv'
<1>1. FilesInv /\ published \in ManifestType
  BY Zenon DEF IInv
<1>2. \A m : HeldBy(engine', published', m) => Sourced(m, None, {})
  BY <1>1, SourcedOld, Zenon
<1> QED BY <1>1, <1>2, ControlStep, Zenon

\* The installed transaction changes its flag or its savepoints.
LEMMA TransactionStep ==
  ASSUME NEW e, NEW p, Consistent(e, p), e.txn # None, NEW t \in TransactionType,
         t.session = e.txn.session, t.base = e.txn.base,
         \A i \in DOMAIN t.savepoints :
           \/ t.savepoints[i].state = Capture(e)
           \/ \E j \in DOMAIN e.txn.savepoints : t.savepoints[i] = e.txn.savepoints[j],
         NEW d, d = [e EXCEPT !.txn = t]
  PROVE  /\ Consistent(d, p) /\ d \in EngineType /\ d.txn = t /\ d.manifest = e.manifest
         /\ d.txn_base = e.txn_base /\ d.parked = e.parked /\ d.committed = e.committed
         /\ \A m : HeldBy(d, p, m) => HeldBy(e, p, m)
<1>1. e \in EngineType
  BY Zenon DEF Consistent
<1>2. /\ d \in EngineType /\ d.txn = t /\ d.manifest = e.manifest
      /\ d.txn_base = e.txn_base /\ d.parked = e.parked /\ d.committed = e.committed
  BY <1>1, Zenon DEF EngineType
<1>3. t # None
  BY TransactionFields, Zenon
<1>4. Capture(e).manifest = e.manifest /\ Capture(e).txn_base = e.txn_base
  BY <1>1, CaptureFacts, ZenonT(40)
<1>5. OpenWork(d.txn, d)
  BY <1>2, <1>4 DEF Consistent, OpenWork
<1>6. Consistent(d, p)
  BY <1>2, <1>3, <1>5, Zenon DEF Consistent
<1>7. \A m \in OfTransaction(t) : m = e.manifest \/ m \in OfTransaction(e.txn)
  BY <1>4 DEF OfTransaction
<1>8. \A m : HeldBy(d, p, m) => HeldBy(e, p, m)
  BY <1>2, <1>3, <1>7, Zenon DEF HeldBy
<1> QED BY <1>2, <1>6, <1>8, Zenon

\* The installed transaction ends, and the engine goes to snap.
LEMMA EndStep ==
  ASSUME NEW e, NEW p, Consistent(e, p), e.txn # None, NEW snap \in SnapshotType,
         snap.txn_base = None, NEW o \in EngineType, o.txn = None, o.parked = e.parked,
         NEW d, d = Install(o, snap)
  PROVE  /\ Consistent(d, snap.manifest)
         /\ d.manifest = snap.manifest
         /\ \A m : HeldBy(d, snap.manifest, m) => m = snap.manifest \/ HeldBy(e, p, m)
<1>1. /\ d \in EngineType /\ d.txn = None /\ d.parked = e.parked
      /\ d.manifest = snap.manifest /\ d.txn_base = None
  BY InstallFacts, Zenon
<1>2. Consistent(d, snap.manifest)
  BY <1>1, Zenon DEF Consistent
<1>3. \A m : HeldBy(d, snap.manifest, m) => m = snap.manifest \/ HeldBy(e, p, m)
  BY <1>1, Zenon DEF HeldBy
<1> QED BY <1>1, <1>2, <1>3, Zenon

\* What commit_concurrent publishes takes each table from the transaction or
\* from the committed state.
LEMMA MergeManifestsFacts ==
  ASSUME NEW b \in ManifestType, NEW w \in ManifestType, NEW c \in ManifestType,
         NEW m, m = MergeManifests(b, w, c)
  PROVE  /\ m \in ManifestType
         /\ \A a \in Names : TableFiles(m, a) \subseteq TableFiles(w, a) \cup TableFiles(c, a)
         /\ IdsBelow(w) /\ IdsBelow(c) => IdsBelow(m)
<1>1. PICK T : T = MergeEntries(b.tables, w.tables, c.tables)
  BY Zenon
<1>2. PICK V : V = MergeEntries(b.views, w.views, c.views)
  BY Zenon
<1>3. PICK i : i = IF w.next_table_id > c.next_table_id THEN w.next_table_id ELSE c.next_table_id
  BY Zenon
<1>4. /\ T \in [Names -> TableMeta \cup {None}] /\ V \in [Names -> ViewMeta \cup {None}] /\ i \in Nat
      /\ \A a \in Names : T[a] = w.tables[a] \/ T[a] = c.tables[a]
  BY <1>1, <1>2, <1>3, Zenon DEF MergeEntries, ManifestType
<1>5. m = [c EXCEPT !.tables = T, !.views = V, !.next_table_id = i]
  BY <1>1, <1>2, <1>3, Zenon DEF MergeManifests, ManifestType
<1>6. m \in ManifestType /\ m.tables = T /\ m.next_table_id = i
  BY <1>4, <1>5, Zenon DEF ManifestType
<1>7. \A a \in Names : TableFiles(m, a) \subseteq TableFiles(w, a) \cup TableFiles(c, a)
  BY <1>4, <1>6, Zenon DEF TableFiles, HasTable
<1>8. ASSUME IdsBelow(w), IdsBelow(c), NEW a \in Names, HasTable(m, a)
      PROVE  m.tables[a].id < m.next_table_id
  <2>1. /\ w.next_table_id \in Nat /\ c.next_table_id \in Nat
        /\ i >= w.next_table_id /\ i >= c.next_table_id
    BY <1>3 DEF ManifestType
  <2>2. m.tables[a].id \in Nat
    BY <1>6, <1>8, TableEntry, Zenon
  <2>3. \/ m.tables[a] = w.tables[a] /\ w.tables[a].id < w.next_table_id
        \/ m.tables[a] = c.tables[a] /\ c.tables[a].id < c.next_table_id
    BY <1>4, <1>6, <1>8, Zenon DEF IdsBelow, HasTable
  <2> QED BY <1>4, <1>6, <2>1, <2>2, <2>3
<1>9. IdsBelow(w) /\ IdsBelow(c) => IdsBelow(m)
  BY <1>8, Zenon DEF IdsBelow
<1> QED BY <1>6, <1>7, <1>9, Zenon

LEMMA MergeFacts ==
  ASSUME NEW b \in SnapshotType, NEW w \in SnapshotType, NEW c \in SnapshotType,
         NEW snap, snap = Merge(b, w, c)
  PROVE  /\ snap \in SnapshotType /\ snap.txn_base = None
         /\ \A a \in Names : TableFiles(snap.manifest, a)
                               \subseteq TableFiles(w.manifest, a) \cup TableFiles(c.manifest, a)
         /\ IdsBelow(w.manifest) /\ IdsBelow(c.manifest) => IdsBelow(snap.manifest)
<1>1. /\ b.tables \in [Names -> Nat \cup {None}] /\ b.versions \in [Names -> Nat]
      /\ b.views \in [Names -> Nat \cup {None}] /\ b.manifest \in ManifestType
      /\ w.tables \in [Names -> Nat \cup {None}] /\ w.versions \in [Names -> Nat]
      /\ w.views \in [Names -> Nat \cup {None}] /\ w.manifest \in ManifestType
      /\ c.tables \in [Names -> Nat \cup {None}] /\ c.versions \in [Names -> Nat]
      /\ c.views \in [Names -> Nat \cup {None}] /\ c.manifest \in ManifestType
  BY Zenon DEF SnapshotType
<1>2. PICK T : T = [n \in Names |-> IF DataVersion(b)[n] # DataVersion(w)[n] THEN w.tables[n] ELSE c.tables[n]]
  BY Zenon
<1>3. PICK R : R = [n \in Names |-> MergedVersion(b, w, c, n)]
  BY Zenon
<1>4. PICK V : V = MergeEntries(b.views, w.views, c.views)
  BY Zenon
<1>5. PICK x : x = MergeManifests(b.manifest, w.manifest, c.manifest)
  BY Zenon
<1>6. PICK m : m = IF x = c.manifest THEN x ELSE [x EXCEPT !.version = @ + 1]
  BY Zenon
<1>7. snap = [tables |-> T, versions |-> R, views |-> V, manifest |-> m, txn_base |-> None]
  BY <1>2, <1>3, <1>4, <1>5, <1>6, ZenonT(40) DEF Merge
<1>8. T \in [Names -> Nat \cup {None}]
  BY <1>1, <1>2, Zenon
<1>9. R \in [Names -> Nat]
  <2>1. ASSUME NEW n \in Names PROVE MergedVersion(b, w, c, n) \in Nat
    BY <1>1, Zenon DEF MergedVersion
  <2> QED BY <1>3, <2>1, Zenon
<1>10. V \in [Names -> Nat \cup {None}]
  BY <1>1, <1>4, Zenon DEF MergeEntries
<1>11. /\ x \in ManifestType
       /\ \A a \in Names : TableFiles(x, a) \subseteq TableFiles(w.manifest, a) \cup TableFiles(c.manifest, a)
       /\ IdsBelow(w.manifest) /\ IdsBelow(c.manifest) => IdsBelow(x)
  BY <1>1, <1>5, MergeManifestsFacts
<1>12. m \in ManifestType /\ m.tables = x.tables /\ m.next_table_id = x.next_table_id
  <2>1. x.version + 1 \in Nat
    BY <1>11 DEF ManifestType
  <2> QED BY <1>6, <1>11, <2>1, ZenonT(40) DEF ManifestType
<1>13. (\A a \in Names : TableFiles(m, a) = TableFiles(x, a)) /\ (IdsBelow(x) => IdsBelow(m))
  BY <1>12, Zenon DEF TableFiles, HasTable, IdsBelow
<1>14. snap \in SnapshotType /\ snap.txn_base = None /\ snap.manifest = m
  BY <1>7, <1>8, <1>9, <1>10, <1>12, SMTT(30) DEF SnapshotType
<1> QED BY <1>11, <1>13, <1>14, Zenon

\* BEGIN: the committed state is kept, the catalog's transaction starts there.
LEMMA BeginInv ==
  ASSUME IInv, NEW s \in Sessions, NEW e, e = Activate(engine, s), Begin(s, e)
  PROVE  IInv'
<1>1. /\ Consistent(e, published) /\ e \in EngineType /\ e.txn = None /\ e.parked[s] = None
      /\ \A m : HeldBy(e, published, m) => m \in Manifests
  BY Activated, Zenon DEF Begin, Holder
<1>2. e.manifest \in ManifestType /\ e.manifest # None /\ e.manifest = published /\ e.txn_base = None
  BY <1>1, EngineFields, NoneAssumption, Zenon DEF Consistent
<1>3. PICK o : o = [e EXCEPT !.txn_base = e.manifest]
  BY Zenon
<1>4. o \in EngineType /\ o.txn_base = e.manifest /\ o.manifest = e.manifest /\ o.parked = e.parked
  BY <1>1, <1>2, <1>3, ZenonT(40) DEF EngineType
<1>5. PICK t : t = [session |-> s, aborted |-> FALSE, base |-> Capture(o), savepoints |-> <<>>]
  BY Zenon
<1>6. Capture(o) \in SnapshotType /\ Capture(o).manifest = e.manifest
  BY <1>4, CaptureFacts, Zenon
<1>7. t \in TransactionType
  <2>1. <<>> \in Seq(SavepointType)
    OBVIOUS
  <2> QED BY <1>5, <1>6, <2>1, Zenon DEF TransactionType
<1>8. t.base.manifest = e.manifest /\ t.session = s /\ t.savepoints = <<>> /\ t # None
  BY <1>5, <1>6, <1>7, TransactionFields, ZenonT(40)
<1>9. PICK c : c = Capture(e)
  BY Zenon
<1>10. c \in SnapshotType /\ c # None /\ c.manifest = e.manifest /\ c.txn_base = None
  BY <1>1, <1>2, <1>9, CaptureFacts, NoneAssumption, ZenonT(40)
<1>11. engine' = [o EXCEPT !.committed = c, !.txn = t] /\ UNCHANGED <<published, files, epoch>>
  BY <1>3, <1>5, <1>9, Zenon DEF Begin
<1>12. PICK d : d = engine'
  BY Zenon
<1>13. /\ d \in EngineType /\ d.txn = t /\ d.committed = c /\ d.manifest = e.manifest
       /\ d.txn_base = e.manifest /\ d.parked = e.parked
  BY <1>4, <1>7, <1>10, <1>11, <1>12, ZenonT(40) DEF EngineType
<1>14. OpenWork(t, d)
  BY <1>2, <1>8, <1>13 DEF OpenWork
<1>15. Consistent(d, published)
  BY <1>1, <1>2, <1>8, <1>10, <1>13, <1>14 DEF Consistent
<1>16. \A m \in OfTransaction(t) \cup {c.manifest} : m = e.manifest
  BY <1>8, <1>10 DEF OfTransaction
<1>17. \A m : HeldBy(d, published, m) => HeldBy(e, published, m)
  BY <1>13, <1>16, Zenon DEF HeldBy
<1> QED BY <1>1, <1>11, <1>12, <1>15, <1>17, QuietStep, SMTT(30)

\* The end of a transaction: back to the committed state, or to the merge.
LEMMA EndInv ==
  ASSUME IInv, NEW s \in Sessions, NEW e, e = Activate(engine, s), Commit(e) \/ Rollback(e)
  PROVE  IInv'
<1>1. /\ Consistent(e, published) /\ e \in EngineType /\ e.txn # None
      /\ \A m : HeldBy(e, published, m) => m \in Manifests
  BY Activated, Zenon DEF Commit, Rollback
<1>2. /\ e.committed \in SnapshotType /\ e.committed.manifest = published
      /\ e.committed.txn_base = None
  BY <1>1, EngineFields, Zenon DEF Consistent
<1>3. PICK o : o = [e EXCEPT !.txn = None, !.committed = None]
  BY Zenon
<1>4. o \in EngineType /\ o.txn = None /\ o.parked = e.parked
  BY <1>1, <1>3, Zenon DEF EngineType
<1>5. CASE engine' = RolledBack(e) /\ UNCHANGED <<published, files, epoch>>
  <2>1. /\ Consistent(engine', published)
        /\ \A m : HeldBy(engine', published, m) => m = published \/ HeldBy(e, published, m)
    <3>1. PICK snap, d : snap = e.committed /\ d = engine'
      BY Zenon
    <3>2. d = Install(o, snap)
      BY <1>5, <1>3, <3>1, ZenonT(40) DEF RolledBack
    <3>3. /\ Consistent(d, snap.manifest)
          /\ \A m : HeldBy(d, snap.manifest, m) => m = snap.manifest \/ HeldBy(e, published, m)
      BY <1>1, <1>2, <1>4, <3>1, <3>2, EndStep, SMTT(30)
    <3> QED BY <1>2, <3>1, <3>3, Zenon
  <2>2. HeldBy(e, published, published)
    BY Zenon DEF HeldBy
  <2> QED BY <1>1, <1>5, <2>1, <2>2, QuietStep, ZenonT(40)
<1>6. CASE engine' = Committed(e) /\ published' = engine'.manifest /\ UNCHANGED <<files, epoch>>
  <2>1. e.txn \in TransactionType /\ e.txn.base \in SnapshotType
    BY <1>1, EngineFields, TransactionFields, Zenon
  <2>2. Capture(e) \in SnapshotType /\ Capture(e).manifest = e.manifest
    BY <1>1, CaptureFacts, Zenon
  <2>3. PICK snap : snap = Merge(e.txn.base, Capture(e), e.committed)
    BY Zenon
  <2>4. /\ snap \in SnapshotType /\ snap.txn_base = None
        /\ \A a \in Names : TableFiles(snap.manifest, a)
                              \subseteq TableFiles(e.manifest, a) \cup TableFiles(published, a)
        /\ IdsBelow(e.manifest) /\ IdsBelow(published) => IdsBelow(snap.manifest)
    <3>1. PICK b, w, c : b = e.txn.base /\ w = Capture(e) /\ c = e.committed
      BY Zenon
    <3>2. b \in SnapshotType /\ w \in SnapshotType /\ c \in SnapshotType /\ snap = Merge(b, w, c)
      BY <1>2, <2>1, <2>2, <2>3, <3>1, ZenonT(40)
    <3>3. /\ snap \in SnapshotType /\ snap.txn_base = None
          /\ \A a \in Names : TableFiles(snap.manifest, a)
                                \subseteq TableFiles(w.manifest, a) \cup TableFiles(c.manifest, a)
          /\ IdsBelow(w.manifest) /\ IdsBelow(c.manifest) => IdsBelow(snap.manifest)
      BY <3>2, MergeFacts
    <3> QED BY <1>2, <2>2, <3>1, <3>3, ZenonT(40)
  <2>5. /\ Consistent(engine', snap.manifest) /\ engine'.manifest = snap.manifest
        /\ \A m : HeldBy(engine', snap.manifest, m) => m = snap.manifest \/ HeldBy(e, published, m)
    <3>1. PICK d : d = engine'
      BY Zenon
    <3>2. d = Install(o, snap)
      BY <1>6, <1>3, <2>3, <3>1, ZenonT(40) DEF Committed
    <3>3. Consistent(e, published) /\ e.txn # None
      BY <1>1, Zenon
    <3>4. snap \in SnapshotType /\ snap.txn_base = None
      BY <2>4, Zenon
    <3>5. /\ Consistent(d, snap.manifest) /\ d.manifest = snap.manifest
          /\ \A m : HeldBy(d, snap.manifest, m) => m = snap.manifest \/ HeldBy(e, published, m)
      BY <1>4, <3>2, <3>3, <3>4, EndStep, SMTT(30)
    <3> QED BY <3>1, <3>5, Zenon
  <2>6. snap.manifest \in ManifestType
    BY <2>4, Zenon DEF SnapshotType
  <2>7. e.manifest \in Manifests /\ published \in Manifests
    BY <1>1, Zenon DEF HeldBy
  <2>8. Sourced(snap.manifest, None, {})
    <3>1. IdsBelow(snap.manifest)
      BY <2>4, <2>7, ZenonT(40) DEF IInv, FilesInv
    <3> QED BY <2>4, <2>6, <2>7, <3>1, ZenonT(40) DEF Sourced
  <2>9. \A m \in Manifests : Sourced(m, None, {})
    BY SourcedOld, Zenon DEF IInv
  <2>10. published' = snap.manifest
    BY <1>6, <2>5, ZenonT(40)
  <2>11. \A m : HeldBy(engine', published', m) => Sourced(m, None, {})
    BY <1>1, <2>5, <2>8, <2>9, <2>10, SMTT(30)
  <2> QED BY <1>6, <2>5, <2>6, <2>10, <2>11, ControlStep, ZenonT(40)
<1> QED BY <1>5, <1>6, Zenon DEF Commit, Rollback

\* Inside a transaction: a failed statement, and the savepoints.
LEMMA InsideInv ==
  ASSUME IInv, NEW s \in Sessions, NEW e, e = Activate(engine, s), NEW name,
         \/ FailedStatement(e) \/ (name \in SavepointNames /\ Savepoint(e, name))
         \/ RollbackToSavepoint(e, name) \/ ReleaseSavepoint(e, name)
  PROVE  IInv'
<1>1. /\ Consistent(e, published) /\ e \in EngineType /\ e.txn # None
      /\ \A m : HeldBy(e, published, m) => m \in Manifests
  BY Activated, Zenon DEF FailedStatement, Savepoint, RollbackToSavepoint, ReleaseSavepoint
<1>2. PICK t : t = e.txn
  BY Zenon
<1>3. /\ t \in TransactionType /\ t.savepoints \in Seq(SavepointType)
      /\ \A i \in DOMAIN t.savepoints : t.savepoints[i].state \in SnapshotType
  BY <1>1, <1>2, EngineFields, TransactionFields, ZenonT(40)
<1>4. UNCHANGED <<published, files, epoch>>
  BY Zenon DEF FailedStatement, Savepoint, RollbackToSavepoint, ReleaseSavepoint
\* Every one of them gives the transaction a flag and a list of savepoints.
<1>5. ASSUME NEW aborted \in BOOLEAN, NEW list \in Seq(SavepointType),
             \A i \in DOMAIN list : \/ list[i].state = Capture(e)
                                    \/ \E j \in DOMAIN t.savepoints : list[i] = t.savepoints[j],
             NEW d, d = [e EXCEPT !.txn = [t EXCEPT !.aborted = aborted, !.savepoints = list]]
      PROVE  /\ Consistent(d, published) /\ d \in EngineType /\ d.txn # None
             /\ d.parked = e.parked /\ d.committed = e.committed
             /\ d.txn.savepoints = list /\ d.txn.session = t.session
             /\ \A m : HeldBy(d, published, m) => m \in Manifests
  <2>1. PICK u : u = [t EXCEPT !.aborted = aborted, !.savepoints = list]
    BY Zenon
  <2>2. /\ u \in TransactionType /\ u.session = t.session /\ u.base = t.base /\ u.savepoints = list
    BY <1>3, <2>1, Zenon DEF TransactionType
  <2>3. \A i \in DOMAIN u.savepoints :
          \/ u.savepoints[i].state = Capture(e)
          \/ \E j \in DOMAIN e.txn.savepoints : u.savepoints[i] = e.txn.savepoints[j]
    BY <1>2, <1>5, <2>2, Zenon
  <2>4. d = [e EXCEPT !.txn = u]
    BY <1>5, <2>1, Zenon
  <2>5. /\ Consistent(d, published) /\ d \in EngineType /\ d.txn = u
        /\ d.parked = e.parked /\ d.committed = e.committed
        /\ \A m : HeldBy(d, published, m) => HeldBy(e, published, m)
    BY <1>1, <1>2, <2>2, <2>3, <2>4, TransactionStep, SMTT(30)
  <2>6. u # None
    BY <2>2, TransactionFields, Zenon
  <2> QED BY <1>1, <2>2, <2>5, <2>6, ZenonT(40)
<1>6. CASE FailedStatement(e)
  <2>1. engine' = [e EXCEPT !.txn = [t EXCEPT !.aborted = TRUE]]
    BY <1>2, <1>6, Zenon DEF FailedStatement
  <2>2. [t EXCEPT !.aborted = TRUE] = [t EXCEPT !.aborted = TRUE, !.savepoints = t.savepoints]
    BY <1>3, Zenon DEF TransactionType
  <2>3. PICK d : d = engine'
    BY Zenon
  <2>4. d = [e EXCEPT !.txn = [t EXCEPT !.aborted = TRUE, !.savepoints = t.savepoints]]
    BY <2>1, <2>2, <2>3, ZenonT(40)
  <2>5. Consistent(d, published) /\ \A m : HeldBy(d, published, m) => m \in Manifests
    BY <1>3, <1>5, <2>4, ZenonT(40)
  <2> QED BY <1>4, <2>3, <2>5, QuietStep, ZenonT(40)
<1>7. CASE name \in SavepointNames /\ Savepoint(e, name)
  <2>1. PICK list : list = Append(t.savepoints, [name |-> name, state |-> Capture(e)])
    BY Zenon
  <2>2. engine' = [e EXCEPT !.txn = [t EXCEPT !.savepoints = list]]
    BY <1>2, <1>7, <2>1, Zenon DEF Savepoint
  <2>3. PICK p : p = [name |-> name, state |-> Capture(e)]
    BY Zenon
  <2>4. p \in SavepointType /\ p.state = Capture(e)
    BY <1>1, <1>7, <2>3, CaptureFacts, ZenonT(40) DEF SavepointType
  <2>5. list = Append(t.savepoints, p) /\ list \in Seq(SavepointType)
    BY <1>3, <2>1, <2>3, <2>4, SMTT(30)
  <2>6. \A i \in DOMAIN list : \/ list[i].state = Capture(e)
                               \/ \E j \in DOMAIN t.savepoints : list[i] = t.savepoints[j]
    BY <1>3, <2>4, <2>5, SMTT(30)
  <2>7. t.aborted \in BOOLEAN /\ [t EXCEPT !.savepoints = list]
                                   = [t EXCEPT !.aborted = t.aborted, !.savepoints = list]
    BY <1>3, Zenon DEF TransactionType
  <2>8. PICK d : d = engine'
    BY Zenon
  <2>9. d = [e EXCEPT !.txn = [t EXCEPT !.aborted = t.aborted, !.savepoints = list]]
    BY <2>2, <2>7, <2>8, ZenonT(40)
  <2>10. Consistent(d, published) /\ \A m : HeldBy(d, published, m) => m \in Manifests
    BY <1>5, <2>5, <2>6, <2>7, <2>9, ZenonT(40)
  <2> QED BY <1>4, <2>8, <2>10, QuietStep, Zenon
<1>8. ASSUME NEW i \in Nat, i <= Len(t.savepoints), NEW list, list = SubSeq(t.savepoints, 1, i)
      PROVE  /\ list \in Seq(SavepointType) /\ Len(list) = i
             /\ \A j \in 1 .. i : list[j] = t.savepoints[j]
             /\ \A j \in DOMAIN list : \E l \in DOMAIN t.savepoints : list[j] = t.savepoints[l]
  <2>1. Len(t.savepoints) \in Nat
    BY <1>3
  <2>2. list \in Seq(SavepointType) /\ Len(list) = i /\ \A j \in 1 .. i : list[j] = t.savepoints[j]
    BY <1>3, <1>8, <2>1
  <2> QED BY <1>3, <1>8, <2>1, <2>2, SMTT(30)
<1>9. CASE ReleaseSavepoint(e, name)
  <2>1. PICK i \in DOMAIN t.savepoints :
          engine' = [e EXCEPT !.txn = [t EXCEPT !.savepoints = SubSeq(t.savepoints, 1, i - 1)]]
    BY <1>2, <1>9, Zenon DEF ReleaseSavepoint
  <2>2. PICK k, list : k = i - 1 /\ list = SubSeq(t.savepoints, 1, k)
    BY Zenon
  <2>3. k \in Nat /\ k <= Len(t.savepoints) /\ list = SubSeq(t.savepoints, 1, k)
    BY <1>3, <2>1, <2>2, SMTT(30)
  <2>4. list \in Seq(SavepointType) /\ \A j \in DOMAIN list : \E l \in DOMAIN t.savepoints : list[j] = t.savepoints[l]
    BY <1>8, <2>3
  <2>5. t.aborted \in BOOLEAN /\ [t EXCEPT !.savepoints = list]
                                   = [t EXCEPT !.aborted = t.aborted, !.savepoints = list]
    BY <1>3, Zenon DEF TransactionType
  <2>6. PICK d : d = engine'
    BY Zenon
  <2>7. d = [e EXCEPT !.txn = [t EXCEPT !.aborted = t.aborted, !.savepoints = list]]
    BY <2>1, <2>2, <2>5, <2>6, ZenonT(40)
  <2>8. Consistent(d, published) /\ \A m : HeldBy(d, published, m) => m \in Manifests
    BY <1>5, <2>4, <2>5, <2>7, ZenonT(40)
  <2> QED BY <1>4, <2>6, <2>8, QuietStep, ZenonT(40)
<1>10. CASE RollbackToSavepoint(e, name)
  <2>1. PICK i \in DOMAIN t.savepoints :
          engine' = Install([e EXCEPT !.txn.savepoints = SubSeq(@, 1, i), !.txn.aborted = FALSE],
                            t.savepoints[i].state)
    BY <1>2, <1>10, Zenon DEF RollbackToSavepoint
  <2>2. PICK list, o, state : /\ list = SubSeq(t.savepoints, 1, i)
                              /\ o = [e EXCEPT !.txn.savepoints = list, !.txn.aborted = FALSE]
                              /\ state = t.savepoints[i].state
    BY Zenon
  <2>3. i \in Nat /\ i <= Len(t.savepoints)
    BY <1>3, <2>1
  <2>4. list \in Seq(SavepointType) /\ \A j \in DOMAIN list : \E l \in DOMAIN t.savepoints : list[j] = t.savepoints[l]
    BY <1>8, <2>2, <2>3, SMTT(30)
  <2>5. o = [e EXCEPT !.txn = [t EXCEPT !.aborted = FALSE, !.savepoints = list]]
    BY <1>1, <1>2, <1>3, <2>2, ZenonT(40) DEF EngineType, TransactionType
  <2>6. /\ Consistent(o, published) /\ o \in EngineType /\ o.txn # None
        /\ o.txn.session = t.session /\ o.txn.savepoints = list
        /\ \A m : HeldBy(o, published, m) => m \in Manifests
    BY <1>5, <2>4, <2>5, ZenonT(40)
  <2>7. state \in SnapshotType /\ state.txn_base # None /\ state.manifest \in OfTransaction(e.txn)
    BY <1>1, <1>2, <1>3, <2>1, <2>2, ZenonT(40) DEF Consistent, OpenWork, OfTransaction
  <2>8. PICK d : d = Install(o, state)
    BY Zenon
  <2>9. /\ d \in EngineType /\ d.txn = o.txn /\ d.parked = o.parked /\ d.committed = o.committed
        /\ d.manifest = state.manifest /\ d.txn_base = state.txn_base
    BY <2>6, <2>7, <2>8, InstallFacts, ZenonT(40)
  <2>10. OpenWork(d.txn, d)
    BY <2>6, <2>7, <2>9, ZenonT(40) DEF Consistent, OpenWork
  <2>11. Consistent(d, published)
    BY <2>6, <2>9, <2>10, ZenonT(40) DEF Consistent
  <2>12. state.manifest \in Manifests
    BY <1>1, <2>7, Zenon DEF HeldBy
  <2>13. \A m : HeldBy(d, published, m) => m = state.manifest \/ HeldBy(o, published, m)
    BY <2>9, Zenon DEF HeldBy
  <2>14. engine' = d
    BY <1>2, <2>1, <2>2, <2>8, ZenonT(40)
  <2> QED BY <1>4, <2>6, <2>11, <2>12, <2>13, <2>14, QuietStep, Zenon
<1> QED BY <1>6, <1>7, <1>9, <1>10, SMTT(30)

\* VACUUM runs only when no session has a transaction: then the published
\* manifest is the only one held.
LEMMA VacuumInv ==
  ASSUME IInv, NEW s \in Sessions, NEW e, e = Activate(engine, s), Vacuum(e)
  PROVE  IInv'
<1>1. /\ Consistent(e, published) /\ e \in EngineType
      /\ \A m : HeldBy(e, published, m) => m \in Manifests
  BY Activated, Zenon
<1>2. \A x \in Sessions : Holder(e) # x /\ e.parked[x] = None
  BY Zenon DEF Vacuum, OpenTransactions, HasTransaction
<1>3. e.txn = None
  BY <1>1, <1>2, EngineFields, TransactionFields, ZenonT(40) DEF Holder
<1>4. e.manifest = published
  BY <1>1, <1>3, Zenon DEF Consistent
<1>5. engine' = e /\ published' = published /\ epoch' = epoch /\ files' = files \cap FilesOf(published)
  BY <1>4, Zenon DEF Vacuum
<1>6. \A m : HeldBy(e, published, m) => m = published
  BY <1>2, <1>3, <1>4, ZenonT(40) DEF HeldBy
<1>7. \A m \in Manifests' : m = published
  BY <1>5, <1>6, ManifestsHeldNext, Zenon
<1>8. published \in Manifests
  BY <1>1, Zenon DEF HeldBy
<1>9. FilesInv'
  <2>1. files' \subseteq DataFile /\ IsFiniteSet(files')
    BY <1>5, FS_Intersection, Zenon DEF IInv, FilesInv
  <2>2. FilesOf(published) \subseteq files' /\ published \in ManifestType /\ IdsBelow(published)
    BY <1>5, <1>8, Zenon DEF IInv, FilesInv
  <2>3. \A a, b \in Names : a # b => TableFiles(published, a) \cap TableFiles(published, b) = {}
    BY <1>8, Zenon DEF IInv, FilesInv, OneName
  <2>4. OneName'
    BY <1>7, <2>3, Zenon DEF OneName
  <2> QED BY <1>7, <2>1, <2>2, <2>4, ZenonT(40) DEF FilesInv
<1> QED BY <1>1, <1>5, <1>9, ZenonT(40) DEF IInv

\* The process opens the catalog again.
LEMMA OpenedFacts ==
  ASSUME NEW p \in ManifestType, NEW d, d = Opened(p)
  PROVE  Consistent(d, p) /\ \A m : HeldBy(d, p, m) => m = p
<1>1. PICK V : V = [n \in Names |-> IF p.views[n] # None THEN 0 ELSE None]
  BY Zenon
<1>2. V \in [Names -> Nat \cup {None}] /\ p.tables \in [Names -> TableMeta \cup {None}]
  BY <1>1, Zenon DEF ManifestType
<1>3. /\ d.txn = None /\ d.manifest = p /\ d.txn_base = None /\ d.parked = [s \in Sessions |-> None]
  BY Zenon DEF Opened
<1>4. d \in EngineType
  BY <1>1, <1>2, Zenon DEF Opened, NoNames, EngineType
<1>5. Consistent(d, p)
  BY <1>3, <1>4, Zenon DEF Consistent
<1> QED BY <1>3, <1>5, Zenon DEF HeldBy

LEMMA InitInv == Init => IInv
<1> SUFFICES ASSUME Init PROVE IInv
  BY Zenon
<1>1. /\ EmptyManifest \in ManifestType /\ IdsBelow(EmptyManifest)
      /\ \A a \in Names : TableFiles(EmptyManifest, a) = {}
  BY Zenon DEF EmptyManifest, ManifestType, TableFiles, HasTable, IdsBelow
<1>2. Consistent(engine, published) /\ published = EmptyManifest
      /\ \A m : HeldBy(engine, published, m) => m = published
  BY <1>1, OpenedFacts, Zenon DEF Init
<1>3. \A m \in Manifests : m = EmptyManifest
  BY <1>2, ManifestsHeld, Zenon
<1>4. FilesOf(EmptyManifest) = {}
  BY <1>1, FilesOfTables, Zenon
<1>5. FilesInv
  BY <1>1, <1>3, <1>4, FS_EmptySet, ZenonT(40) DEF FilesInv, OneName, Init
<1>6. epoch \in 0 .. MaxEpoch
  BY TransactionsAssumption DEF Init
<1> QED BY <1>1, <1>2, <1>5, <1>6, ZenonT(40) DEF IInv

\* Every job of the runtime, a restart and a stuttering step preserve it.
LEMMA NextInv == IInv /\ [Next]_vars => IInv'
<1> SUFFICES ASSUME IInv, [Next]_vars PROVE IInv'
  BY Zenon
<1>1. ASSUME NEW s \in Sessions, NEW e, e = Activate(engine, s),
             \/ Query(e) \/ FailedStatement(e) \/ Begin(s, e) \/ Commit(e) \/ Rollback(e) \/ Vacuum(e)
             \/ \E n \in TempNames : CreateTemporary(e, n)
             \/ \E n \in DurableNames \ ViewNames : CreateDurable(e, n)
             \/ \E n \in Names : Insert(e, n) \/ Truncate(e, n) \/ Drop(e, n)
             \/ \E n \in ViewNames : CreateView(e, n) \/ RefreshView(e, n) \/ DropView(e, n)
             \/ \E name \in SavepointNames :
                  \/ Savepoint(e, name) \/ RollbackToSavepoint(e, name) \/ ReleaseSavepoint(e, name)
      PROVE  IInv'
  <2>1. CASE Query(e)
    <3>1. Consistent(e, published) /\ \A m : HeldBy(e, published, m) => m \in Manifests
      BY <1>1, Activated, Zenon
    <3>2. engine' = e /\ UNCHANGED <<published, files, epoch>>
      BY <2>1, Zenon DEF Query
    <3> QED BY <3>1, <3>2, QuietStep, Zenon
  <2>2. CASE Begin(s, e)
    BY <1>1, <2>2, BeginInv, Zenon
  <2>3. CASE Commit(e) \/ Rollback(e)
    BY <1>1, <2>3, EndInv, Zenon
  <2>4. CASE Vacuum(e)
    BY <1>1, <2>4, VacuumInv, Zenon
  <2>5. CASE \E n \in Names : \/ CreateTemporary(e, n) \/ CreateDurable(e, n) \/ Insert(e, n)
                              \/ Truncate(e, n) \/ Drop(e, n)
                              \/ CreateView(e, n) \/ RefreshView(e, n) \/ DropView(e, n)
    BY <1>1, <2>5, StatementInv, ZenonT(40)
  <2>6. CASE FailedStatement(e) \/ \E name \in SavepointNames :
               \/ Savepoint(e, name) \/ RollbackToSavepoint(e, name) \/ ReleaseSavepoint(e, name)
    BY <1>1, <2>6, InsideInv, ZenonT(40)
  <2> QED BY <1>1, <2>1, <2>2, <2>3, <2>4, <2>5, <2>6, TransactionsAssumption, SMTT(30)
<1>2. CASE Restart
  <2>1. Consistent(engine', published) /\ \A m : HeldBy(engine', published, m) => m = published
    BY <1>2, OpenedFacts, Zenon DEF Restart, IInv
  <2>2. published \in Manifests
    BY ManifestsHeld, Zenon DEF HeldBy
  <2>3. UNCHANGED <<published, files, epoch>>
    BY <1>2, Zenon DEF Restart
  <2> QED BY <2>1, <2>2, <2>3, QuietStep, ZenonT(40)
<1>3. CASE UNCHANGED vars
  <2>1. engine' = engine /\ UNCHANGED <<published, files, epoch>>
    BY <1>3, Zenon DEF vars
  <2>2. Consistent(engine, published)
    BY Zenon DEF IInv
  <2> QED BY <2>1, <2>2, ManifestsHeld, QuietStep, ZenonT(40)
<1> QED BY <1>1, <1>2, <1>3, Zenon DEF Next

\* The invariant holds for any number of sessions, names and writes.
THEOREM Invariant == Spec => []IInv
<1>1. Init => IInv
  BY InitInv, Zenon
<1>2. IInv /\ [Next]_vars => IInv'
  BY NextInv, Zenon
<1> QED BY <1>1, <1>2, PTL DEF Spec

\* Every variable keeps its type.
THEOREM TypeCorrect == Spec => []TypeOK
<1>1. IInv => TypeOK
  BY Zenon DEF IInv, FilesInv, Consistent, TypeOK
<1> QED BY <1>1, Invariant, PTL

\* Whoever's transaction is installed, the committed state the engine keeps is
\* the published one: it is never lost or replaced by a switch of sessions, a
\* rollback, a savepoint or a merge.
THEOREM CommittedPublished == Spec => []CommittedIsPublished
<1>1. IInv => CommittedIsPublished
  BY Zenon DEF IInv, Consistent, CommittedIsPublished, CommittedManifest
<1> QED BY <1>1, Invariant, PTL

\* Everything that can still be committed or rolled back to, in any session, is
\* made of files on disk.
THEOREM FilesSafe == Spec => []FilesKept
<1>1. IInv => FilesKept
  BY ZenonT(40) DEF IInv, FilesInv, FilesKept
<1> QED BY <1>1, Invariant, PTL

\* No data file belongs to two tables, although two transactions may hand out
\* the same table id.
THEOREM FilesUnshared == Spec => []NoSharedFile
<1>1. IInv => NoSharedFile
  BY Zenon DEF IInv, FilesInv, OneName, NoSharedFile, TableFiles
<1> QED BY <1>1, Invariant, PTL

\* Every table id is below the counter of its manifest, in all that can still be
\* committed or rolled back to: CREATE TABLE never reuses the directory of a
\* table its snapshot has, also after a merge of two counters.
THEOREM IdsFresh == Spec => []FreshIds
<1>1. IInv => FreshIds
  BY Zenon DEF IInv, FilesInv, FreshIds
<1> QED BY <1>1, Invariant, PTL

\* With no transaction installed, statements run on the committed state: what
\* an error of activate_session breaks holds as long as there is none.
THEOREM OutsideCommitted == Spec => []OutsideIsCommitted
<1>1. IInv => OutsideIsCommitted
  BY Zenon DEF IInv, Consistent, OutsideIsCommitted
<1> QED BY <1>1, Invariant, PTL
=============================================================================
