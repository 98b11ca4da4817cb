--------------------------- MODULE Catalog_proofs ---------------------------
(***************************************************************************)
(* The catalog's safety for every value of its constants.  Lemmas on what  *)
(* an operation does to the manifest reduce all of them to one shape: a    *)
(* manifest made of the files it had and of new ones, handed to Commit.    *)
(***************************************************************************)
EXTENDS Catalog, TLAPS

\* Membership in FilesOf, without the union.
LEMMA FilesOfMember ==
  ASSUME NEW m, NEW f
  PROVE  f \in FilesOf(m) <=> \E n \in Names : HasTable(m, n) /\ f \in m.tables[n].files
BY Zenon DEF FilesOf

\* The empty manifest is a manifest and has no files.
LEMMA EmptyManifestFacts ==
  EmptyManifest \in ManifestType /\ FilesOf(EmptyManifest) = {}
<1>1. EmptyManifest \in ManifestType
  BY Zenon DEF EmptyManifest, ManifestType
<1>2. \A n \in Names : ~HasTable(EmptyManifest, n)
  BY Zenon DEF EmptyManifest, HasTable
<1>3. FilesOf(EmptyManifest) = {}
  BY <1>2, FilesOfMember, Zenon
<1> QED BY <1>1, <1>3, Zenon

\* The files of a manifest are determined by its tables.
LEMMA SameTables ==
  ASSUME NEW m, NEW r, r.tables = m.tables
  PROVE  FilesOf(r) = FilesOf(m)
BY Zenon DEF FilesOf, HasTable

\* A manifest whose table n becomes t, of files it had and files fs.
LEMMA WithTableFacts ==
  ASSUME NEW m \in ManifestType, NEW n \in Names, NEW fs \in SUBSET DataFile,
         NEW t \in TableMeta \cup {None},
         t # None => t.files \subseteq FilesOf(m) \cup fs
  PROVE  WithTable(m, n, t) \in ManifestType /\ FilesOf(WithTable(m, n, t)) \subseteq FilesOf(m) \cup fs
<1> DEFINE r == WithTable(m, n, t)
<1>1. r \in ManifestType
  BY Zenon DEF ManifestType, WithTable
<1>2. r.tables = [m.tables EXCEPT ![n] = t] /\ m.tables \in [Names -> TableMeta \cup {None}]
  BY Zenon DEF ManifestType, WithTable
<1> HIDE DEF r
<1>3. ASSUME NEW f \in FilesOf(r) PROVE f \in FilesOf(m) \cup fs
  <2>1. PICK x \in Names : HasTable(r, x) /\ f \in r.tables[x].files
    BY <1>3, FilesOfMember, Zenon
  <2>2. CASE x = n
    BY <2>1, <2>2, <1>2, Zenon DEF HasTable
  <2>3. CASE x # n
    BY <2>1, <2>3, <1>2, FilesOfMember, Zenon DEF HasTable
  <2> QED BY <2>2, <2>3, Zenon
<1> QED BY <1>1, <1>3, Zenon DEF r

\* An entry of a manifest that is there is a table with files of the manifest.
LEMMA TableFacts ==
  ASSUME NEW m \in ManifestType, NEW n \in Names, HasTable(m, n)
  PROVE  /\ m.tables[n] \in TableMeta
         /\ m.tables[n].files \subseteq FilesOf(m)
         /\ m.tables[n].files \subseteq DataFile
<1>1. m.tables[n] \in TableMeta
  BY Zenon DEF ManifestType, HasTable
<1>2. m.tables[n].files \subseteq FilesOf(m)
  BY FilesOfMember, Zenon
<1> QED BY <1>1, <1>2, Zenon DEF TableMeta

\* The entry SetRows writes.
LEMMA SetRowsEntry ==
  ASSUME NEW t \in TableMeta, NEW S \in SUBSET DataFile
  PROVE  LET u == [t EXCEPT !.files = S, !.table_version = @ + 1, !.analyzed = None]
         IN  u \in TableMeta /\ u.files = S
<1>1. t.table_version \in Nat
  BY Zenon DEF TableMeta
<1>2. t.table_version + 1 \in Nat
  BY <1>1
<1> QED BY <1>2, Zenon DEF TableMeta

\* Replacing a table's rows by some of its files and new ones.
LEMMA SetRowsFacts ==
  ASSUME NEW m \in ManifestType, NEW n \in Names, HasTable(m, n),
         NEW fs \in SUBSET DataFile, NEW S \in SUBSET DataFile,
         S \subseteq m.tables[n].files \cup fs
  PROVE  SetRows(m, n, S) \in ManifestType /\ FilesOf(SetRows(m, n, S)) \subseteq FilesOf(m) \cup fs
<1> DEFINE t == [m.tables[n] EXCEPT !.files = S, !.table_version = @ + 1, !.analyzed = None]
<1>1. t \in TableMeta /\ t.files = S
  BY TableFacts, SetRowsEntry, Zenon
<1>2. t.files \subseteq FilesOf(m) \cup fs
  BY <1>1, TableFacts, Zenon
<1>3. SetRows(m, n, S) = WithTable(m, n, t)
  BY Zenon DEF SetRows
<1> HIDE DEF t
<1> QED BY <1>1, <1>2, <1>3, WithTableFacts, SMTT(30)

\* Creating a table of files fs.
LEMMA NewTableFacts ==
  ASSUME NEW m \in ManifestType, NEW n \in Names, NEW kind \in TableKind,
         NEW fs \in SUBSET DataFile
  PROVE  /\ NewTable(m, n, kind, fs) \in ManifestType
         /\ FilesOf(NewTable(m, n, kind, fs)) \subseteq FilesOf(m) \cup fs
<1> DEFINE c == [m EXCEPT !.next_table_id = @ + 1]
           t == [id |-> m.next_table_id, kind |-> kind, files |-> fs,
                 table_version |-> 1, analyzed |-> None]
<1>1. m.next_table_id \in Nat /\ m.next_table_id + 1 \in Nat
  BY DEF ManifestType
<1>2. c \in ManifestType /\ c.tables = m.tables
  BY <1>1, Zenon DEF ManifestType
<1>3. t \in TableMeta /\ t.files = fs
  BY <1>1, Zenon DEF TableMeta
<1>4. NewTable(m, n, kind, fs) = WithTable(c, n, t)
  BY Zenon DEF NewTable
<1> HIDE DEF c, t
<1>5. FilesOf(c) = FilesOf(m)
  BY <1>2, SameTables, Zenon
<1>6. WithTable(c, n, t) \in ManifestType /\ FilesOf(WithTable(c, n, t)) \subseteq FilesOf(c) \cup fs
  BY <1>2, <1>3, WithTableFacts, Zenon
<1> QED BY <1>4, <1>5, <1>6, Zenon

\* Compaction, with the files it wrote.
LEMMA CompactRowsFacts ==
  ASSUME NEW m \in ManifestType, NEW n \in Names, HasTable(m, n), NEW fs \in SUBSET DataFile
  PROVE  CompactRows(m, n, fs) \in ManifestType /\ FilesOf(CompactRows(m, n, fs)) \subseteq FilesOf(m) \cup fs
<1> DEFINE t == [m.tables[n] EXCEPT !.files = fs]
<1>1. m.tables[n] \in TableMeta
  BY TableFacts, Zenon
<1>2. t \in TableMeta /\ t.files = fs
  BY <1>1, Zenon DEF TableMeta
<1>3. CompactRows(m, n, fs) = WithTable(m, n, t)
  BY Zenon DEF CompactRows
<1> HIDE DEF t
<1> QED BY <1>2, <1>3, WithTableFacts

\* Recording statistics.
LEMMA RecordStatisticsFacts ==
  ASSUME NEW m \in ManifestType, NEW n \in Names, HasTable(m, n), NEW stats,
         InBounds(RecordStatistics(m, n, stats)), MaxRows \in Nat
  PROVE  /\ RecordStatistics(m, n, stats) \in ManifestType
         /\ FilesOf(RecordStatistics(m, n, stats)) \subseteq FilesOf(m) \cup {}
<1> DEFINE t == [m.tables[n] EXCEPT !.analyzed = stats]
<1>1. m.tables[n] \in TableMeta
  BY TableFacts, Zenon
<1>2. t.files = m.tables[n].files /\ t.analyzed = stats
  BY <1>1, Zenon DEF TableMeta
<1>3. RecordStatistics(m, n, stats) = WithTable(m, n, t)
  BY Zenon DEF RecordStatistics
<1>4. WithTable(m, n, t).tables[n] = t
  BY Zenon DEF WithTable, ManifestType
<1>5. t = None \/ stats \in (0 .. MaxRows) \cup {None}
  BY <1>2, <1>3, <1>4, Zenon DEF InBounds, HasTable
<1>6. t \in TableMeta \cup {None}
  <2>1. CASE t = None
    BY <2>1, Zenon
  <2>2. CASE stats \in (0 .. MaxRows) \cup {None}
    <3>1. stats \in Nat \cup {None}
      BY <2>2
    <3> QED BY <1>1, <3>1, Zenon DEF TableMeta
  <2> QED BY <1>5, <2>1, <2>2, Zenon
<1>7. t.files \subseteq FilesOf(m)
  BY <1>2, TableFacts, Zenon
<1> HIDE DEF t
<1> QED BY <1>3, <1>6, <1>7, WithTableFacts, Zenon

\* Dropping a table.
LEMMA DropTableFacts ==
  ASSUME NEW m \in ManifestType, NEW n \in Names
  PROVE  DropTable(m, n) \in ManifestType /\ FilesOf(DropTable(m, n)) \subseteq FilesOf(m) \cup {}
BY WithTableFacts, Zenon DEF DropTable

\* Renaming a table.
LEMMA RenameTableFacts ==
  ASSUME NEW m \in ManifestType, NEW old \in Names, NEW new \in Names, HasTable(m, old)
  PROVE  /\ RenameTable(m, old, new) \in ManifestType
         /\ FilesOf(RenameTable(m, old, new)) \subseteq FilesOf(m) \cup {}
<1> DEFINE t == [m.tables[old] EXCEPT !.table_version = @ + 1]
           d == DropTable(m, old)
<1>1. m.tables[old] \in TableMeta /\ m.tables[old].files \subseteq FilesOf(m) /\ m.tables[old].files \subseteq DataFile
  BY TableFacts, Zenon
<1>2. m.tables[old].table_version \in Nat /\ m.tables[old].table_version + 1 \in Nat
  BY <1>1 DEF TableMeta
<1>3. t \in TableMeta /\ t.files = m.tables[old].files
  BY <1>1, <1>2, Zenon DEF TableMeta
<1>4. RenameTable(m, old, new) = WithTable(d, new, t)
  BY Zenon DEF RenameTable
<1>5. d \in ManifestType /\ FilesOf(d) \subseteq FilesOf(m)
  BY DropTableFacts, Zenon
<1> HIDE DEF t, d
<1>6. /\ WithTable(d, new, t) \in ManifestType
      /\ FilesOf(WithTable(d, new, t)) \subseteq FilesOf(d) \cup m.tables[old].files
  BY <1>1, <1>3, <1>5, WithTableFacts, Zenon
<1> QED BY <1>1, <1>4, <1>5, <1>6, Zenon

\* Views are not made of files.
LEMMA ViewFacts ==
  ASSUME NEW m \in ManifestType, NEW n \in Names, NEW v \in ViewMeta \cup {None}
  PROVE  /\ PutView(m, n, v) \in ManifestType /\ FilesOf(PutView(m, n, v)) \subseteq FilesOf(m)
         /\ RemoveView(m, n) \in ManifestType /\ FilesOf(RemoveView(m, n)) \subseteq FilesOf(m)
<1>1. /\ PutView(m, n, v) \in ManifestType /\ PutView(m, n, v).tables = m.tables
      /\ RemoveView(m, n) \in ManifestType /\ RemoveView(m, n).tables = m.tables
  BY Zenon DEF PutView, RemoveView, ManifestType
<1> QED BY <1>1, SameTables, Zenon

-----------------------------------------------------------------------------
(***************************************************************************)
(* Every operation is a Change: new files reach the disk under names that  *)
(* are not taken, and a manifest made of old and new files is committed.   *)
(***************************************************************************)
NewFiles(fs) ==
  /\ fs \in SUBSET DataFile
  /\ \A f \in fs : ~Exists(f.path)
  /\ \A f, g \in fs : f = g

Change(m, fs) ==
  /\ pc = "idle"
  /\ m \in ManifestType
  /\ NewFiles(fs)
  /\ FilesOf(m) \subseteq FilesOf(manifest) \cup fs
  /\ files' = files \cup fs
  /\ Commit(m)

\* write_files returns no file, or one under a name that is not taken.
LEMMA WriteFilesFacts ==
  ASSUME NEW id \in Nat, NEW version \in Nat, NEW rows,
         NEW fs \in WriteFiles(id, version, rows)
  PROVE  NewFiles(fs)
<1> USE CatalogAssumption
<1> DEFINE path(k) == [id |-> id, version |-> version, k |-> k]
<1>1. CASE rows = 0
  <2>1. fs = {}
    BY <1>1, Zenon DEF WriteFiles
  <2> QED BY <2>1, Zenon DEF NewFiles
<1>2. CASE rows # 0
  <2>1. PICK k \in 0 .. MaxFiles : /\ rows \in 1 .. MaxRows /\ ~Exists(path(k))
                                  /\ fs = {[path |-> path(k), rows |-> rows]}
    BY <1>2, Zenon DEF WriteFiles
  <2>2. path(k) \in FilePath /\ rows \in Nat
    BY <2>1 DEF FilePath
  <2> DEFINE f == [path |-> path(k), rows |-> rows]
  <2>3. f \in DataFile /\ f.path = path(k)
    BY <2>2, Zenon DEF DataFile
  <2> HIDE DEF f
  <2>4. fs = {f}
    BY <2>1, Zenon DEF f
  <2> HIDE DEF path
  <2> QED BY <2>1, <2>3, <2>4, Zenon DEF NewFiles
<1> QED BY <1>1, <1>2, Zenon

\* Nothing written.
LEMMA NoNewFiles == NewFiles({})
BY Zenon DEF NewFiles

LEMMA OperationIsChange ==
  ASSUME TypeOK, Operation
  PROVE  \E m, fs : Change(m, fs)
<1> USE CatalogAssumption
<1>1. manifest \in ManifestType /\ manifest.version + 1 \in Nat /\ manifest.next_table_id \in Nat
  BY DEF TypeOK, ManifestType
<1>2. PICK n \in Names :
        \/ \E rows \in RowCounts :
             \/ CreateTable(n, rows)
             \/ Append(n, rows)
             \/ ReplaceTable(n, rows) \/ ReplaceContents(n, rows)
             \/ \E remove \in SUBSET files : RewriteFiles(n, remove, rows)
        \/ CreateExternalTable(n)
        \/ Truncate(n)
        \/ Drop(n)
        \/ SetStatistics(n)
        \/ \E resort \in BOOLEAN : Compact(n, resort)
        \/ \E new \in Names : Rename(n, new)
        \/ \E deps \in ViewDeps : StoreView(n, deps)
        \/ DeleteView(n)
  BY Zenon DEF Operation
<1>3. HasTable(manifest, n) => manifest.tables[n].id \in Nat
  BY <1>1, TableFacts, Zenon DEF TableMeta
<1>4. ASSUME NEW rows, NEW fs \in WriteTo(n, rows), HasTable(manifest, n)
      PROVE  NewFiles(fs) /\ fs \in SUBSET DataFile
  BY <1>1, <1>3, <1>4, WriteFilesFacts DEF WriteTo, NewFiles
<1>5. ASSUME NEW rows \in RowCounts, CreateTable(n, rows)
      PROVE  \E m, fs : Change(m, fs)
  <2>1. PICK fs \in WriteFiles(manifest.next_table_id, manifest.version + 1, rows) :
          files' = files \cup fs /\ Commit(NewTable(manifest, n, "managed", fs))
    BY <1>5, Zenon DEF CreateTable
  <2>2. NewFiles(fs)
    BY <1>1, WriteFilesFacts, Zenon
  <2>3. /\ NewTable(manifest, n, "managed", fs) \in ManifestType
        /\ FilesOf(NewTable(manifest, n, "managed", fs)) \subseteq FilesOf(manifest) \cup fs
    BY <1>1, <2>2, NewTableFacts, Zenon DEF TableKind, NewFiles
  <2>4. Change(NewTable(manifest, n, "managed", fs), fs)
    BY <1>5, <2>1, <2>2, <2>3, Zenon DEF Change, CreateTable, Writable
  <2> QED BY <2>4, Zenon
<1>6. ASSUME NEW rows, NEW fs \in WriteTo(n, rows), HasTable(manifest, n), pc = "idle",
             NEW S \in SUBSET DataFile, S \subseteq manifest.tables[n].files \cup fs,
             files' = files \cup fs, Commit(SetRows(manifest, n, S))
      PROVE  \E m, gs : Change(m, gs)
  <2>1. NewFiles(fs) /\ fs \in SUBSET DataFile
    BY <1>4, <1>6, Zenon
  <2>2. /\ SetRows(manifest, n, S) \in ManifestType
        /\ FilesOf(SetRows(manifest, n, S)) \subseteq FilesOf(manifest) \cup fs
    BY <1>1, <1>6, <2>1, SetRowsFacts, Zenon
  <2>3. Change(SetRows(manifest, n, S), fs)
    BY <1>6, <2>1, <2>2, Zenon DEF Change
  <2> QED BY <2>3, Zenon
<1>7. HasTable(manifest, n) => manifest.tables[n].files \in SUBSET DataFile
  BY <1>1, TableFacts, Zenon
<1>8. ASSUME NEW rows \in RowCounts, Append(n, rows)
      PROVE  \E m, fs : Change(m, fs)
  <2>1. PICK fs \in WriteTo(n, rows) :
          files' = files \cup fs /\ Commit(SetRows(manifest, n, manifest.tables[n].files \cup fs))
    BY <1>8, Zenon DEF Append, AppendRows
  <2>2. HasTable(manifest, n) /\ pc = "idle"
    BY <1>8, Zenon DEF Append, IsManaged, Writable
  <2>3. manifest.tables[n].files \cup fs \in SUBSET DataFile
    BY <1>4, <1>7, <2>1, <2>2, Zenon
  <2> QED BY <1>6, <2>1, <2>2, <2>3, Zenon
<1>9. ASSUME NEW rows \in RowCounts, ReplaceTable(n, rows) \/ ReplaceContents(n, rows)
      PROVE  \E m, fs : Change(m, fs)
  <2>1. PICK fs \in WriteTo(n, rows) :
          files' = files \cup fs /\ Commit(SetRows(manifest, n, fs))
    BY <1>9, Zenon DEF ReplaceTable, ReplaceContents
  <2>2. HasTable(manifest, n) /\ pc = "idle"
    BY <1>9, Zenon DEF ReplaceTable, ReplaceContents, IsManaged, Writable
  <2> QED BY <1>4, <1>6, <2>1, <2>2, Zenon
<1>10. ASSUME NEW rows \in RowCounts, NEW remove, RewriteFiles(n, remove, rows)
       PROVE  \E m, fs : Change(m, fs)
  <2>1. PICK fs \in WriteTo(n, rows) :
          /\ files' = files \cup fs
          /\ Commit(SetRows(manifest, n, (manifest.tables[n].files \ remove) \cup fs))
    BY <1>10, Zenon DEF RewriteFiles, RewriteRows
  <2>2. HasTable(manifest, n) /\ pc = "idle"
    BY <1>10, Zenon DEF RewriteFiles, IsManaged, Writable
  <2>3. (manifest.tables[n].files \ remove) \cup fs \in SUBSET DataFile
    BY <1>4, <1>7, <2>1, <2>2, Zenon
  <2> QED BY <1>6, <2>1, <2>2, <2>3, Zenon
<1>11. ASSUME CreateExternalTable(n)
       PROVE  \E m, fs : Change(m, fs)
  <2>1. /\ NewTable(manifest, n, "external", {}) \in ManifestType
        /\ FilesOf(NewTable(manifest, n, "external", {})) \subseteq FilesOf(manifest) \cup {}
    BY <1>1, NewTableFacts, Zenon DEF TableKind
  <2>2. Change(NewTable(manifest, n, "external", {}), {})
    BY <1>11, <2>1, NoNewFiles, Zenon DEF Change, CreateExternalTable, Writable
  <2> QED BY <2>2, Zenon
<1>12. ASSUME Truncate(n)
       PROVE  \E m, fs : Change(m, fs)
  <2>1. HasTable(manifest, n) /\ pc = "idle" /\ Commit(SetRows(manifest, n, {})) /\ files' = files
    BY <1>12, Zenon DEF Truncate, IsManaged, Writable
  <2>2. /\ SetRows(manifest, n, {}) \in ManifestType
        /\ FilesOf(SetRows(manifest, n, {})) \subseteq FilesOf(manifest) \cup {}
    BY <1>1, <2>1, SetRowsFacts, Zenon
  <2>3. Change(SetRows(manifest, n, {}), {})
    BY <2>1, <2>2, NoNewFiles, Zenon DEF Change
  <2> QED BY <2>3, Zenon
<1>13. ASSUME Drop(n)
       PROVE  \E m, fs : Change(m, fs)
  <2>1. Change(DropTable(manifest, n), {})
    BY <1>1, <1>13, DropTableFacts, NoNewFiles, Zenon DEF Change, Drop, Writable
  <2> QED BY <2>1, Zenon
<1>14. ASSUME SetStatistics(n)
       PROVE  \E m, fs : Change(m, fs)
  <2>1. PICK stats : Commit(RecordStatistics(manifest, n, stats))
    BY <1>14, Zenon DEF SetStatistics
  <2>2. HasTable(manifest, n) /\ pc = "idle" /\ files' = files
    BY <1>14, Zenon DEF SetStatistics, Writable
  <2>3. InBounds(RecordStatistics(manifest, n, stats))
    BY <2>1, Zenon DEF Commit
  <2>4. Change(RecordStatistics(manifest, n, stats), {})
    BY <1>1, <2>1, <2>2, <2>3, RecordStatisticsFacts, NoNewFiles, Zenon DEF Change
  <2> QED BY <2>4, Zenon
<1>15. ASSUME NEW resort, Compact(n, resort)
       PROVE  \E m, fs : Change(m, fs)
  <2>1. PICK fs \in WriteTo(n, RowCount(manifest.tables[n].files)) :
          files' = files \cup fs /\ Commit(CompactRows(manifest, n, fs))
    BY <1>15, Zenon DEF Compact
  <2>2. HasTable(manifest, n) /\ pc = "idle"
    BY <1>15, Zenon DEF Compact, IsManaged, Writable
  <2>3. NewFiles(fs) /\ fs \in SUBSET DataFile
    BY <1>4, <2>1, <2>2
  <2>4. Change(CompactRows(manifest, n, fs), fs)
    BY <1>1, <2>1, <2>2, <2>3, CompactRowsFacts, Zenon DEF Change
  <2> QED BY <2>4, Zenon
<1>16. ASSUME NEW new \in Names, Rename(n, new)
       PROVE  \E m, fs : Change(m, fs)
  <2>1. Change(RenameTable(manifest, n, new), {})
    BY <1>1, <1>16, RenameTableFacts, NoNewFiles, Zenon DEF Change, Rename, Writable
  <2> QED BY <2>1, Zenon
<1>17. ASSUME NEW deps \in ViewDeps, StoreView(n, deps)
       PROVE  \E m, fs : Change(m, fs)
  <2>1. [dependencies |-> deps] \in ViewMeta
    BY Zenon DEF ViewMeta
  <2>2. Change(PutView(manifest, n, [dependencies |-> deps]), {})
    BY <1>1, <1>17, <2>1, ViewFacts, NoNewFiles, Zenon DEF Change, StoreView, Writable
  <2> QED BY <2>2, Zenon
<1>18. ASSUME DeleteView(n)
       PROVE  \E m, fs : Change(m, fs)
  <2>1. Change(RemoveView(manifest, n), {})
    BY <1>1, <1>18, ViewFacts, NoNewFiles, Zenon DEF Change, DeleteView, Writable
  <2> QED BY <2>1, Zenon
<1> QED BY <1>2, <1>5, <1>8, <1>9, <1>10, <1>11, <1>12, <1>13, <1>14, <1>15, <1>16, <1>17, <1>18, Zenon

-----------------------------------------------------------------------------
(***************************************************************************)
(* The inductive invariant.                                                *)
(***************************************************************************)
\* Reading a manifest finds the only one of that number.
LEMMA Unique ==
  ASSUME NEW M, NEW m \in M, \A x, y \in M : x.version = y.version => x = y
  PROVE  (CHOOSE x \in M : x.version = m.version) = m
BY Zenon

\* The published manifest is on disk under its number, or the catalog is new.
LEMMA AtCurrent ==
  ASSUME IInv
  PROVE  /\ OpenSnapshot(current).version = current
         /\ current # 0 => OpenSnapshot(current) \in manifests
         /\ current = 0 => OpenSnapshot(current) = EmptyManifest
         /\ FilesOf(OpenSnapshot(current)) \subseteq files
         /\ OpenSnapshot(current) \in ManifestType
<1>1. CASE current = 0
  BY <1>1, EmptyManifestFacts, Zenon DEF OpenSnapshot, EmptyManifest
<1>2. CASE current # 0
  <2>1. PICK m \in manifests : m.version = current
    BY <1>2, Zenon DEF IInv, SnapshotsIntact, Versions
  <2>2. OpenSnapshot(current) = m
    BY <1>2, <2>1, Unique, Zenon DEF IInv, Protocol, OpenSnapshot, ReadManifest
  <2> QED BY <1>2, <2>1, <2>2, Zenon DEF IInv, SnapshotsIntact, TypeOK
<1> QED BY <1>1, <1>2, Zenon

\* The same after a step.
LEMMA AtCurrentNext ==
  ASSUME IInv'
  PROVE  current' # 0 => OpenSnapshot(current)' \in manifests'
<1>1. CASE current' # 0
  <2>1. PICK m \in manifests' : m.version = current'
    BY <1>1, Zenon DEF IInv, SnapshotsIntact, Versions
  <2>2. OpenSnapshot(current)' = m
    BY <1>1, <2>1, Unique, Zenon DEF IInv, Protocol, OpenSnapshot, ReadManifest
  <2> QED BY <2>1, <2>2, Zenon
<1> QED BY <1>1, Zenon

\* A new catalog satisfies the invariant.
LEMMA InitInv == Init => IInv
<1> SUFFICES ASSUME Init PROVE IInv
  BY Zenon
<1>1. TypeOK
  BY EmptyManifestFacts, Zenon DEF Init, TypeOK, PCs
<1>2. SnapshotsIntact /\ WorkIntact /\ WriterAtCurrent
  BY Zenon DEF Init, SnapshotsIntact, WorkIntact, WriterAtCurrent
<1>3. Protocol
  BY Zenon DEF Init, Protocol
<1> QED BY <1>1, <1>2, <1>3, Zenon DEF IInv

\* Publishing starts, or a transaction takes the change.
LEMMA ChangeInv ==
  ASSUME IInv, NEW m, NEW fs, Change(m, fs)
  PROVE  IInv'
<1> USE CatalogAssumption
<1>1. /\ pc = "idle" /\ m \in ManifestType /\ NewFiles(fs)
      /\ FilesOf(m) \subseteq FilesOf(manifest) \cup fs /\ files' = files \cup fs
      /\ UNCHANGED <<manifests, current, lock, txn_base, todo>>
  BY Zenon DEF Change, Commit
<1>2. FilesOf(manifest) \subseteq files /\ manifest \in ManifestType /\ next = None
  BY <1>1, Zenon DEF IInv, WorkIntact, TypeOK, Protocol
<1>3. files' \subseteq DataFile /\ files \subseteq files' /\ FilesOf(m) \subseteq files'
  BY <1>1, <1>2, Zenon DEF IInv, TypeOK, NewFiles
<1>4. \A f, g \in files' : f.path = g.path => f = g
  BY <1>1, Zenon DEF IInv, SnapshotsIntact, NewFiles, Exists
<1>5. SnapshotsIntact'
  BY <1>1, <1>3, <1>4, Zenon DEF IInv, SnapshotsIntact, Versions
<1>6. ASSUME NEW v \in Nat
      PROVE  /\ [m EXCEPT !.version = v] \in ManifestType
             /\ FilesOf([m EXCEPT !.version = v]) \subseteq files'
             /\ [m EXCEPT !.version = v].version = v
  <2>1. /\ [m EXCEPT !.version = v] \in ManifestType
        /\ [m EXCEPT !.version = v].tables = m.tables
        /\ [m EXCEPT !.version = v].version = v
    BY <1>1, Zenon DEF ManifestType
  <2> QED BY <1>3, <2>1, SameTables, Zenon
<1>7. CASE txn_base # None
  <2>1. manifest' = [m EXCEPT !.version = txn_base.version + 1] /\ UNCHANGED <<pc, next>>
    BY <1>7, Zenon DEF Change, Commit
  <2>2. txn_base.version + 1 \in Nat
    BY <1>7 DEF IInv, TypeOK, ManifestType
  <2>3. manifest' \in ManifestType /\ FilesOf(manifest') \subseteq files'
    BY <1>6, <2>1, <2>2, Zenon
  <2>4. TypeOK'
    BY <1>1, <1>3, <2>1, <2>3, Zenon DEF IInv, TypeOK
  <2>5. WorkIntact'
    BY <1>1, <1>2, <1>3, <2>1, <2>3, Zenon DEF IInv, WorkIntact
  <2>6. WriterAtCurrent'
    BY <1>1, <1>7, <2>1 DEF IInv, WriterAtCurrent, LastPublished, OpenSnapshot, ReadManifest
  <2>7. Protocol'
    BY <1>1, <1>2, <2>1, Zenon DEF IInv, Protocol
  <2> QED BY <1>5, <2>4, <2>5, <2>6, <2>7, Zenon DEF IInv
<1>8. CASE txn_base = None
  <2>1. next' = [m EXCEPT !.version = manifest.version + 1] /\ pc' = "manifest" /\ UNCHANGED manifest
    BY <1>8, Zenon DEF Change, Commit
  <2>2. manifest.version = current /\ current \in Nat
    BY <1>1, <1>8, AtCurrent, Zenon DEF IInv, TypeOK, WriterAtCurrent, LastPublished
  <2> DEFINE v == manifest.version + 1
  <2> HIDE DEF v
  <2>a. v \in Nat /\ v = current + 1 /\ next' = [m EXCEPT !.version = v]
    BY <2>1, <2>2 DEF v
  <2>3. next' \in ManifestType /\ FilesOf(next') \subseteq files' /\ next'.version = current + 1
    BY <1>6, <2>a, Zenon
  <2>4. TypeOK'
    BY <1>1, <1>3, <2>1, <2>3, Zenon DEF IInv, TypeOK, PCs
  <2>5. WorkIntact'
    BY <1>1, <1>2, <1>3, <1>8, <2>1, <2>3, Zenon DEF IInv, WorkIntact
  <2>6. WriterAtCurrent'
    BY <1>1, <1>8, <2>1, Zenon DEF IInv, WriterAtCurrent, LastPublished, OpenSnapshot, ReadManifest
  <2>7. Protocol'
    <3>1. next' # None
      BY <2>3, Zenon
    <3> QED BY <1>1, <1>8, <2>1, <2>3, <3>1, Zenon DEF IInv, Protocol
  <2> QED BY <1>5, <2>4, <2>5, <2>6, <2>7, Zenon DEF IInv
<1> QED BY <1>7, <1>8, Zenon

\* The process opens, ends or dies; the disk keeps its data.
LEMMA LifeInv ==
  ASSUME IInv, Open \/ Close \/ Crash \/ RemoveStaleLock
  PROVE  IInv'
<1>1. UNCHANGED <<files, manifests, current>> /\ next' = None /\ pc' \in {"idle", "closed"}
  BY Zenon DEF Open, Close, Crash, RemoveStaleLock, Forget, disk, process, IInv, Protocol
<1>2. CASE Open
  <2>1. manifest' = OpenSnapshot(current) /\ txn_base' = None /\ pc' = "idle" /\ lock' \in BOOLEAN
        /\ todo' = todo
    BY <1>2, Zenon DEF Open, IInv, Protocol
  <2>2. TypeOK'
    BY <1>1, <2>1, AtCurrent, Zenon DEF IInv, TypeOK, PCs
  <2>3. SnapshotsIntact' /\ WorkIntact'
    BY <1>1, <2>1, AtCurrent, Zenon DEF IInv, SnapshotsIntact, WorkIntact, Versions
  <2>4. WriterAtCurrent'
    BY <1>1, <2>1 DEF WriterAtCurrent, LastPublished, OpenSnapshot, ReadManifest
  <2>5. Protocol'
    BY <1>1, <2>1, Zenon DEF IInv, Protocol
  <2> QED BY <2>2, <2>3, <2>4, <2>5, Zenon DEF IInv
<1>3. CASE Close \/ Crash \/ RemoveStaleLock
  <2>1. /\ pc' = "closed" /\ txn_base' = None /\ lock' \in BOOLEAN
        /\ manifest' \in {EmptyManifest, manifest} /\ todo' \in {{}, todo}
    BY <1>3, Zenon DEF Close, Crash, RemoveStaleLock, Forget, disk, process, IInv, Protocol, TypeOK
  <2>2. TypeOK'
    BY <1>1, <2>1, EmptyManifestFacts, Zenon DEF IInv, TypeOK, PCs
  <2>3. SnapshotsIntact' /\ WorkIntact' /\ WriterAtCurrent'
    BY <1>1, <2>1, Zenon DEF IInv, SnapshotsIntact, WorkIntact, WriterAtCurrent, Versions
  <2>4. Protocol'
    BY <1>1, <2>1, Zenon DEF IInv, Protocol
  <2> QED BY <2>2, <2>3, <2>4, Zenon DEF IInv
<1> QED BY <1>2, <1>3, Zenon

\* A file left behind by a failed write.
LEMMA FailedWriteInv ==
  ASSUME IInv, NEW id \in Nat, NEW rows, FailedWrite(id, rows)
  PROVE  IInv'
<1>1. manifest.version + 1 \in Nat
  BY DEF IInv, TypeOK, ManifestType
<1>2. PICK fs \in WriteFiles(id, manifest.version + 1, rows) : files' = files \cup fs
  BY Zenon DEF FailedWrite
<1>3. NewFiles(fs)
  BY <1>1, WriteFilesFacts, Zenon
<1>4. UNCHANGED <<manifests, current, lock, pc, manifest, txn_base, next, todo>> /\ pc = "idle"
  BY Zenon DEF FailedWrite, process, Writable
<1>5. files' \subseteq DataFile /\ files \subseteq files'
  BY <1>2, <1>3, Zenon DEF IInv, TypeOK, NewFiles
<1>6. \A f, g \in files' : f.path = g.path => f = g
  BY <1>2, <1>3, Zenon DEF IInv, SnapshotsIntact, NewFiles, Exists
<1>7. TypeOK' /\ SnapshotsIntact'
  BY <1>4, <1>5, <1>6, Zenon DEF IInv, TypeOK, SnapshotsIntact, Versions
<1>8. WorkIntact' /\ WriterAtCurrent' /\ Protocol'
  BY <1>4, <1>5, Zenon DEF IInv, WorkIntact, WriterAtCurrent, LastPublished, OpenSnapshot, ReadManifest, Protocol
<1> QED BY <1>7, <1>8, Zenon DEF IInv

\* The manifest reaches the disk; it replaces at most an unpublished one.
LEMMA PublishManifestInv ==
  ASSUME IInv, PublishManifest
  PROVE  IInv'
<1>1. /\ pc = "manifest" /\ pc' = "current"
      /\ manifests' = {m \in manifests : m.version # next.version} \cup {next}
      /\ UNCHANGED <<files, current, lock, manifest, txn_base, next, todo>>
  BY Zenon DEF PublishManifest
<1>2. next \in ManifestType /\ next.version = current + 1 /\ current \in Nat
      /\ FilesOf(next) \subseteq files /\ txn_base = None /\ next # None
  BY <1>1, Zenon DEF IInv, Protocol, TypeOK, WorkIntact
<1>3. TypeOK'
  BY <1>1, <1>2, Zenon DEF IInv, TypeOK, PCs
<1>4. \A m, r \in manifests' : m.version = r.version => m = r
  BY <1>1, Zenon DEF IInv, Protocol
<1>5. current # 0 => OpenSnapshot(current) \in manifests' /\ OpenSnapshot(current).version = current
  BY <1>1, <1>2, AtCurrent
<1>6. SnapshotsIntact'
  BY <1>1, <1>2, <1>5, Zenon DEF IInv, SnapshotsIntact, Versions
<1>7. WorkIntact'
  BY <1>1, Zenon DEF IInv, WorkIntact
<1>8. OpenSnapshot(current)' = OpenSnapshot(current)
  <2>1. CASE current = 0
    BY <1>1, <2>1, Zenon DEF OpenSnapshot
  <2>2. CASE current # 0
    BY <1>1, <1>4, <1>5, <2>2, Unique DEF OpenSnapshot, ReadManifest
  <2> QED BY <2>1, <2>2, Zenon
<1>9. WriterAtCurrent'
  BY <1>1, <1>8, Zenon DEF IInv, WriterAtCurrent, LastPublished
<1>10. Protocol'
  BY <1>1, <1>2, <1>4 DEF IInv, Protocol
<1> QED BY <1>3, <1>6, <1>7, <1>9, <1>10, Zenon DEF IInv

\* CURRENT moves to the manifest that is already there.
LEMMA PublishCurrentInv ==
  ASSUME IInv, PublishCurrent
  PROVE  IInv'
<1>1. /\ pc = "current" /\ pc' = "idle" /\ current' = next.version /\ manifest' = next
      /\ next' = None /\ UNCHANGED <<files, manifests, lock, txn_base, todo>>
  BY Zenon DEF PublishCurrent
<1>2. next \in manifests /\ next \in ManifestType /\ next.version = current + 1 /\ current \in Nat
      /\ FilesOf(next) \subseteq files /\ txn_base = None /\ next # None
  BY <1>1, Zenon DEF IInv, Protocol, TypeOK, WorkIntact
<1>3. TypeOK'
  BY <1>1, <1>2 DEF IInv, TypeOK, PCs
<1>4. SnapshotsIntact' /\ WorkIntact'
  BY <1>1, <1>2, Zenon DEF IInv, SnapshotsIntact, WorkIntact, Versions
<1>5. OpenSnapshot(current)' = next
  BY <1>1, <1>2, Unique DEF IInv, Protocol, OpenSnapshot, ReadManifest
<1>6. WriterAtCurrent'
  BY <1>1, <1>2, <1>5, Zenon DEF WriterAtCurrent, LastPublished
<1>7. Protocol'
  BY <1>1, <1>2, Zenon DEF IInv, Protocol
<1> QED BY <1>3, <1>4, <1>6, <1>7, Zenon DEF IInv

\* A commit fails, or a transaction begins or ends: the disk does not change.
LEMMA MemoryInv ==
  ASSUME IInv, PublishFails \/ Begin \/ CommitTransaction \/ RollbackTransaction
  PROVE  IInv'
<1>1. UNCHANGED <<files, manifests, current, lock, todo>>
  BY Zenon DEF PublishFails, Begin, CommitTransaction, RollbackTransaction, disk
<1>2. SnapshotsIntact' /\ OpenSnapshot(current)' = OpenSnapshot(current)
  BY <1>1 DEF IInv, SnapshotsIntact, Versions, OpenSnapshot, ReadManifest
<1>3. CASE PublishFails
  <2>1. pc' = "idle" /\ next' = None /\ UNCHANGED <<manifest, txn_base>> /\ pc # "closed"
    BY <1>3, Zenon DEF PublishFails
  <2>2. TypeOK'
    BY <1>1, <2>1, Zenon DEF IInv, TypeOK, PCs
  <2>3. WorkIntact' /\ WriterAtCurrent'
    BY <1>1, <1>2, <2>1, Zenon DEF IInv, WorkIntact, WriterAtCurrent, LastPublished
  <2>4. Protocol'
    BY <1>1, <2>1, Zenon DEF IInv, Protocol
  <2> QED BY <1>2, <2>2, <2>3, <2>4, Zenon DEF IInv
<1>4. CASE Begin
  <2>1. txn_base' = manifest /\ txn_base = None /\ UNCHANGED <<pc, manifest, next>> /\ pc = "idle"
    BY <1>4, Zenon DEF Begin, Writable
  <2>2. TypeOK'
    BY <1>1, <2>1, Zenon DEF IInv, TypeOK
  <2>3. WorkIntact' /\ WriterAtCurrent'
    BY <1>1, <1>2, <2>1, Zenon DEF IInv, WorkIntact, WriterAtCurrent, LastPublished
  <2>4. Protocol'
    BY <1>1, <2>1, Zenon DEF IInv, Protocol
  <2> QED BY <1>2, <2>2, <2>3, <2>4, Zenon DEF IInv
<1>5. CASE RollbackTransaction
  <2>1. /\ manifest' = txn_base /\ txn_base' = None /\ txn_base # None
        /\ UNCHANGED <<pc, next>> /\ pc = "idle"
    BY <1>5, Zenon DEF RollbackTransaction
  <2>2. TypeOK'
    BY <1>1, <2>1, Zenon DEF IInv, TypeOK
  <2>3. WorkIntact' /\ WriterAtCurrent'
    BY <1>1, <1>2, <2>1, Zenon DEF IInv, WorkIntact, WriterAtCurrent, LastPublished
  <2>4. Protocol'
    BY <1>1, <2>1, Zenon DEF IInv, Protocol
  <2> QED BY <1>2, <2>2, <2>3, <2>4, Zenon DEF IInv
<1>6. CASE CommitTransaction
  <2>1. /\ manifest' = txn_base /\ txn_base' = None /\ txn_base # None /\ pc = "idle"
        /\ next = None /\ txn_base \in ManifestType /\ manifest \in ManifestType
    BY <1>6, Zenon DEF CommitTransaction, IInv, Protocol, TypeOK
  <2>2. WriterAtCurrent'
    BY <1>2, <2>1, Zenon DEF IInv, WriterAtCurrent, LastPublished
  <2>3. FilesOf(manifest) \subseteq files /\ FilesOf(txn_base) \subseteq files
        /\ txn_base = OpenSnapshot(current)
    BY <2>1, CatalogAssumption, Zenon DEF IInv, WorkIntact, WriterAtCurrent, LastPublished
  <2>4. CASE manifest = txn_base
    <3>1. UNCHANGED <<pc, next>>
      BY <1>6, <2>4, Zenon DEF CommitTransaction
    <3>2. TypeOK' /\ WorkIntact' /\ Protocol'
      BY <1>1, <2>1, <2>3, <3>1, Zenon DEF IInv, TypeOK, WorkIntact, Protocol
    <3> QED BY <1>2, <2>2, <3>2, Zenon DEF IInv
  <2>5. CASE manifest # txn_base
    <3>1. next' = [manifest EXCEPT !.version = txn_base.version + 1] /\ pc' = "manifest"
      BY <1>6, <2>5, Zenon DEF CommitTransaction
    <3>2. txn_base.version = current /\ current \in Nat
      BY <2>3, AtCurrent, Zenon DEF IInv, TypeOK
    <3>3. next' \in ManifestType /\ next'.tables = manifest.tables /\ next'.version = current + 1
      BY <2>1, <3>1, <3>2 DEF ManifestType
    <3>4. FilesOf(next') \subseteq files /\ next' # None
      BY <2>3, <3>3, SameTables, CatalogAssumption, Zenon
    <3>5. TypeOK'
      BY <1>1, <2>1, <3>1, <3>3, Zenon DEF IInv, TypeOK, PCs
    <3>6. WorkIntact'
      BY <1>1, <2>1, <2>3, <3>4, Zenon DEF WorkIntact
    <3>7. Protocol'
      BY <1>1, <2>1, <3>1, <3>3, <3>4, Zenon DEF IInv, Protocol
    <3> QED BY <1>2, <2>2, <3>5, <3>6, <3>7, Zenon DEF IInv
  <2> QED BY <2>4, <2>5, Zenon
<1> QED BY <1>3, <1>4, <1>5, <1>6, Zenon

\* Vacuum deletes old manifests, then files no manifest on disk is made of.
LEMMA VacuumInv ==
  ASSUME IInv, NEW keep \in Nat, NEW x,
         Vacuum(keep) \/ VacuumManifest(x) \/ VacuumScan \/ VacuumFile(x) \/ VacuumReturns
         \/ VacuumFails
  PROVE  IInv'
<1>1. UNCHANGED <<current, lock, manifest, txn_base, next>>
  BY Zenon DEF Vacuum, VacuumManifest, VacuumScan, VacuumFile, VacuumReturns, VacuumFails, disk
<1>2. pc # "closed" /\ txn_base = None /\ next = None
  BY Zenon DEF IInv, Protocol, Vacuum, VacuumManifest, VacuumScan, VacuumFile, VacuumReturns, VacuumFails
<1>3. manifest = OpenSnapshot(current) /\ manifest.version = current
      /\ (current # 0 => manifest \in manifests) /\ FilesOf(manifest) \subseteq files
      /\ manifest # None
  BY <1>2, AtCurrent, CatalogAssumption, Zenon DEF IInv, WriterAtCurrent, LastPublished, TypeOK
<1>4. CASE Vacuum(keep)
  <2>1. UNCHANGED <<files, manifests>> /\ pc' = "vacuum_manifests" /\ todo' \subseteq manifests
        /\ \A m \in todo' : m.version # manifest.version
    BY <1>4, Zenon DEF Vacuum, Outdated, disk
  <2>2. TypeOK'
    BY <1>1, <2>1, Zenon DEF IInv, TypeOK, PCs
  <2>3. SnapshotsIntact' /\ WorkIntact' /\ WriterAtCurrent'
    BY <1>1, <1>2, <2>1, Zenon DEF IInv, SnapshotsIntact, WorkIntact, WriterAtCurrent, LastPublished,
                            OpenSnapshot, ReadManifest, Versions
  <2>4. Protocol'
    BY <1>1, <1>2, <2>1, Zenon DEF IInv, Protocol
  <2> QED BY <2>2, <2>3, <2>4, Zenon DEF IInv
<1>5. CASE VacuumManifest(x)
  <2>1. /\ UNCHANGED <<files, pc>> /\ pc = "vacuum_manifests" /\ todo' \subseteq todo
        /\ manifests' \subseteq manifests /\ (manifest \in manifests => manifest \in manifests')
    BY <1>5, Zenon DEF VacuumManifest, IInv, Protocol
  <2>2. TypeOK'
    BY <1>1, <2>1, Zenon DEF IInv, TypeOK
  <2>3. SnapshotsIntact'
    BY <1>1, <1>3, <2>1, Zenon DEF IInv, SnapshotsIntact, Versions
  <2>4. OpenSnapshot(current)' = manifest
    <3>1. CASE current = 0
      BY <1>1, <1>3, <3>1, Zenon DEF OpenSnapshot
    <3>2. CASE current # 0
      <4>1. manifest \in manifests' /\ \A a, b \in manifests' : a.version = b.version => a = b
        BY <1>3, <2>1, <3>2, Zenon DEF IInv, Protocol
      <4> QED BY <1>1, <1>3, <3>2, <4>1, Unique, Zenon DEF OpenSnapshot, ReadManifest
    <3> QED BY <3>1, <3>2, Zenon
  <2>5. WorkIntact' /\ WriterAtCurrent'
    BY <1>1, <1>2, <1>3, <2>1, <2>4, Zenon DEF WorkIntact, WriterAtCurrent, LastPublished
  <2>6. Protocol'
    BY <1>1, <1>2, <2>1, Zenon DEF IInv, Protocol
  <2> QED BY <2>2, <2>3, <2>5, <2>6, Zenon DEF IInv
<1>6. CASE VacuumScan
  <2>1. UNCHANGED <<files, manifests>> /\ pc' = "vacuum_files" /\ todo' = files \ Referenced
    BY <1>6, Zenon DEF VacuumScan, disk
  <2>2. \A m \in manifests : m.version = manifest.version => m = manifest
    BY <1>3 DEF IInv, Protocol
  <2>3. \A m \in manifests : FilesOf(m) \subseteq Referenced
    BY <2>2, Zenon DEF Referenced
  <2>4. TypeOK'
    BY <1>1, <2>1, Zenon DEF IInv, TypeOK, PCs
  <2>5. SnapshotsIntact' /\ WorkIntact' /\ WriterAtCurrent'
    BY <1>1, <1>2, <2>1, Zenon DEF IInv, SnapshotsIntact, WorkIntact, WriterAtCurrent, LastPublished,
                            OpenSnapshot, ReadManifest, Versions
  <2>6. Protocol'
    BY <1>1, <1>2, <2>1, <2>3, Zenon DEF IInv, Protocol
  <2> QED BY <2>4, <2>5, <2>6, Zenon DEF IInv
<1>7. CASE VacuumFile(x)
  <2>1. /\ UNCHANGED <<manifests, pc>> /\ pc = "vacuum_files" /\ todo' \subseteq todo /\ x \in todo
        /\ files' \in {files, files \ {x}}
    BY <1>7, Zenon DEF VacuumFile
  <2>2. \A m \in manifests : FilesOf(m) \subseteq files'
    BY <2>1, Zenon DEF IInv, Protocol, SnapshotsIntact
  <2>3. FilesOf(manifest) \subseteq files'
    BY <1>3, <2>2, EmptyManifestFacts, AtCurrent, Zenon
  <2>4. TypeOK'
    BY <1>1, <2>1, Zenon DEF IInv, TypeOK
  <2>5. SnapshotsIntact'
    BY <1>1, <2>1, <2>2, Zenon DEF IInv, SnapshotsIntact, Versions
  <2>6. WorkIntact' /\ WriterAtCurrent'
    BY <1>1, <1>2, <2>1, <2>3, Zenon DEF IInv, WorkIntact, WriterAtCurrent, LastPublished,
                                  OpenSnapshot, ReadManifest
  <2>7. Protocol'
    BY <1>1, <1>2, <2>1, Zenon DEF IInv, Protocol
  <2> QED BY <2>4, <2>5, <2>6, <2>7, Zenon DEF IInv
<1>8. CASE VacuumReturns \/ VacuumFails
  <2>1. UNCHANGED <<files, manifests>> /\ pc' = "idle" /\ todo' \subseteq todo
    BY <1>8, Zenon DEF VacuumReturns, VacuumFails, disk
  <2>2. TypeOK'
    BY <1>1, <2>1, Zenon DEF IInv, TypeOK, PCs
  <2>3. SnapshotsIntact' /\ WorkIntact' /\ WriterAtCurrent'
    BY <1>1, <1>2, <2>1, Zenon DEF IInv, SnapshotsIntact, WorkIntact, WriterAtCurrent, LastPublished,
                            OpenSnapshot, ReadManifest, Versions
  <2>4. Protocol'
    BY <1>1, <1>2, <2>1, Zenon DEF IInv, Protocol
  <2> QED BY <2>2, <2>3, <2>4, Zenon DEF IInv
<1> QED BY <1>4, <1>5, <1>6, <1>7, <1>8, Zenon

\* Every step of the catalog, and a stuttering step, preserves the invariant.
LEMMA NextInv == IInv /\ [Next]_vars => IInv'
<1> SUFFICES ASSUME IInv, [Next]_vars PROVE IInv'
  BY Zenon
<1>1. CASE Open \/ Close \/ Crash \/ RemoveStaleLock
  BY <1>1, LifeInv, Zenon
<1>2. CASE Operation
  <2>1. PICK m, fs : Change(m, fs)
    BY <1>2, OperationIsChange, Zenon DEF IInv
  <2> QED BY <2>1, ChangeInv, Zenon
<1>3. CASE \E id \in 1 .. MaxTableId, rows \in RowCounts : FailedWrite(id, rows)
  <2>1. PICK id \in 1 .. MaxTableId, rows \in RowCounts : FailedWrite(id, rows)
    BY <1>3, Zenon
  <2>2. id \in Nat
    OBVIOUS
  <2> QED BY <2>1, <2>2, FailedWriteInv, Zenon
<1>4. CASE PublishManifest
  BY <1>4, PublishManifestInv, Zenon
<1>5. CASE PublishCurrent
  BY <1>5, PublishCurrentInv, Zenon
<1>6. CASE PublishFails \/ Begin \/ CommitTransaction \/ RollbackTransaction
  BY <1>6, MemoryInv, Zenon
<1>7. CASE \E keep \in 0 .. MaxVersion : Vacuum(keep)
  <2>1. PICK keep \in 0 .. MaxVersion : Vacuum(keep)
    BY <1>7, Zenon
  <2>2. keep \in Nat
    OBVIOUS
  <2> QED BY <2>1, <2>2, VacuumInv, Zenon
<1>8. CASE \E x \in todo : VacuumManifest(x) \/ VacuumFile(x)
  <2>1. PICK x \in todo : VacuumManifest(x) \/ VacuumFile(x)
    BY <1>8, Zenon
  <2>2. 0 \in Nat
    BY Zenon
  <2> QED BY <2>1, <2>2, VacuumInv, Zenon
<1>9. CASE VacuumScan \/ VacuumReturns \/ VacuumFails
  <2>1. 0 \in Nat
    BY Zenon
  <2> QED BY <1>9, <2>1, VacuumInv, Zenon
<1>10. CASE UNCHANGED vars
  <2>1. UNCHANGED <<files, manifests, current, lock, pc, manifest, txn_base, next, todo>>
    BY <1>10, Zenon DEF vars, disk, process
  <2>2. TypeOK' /\ SnapshotsIntact' /\ WorkIntact'
    BY <2>1, Zenon DEF IInv, TypeOK, SnapshotsIntact, WorkIntact, Versions
  <2>3. WriterAtCurrent' /\ Protocol'
    BY <2>1, Zenon DEF IInv, WriterAtCurrent, LastPublished, OpenSnapshot, ReadManifest, Protocol
  <2> QED BY <2>2, <2>3, Zenon DEF IInv
<1> QED
  BY <1>1, <1>2, <1>3, <1>4, <1>5, <1>6, <1>7, <1>8, <1>9, <1>10, Zenon DEF Next

\* IInv holds in every reachable state, for all names, bounds and row counts.
THEOREM Invariant == Spec => []IInv
<1>1. Init => IInv
  BY InitInv, Zenon
<1>2. IInv /\ [Next]_vars => IInv'
  BY NextInv, Zenon
<1> QED BY <1>1, <1>2, PTL DEF Spec

\* Every variable of the catalog keeps its type.
THEOREM TypeCorrect == Spec => []TypeOK
<1>1. IInv => TypeOK
  BY Zenon DEF IInv
<1> QED BY <1>1, Invariant, PTL

\* "A crash at any point leaves the previous snapshot intact": in every state
\* a crash may leave behind, CURRENT names a manifest on disk and every
\* manifest on disk has all its files, whatever commit, transaction or vacuum
\* was under way.
THEOREM CrashSafe == Spec => []SnapshotsIntact
<1>1. IInv => SnapshotsIntact
  BY Zenon DEF IInv
<1> QED BY <1>1, Invariant, PTL

\* Nothing a live writer can still publish or roll back to loses a file.
THEOREM WorkSafe == Spec => []WorkIntact
<1>1. IInv => WorkIntact
  BY Zenon DEF IInv
<1> QED BY <1>1, Invariant, PTL

\* The writer always builds on the snapshot CURRENT names.
THEOREM WriterCurrent == Spec => []WriterAtCurrent
<1>1. IInv => WriterAtCurrent
  BY Zenon DEF IInv
<1> QED BY <1>1, Invariant, PTL

\* The four ways a step may change the manifests on disk and CURRENT.
DiskStep ==
  \/ UNCHANGED <<manifests, current>>
  \/ PublishManifest
  \/ PublishCurrent
  \/ \E x : VacuumManifest(x)

\* No other action touches them.
LEMMA NextIsDiskStep ==
  ASSUME IInv, [Next]_vars
  PROVE  DiskStep
<1>1. CASE Operation
  <2>1. PICK m, fs : Change(m, fs)
    BY <1>1, OperationIsChange, Zenon DEF IInv
  <2> QED BY <2>1, Zenon DEF Change, Commit, DiskStep
<1>2. CASE UNCHANGED vars
  BY <1>2, Zenon DEF vars, disk, DiskStep
<1>3. CASE Next /\ ~Operation
  BY <1>3, Zenon DEF Next, Open, Close, Crash, RemoveStaleLock, FailedWrite, PublishFails, Begin,
              CommitTransaction, RollbackTransaction, Vacuum, VacuumFile, VacuumScan,
              VacuumReturns, VacuumFails, disk, DiskStep
<1> QED BY <1>1, <1>2, <1>3, Zenon

\* How a step changes what can be read from the disk: the published snapshots
\* and the head.
LEMMA StoreStep ==
  ASSUME IInv, IInv', DiskStep
  PROVE  \/ UNCHANGED <<OpenSnapshot(current), Published, current>>
         \/ /\ OpenSnapshot(current)'.version = OpenSnapshot(current).version + 1
            /\ Published' = Published \cup {OpenSnapshot(current)'}
         \/ /\ Published' \subseteq Published
            /\ UNCHANGED <<OpenSnapshot(current), current>>
            /\ manifests' \subseteq manifests
<1>1. CASE UNCHANGED <<manifests, current>>
  BY <1>1 DEF OpenSnapshot, ReadManifest, Published
<1>2. CASE PublishManifest
  <2>1. /\ manifests' = {m \in manifests : m.version # next.version} \cup {next}
        /\ current' = current /\ next.version = current + 1 /\ pc # "closed" /\ pc' # "closed"
        /\ UNCHANGED <<manifest, txn_base>> /\ current \in Nat
    BY <1>2, Zenon DEF PublishManifest, IInv, Protocol, TypeOK
  <2>2. Published' = Published
    BY <2>1 DEF Published
  <2>3. OpenSnapshot(current)' = OpenSnapshot(current)
    BY <2>1, Zenon DEF IInv, WriterAtCurrent, LastPublished
  <2> QED BY <2>1, <2>2, <2>3, Zenon
<1>3. CASE PublishCurrent
  <2>1. /\ manifests' = manifests /\ current' = current + 1 /\ next \in manifests
        /\ next.version = current + 1 /\ manifest' = next /\ txn_base' = None /\ pc' # "closed"
        /\ current \in Nat /\ \A m \in manifests : m.version \in Nat
    BY <1>3, Zenon DEF PublishCurrent, IInv, Protocol, TypeOK, ManifestType
  <2>2. OpenSnapshot(current)' = next
    BY <2>1, Zenon DEF IInv, WriterAtCurrent, LastPublished
  <2>3. OpenSnapshot(current).version = current
    BY AtCurrent, Zenon
  <2>4. Published' = Published \cup {next}
    BY <2>1 DEF Published, IInv, Protocol
  <2> QED BY <2>1, <2>2, <2>3, <2>4, Zenon
<1>4. CASE \E x : VacuumManifest(x)
  <2>1. /\ manifests' \subseteq manifests /\ UNCHANGED <<current, manifest, txn_base, pc>>
        /\ pc # "closed"
    BY <1>4, Zenon DEF VacuumManifest
  <2>2. OpenSnapshot(current)' = OpenSnapshot(current)
    BY <2>1, Zenon DEF IInv, WriterAtCurrent, LastPublished
  <2> QED BY <2>1, <2>2, Zenon DEF Published
<1> QED BY <1>1, <1>2, <1>3, <1>4, Zenon DEF DiskStep

\* Time travel: no step changes what is published under a number, and none
\* discards the manifest CURRENT names.
THEOREM SnapshotsImmutable == Spec => TimeTravel
<1> DEFINE Kept == /\ \A m \in Published : m \in manifests' \/ m.version \notin Versions'
                   /\ OpenSnapshot(current) \in manifests' \/ current = 0
<1>1. ASSUME IInv, IInv', [Next]_vars PROVE Kept
  <2>1. DiskStep
    BY <1>1, NextIsDiskStep, Zenon
  <2>2. OpenSnapshot(current) \in manifests \/ current = 0
    BY <1>1, AtCurrent, Zenon
  <2>3. CASE UNCHANGED <<manifests, current>>
    BY <2>2, <2>3, Zenon DEF Published
  <2>4. CASE PublishManifest
    <3>1. /\ manifests' = {m \in manifests : m.version # next.version} \cup {next}
          /\ next.version = current + 1 /\ current \in Nat
      BY <1>1, <2>4, Zenon DEF PublishManifest, IInv, Protocol, TypeOK
    <3> QED BY <1>1, <2>2, <3>1, AtCurrent DEF Published
  <2>5. CASE PublishCurrent
    BY <2>2, <2>5, Zenon DEF Published, PublishCurrent
  <2>6. CASE \E x : VacuumManifest(x)
    <3>1. manifests' \subseteq manifests /\ current' = current
          /\ OpenSnapshot(current)' = OpenSnapshot(current)
      <4>1. /\ manifests' \subseteq manifests /\ UNCHANGED <<current, manifest, txn_base, pc>>
            /\ pc # "closed"
        BY <2>6, Zenon DEF VacuumManifest
      <4> QED BY <1>1, <4>1, Zenon DEF IInv, WriterAtCurrent, LastPublished
    <3>2. OpenSnapshot(current) \in manifests' \/ current = 0
      <4>1. (current # 0 => OpenSnapshot(current) \in manifests)'
        BY <1>1, AtCurrentNext, Zenon
      <4> QED BY <3>1, <4>1, Zenon
    <3> QED BY <1>1, <3>1, <3>2 DEF Published, IInv, Protocol, Versions
  <2> QED BY <2>1, <2>3, <2>4, <2>5, <2>6, Zenon DEF DiskStep
<1>2. IInv /\ IInv' /\ [Next]_vars => [Kept]_vars
  BY <1>1, Zenon
<1> QED BY <1>2, Invariant, PTL DEF Spec, TimeTravel

\* The catalog implements the snapshot store: with OpenSnapshot(current) as its
\* head and the published manifests as the snapshots kept, every step is a
\* commit, a discard or invisible.
THEOREM Refinement == Spec => StoreSpec
<1>1. Init => Store!Init
  BY Zenon DEF Init, Store!Init, OpenSnapshot, Published
<1>2. IInv /\ IInv' /\ [Next]_vars => [Store!Next]_<<OpenSnapshot(current), Published>>
  <2> SUFFICES ASSUME IInv, IInv', [Next]_vars
               PROVE  [Store!Next]_<<OpenSnapshot(current), Published>>
    BY Zenon
  <2>1. DiskStep
    BY NextIsDiskStep, Zenon
  <2>2. (current # 0 => OpenSnapshot(current) \in manifests)'
    BY AtCurrentNext, Zenon
  <2>3. CASE UNCHANGED <<OpenSnapshot(current), Published, current>>
    BY <2>3, Zenon
  <2>4. CASE /\ OpenSnapshot(current)'.version = OpenSnapshot(current).version + 1
             /\ Published' = Published \cup {OpenSnapshot(current)'}
    BY <2>4, Zenon DEF Store!Next, Store!Commit
  <2>5. CASE /\ Published' \subseteq Published
             /\ UNCHANGED <<OpenSnapshot(current), current>>
             /\ manifests' \subseteq manifests
    <3>1. ASSUME OpenSnapshot(current) \in Published PROVE OpenSnapshot(current) \in Published'
      <4>1. current # 0 /\ OpenSnapshot(current).version = current /\ current \in Nat
        BY <3>1, AtCurrent, EmptyManifestFacts DEF Published, IInv, Protocol, TypeOK, EmptyManifest
      <4> QED BY <2>2, <2>5, <4>1 DEF Published
    <3> QED BY <2>5, <3>1, Zenon DEF Store!Next, Store!Discard
  <2> QED BY <2>1, <2>3, <2>4, <2>5, StoreStep, Zenon
<1> QED BY <1>1, <1>2, Invariant, PTL DEF Spec, StoreSpec, Store!Spec

-----------------------------------------------------------------------------
(***************************************************************************)
(* What a manifest says of its tables: the statistics are those of the     *)
(* rows they hold.                                                         *)
(***************************************************************************)
ExactEntry(t) == t.kind = "managed" /\ t.analyzed # None => t.analyzed = RowCount(t.files)

Exact(m) == \A n \in Names : HasTable(m, n) => ExactEntry(m.tables[n])

\* Every manifest on disk and in memory; in particular the base of a
\* transaction and the manifest being published, which come back later.
Held == manifests \cup ({manifest, txn_base, next} \ {None})

HeldExact == \A m \in Held : Exact(m)

\* iter solves the recursion behind RowCount over the subsets of S.
RowSum(S, iter) ==
  iter = [s \in SUBSET S |-> IF s = {} THEN 0
                             ELSE (CHOOSE x \in s : TRUE).rows + iter[s \ {CHOOSE x \in s : TRUE}]]

\* RowCount is computed by that recursion.
LEMMA RowCountIs ==
  ASSUME NEW S, NEW f, RowSum(S, f)
  PROVE  \E iter : RowSum(S, iter) /\ RowCount(S) = iter[S]
<1>1. PICK w : w = CHOOSE iter : RowSum(S, iter)
  BY Zenon
<1>2. RowSum(S, w)
  BY <1>1, Zenon
<1>3. RowCount(S) = w[S]
  BY <1>1, Zenon DEF RowCount, MapThenSumSet, MapThenFoldSet, RowSum
<1> QED BY <1>2, <1>3, Zenon

\* No file, no rows.
LEMMA NoRows == RowCount({}) = 0
<1> DEFINE f == [s \in SUBSET {} |-> 0]
<1>1. RowSum({}, f)
  BY Zenon DEF RowSum
<1>2. PICK iter : RowSum({}, iter) /\ RowCount({}) = iter[{}]
  BY <1>1, RowCountIs, Zenon
<1> QED BY <1>2, Zenon DEF RowSum

\* A single file has its own rows: what compaction writes holds what it read.
LEMMA RowsOfOne ==
  ASSUME NEW d, d.rows \in Nat
  PROVE  RowCount({d}) = d.rows
<1> DEFINE f == [s \in SUBSET {d} |-> IF s = {} THEN 0 ELSE d.rows]
<1>1. \A s \in SUBSET {d} : s = {} \/ s = {d}
  BY Zenon
<1>2. (CHOOSE x \in {d} : TRUE) = d
  BY Zenon
<1>3. RowSum({d}, f)
  <2>1. ASSUME NEW s \in SUBSET {d}
        PROVE  f[s] = IF s = {} THEN 0
                      ELSE (CHOOSE x \in s : TRUE).rows + f[s \ {CHOOSE x \in s : TRUE}]
    <3>1. CASE s = {}
      BY <3>1, Zenon
    <3>2. CASE s = {d}
      <4>1. f[s] = d.rows
        BY <3>2, Zenon
      <4>2. s \ {CHOOSE x \in s : TRUE} = {}
        BY <3>2, <1>2, Zenon
      <4>3. f[{}] = 0
        BY Zenon
      <4> QED BY <3>2, <4>1, <4>2, <4>3, <1>2
    <3> QED BY <3>1, <3>2, <1>1, Zenon
  <2> QED BY <2>1, Zenon DEF RowSum
<1>4. PICK iter : RowSum({d}, iter) /\ RowCount({d}) = iter[{d}]
  BY <1>3, RowCountIs, Zenon
<1>5. iter[{}] = 0
  BY <1>4, Zenon DEF RowSum
<1>6. iter[{d}] = d.rows + iter[{}]
  BY <1>2, <1>4 DEF RowSum
<1> QED BY <1>4, <1>5, <1>6

\* Only the tables matter.
LEMMA SameExact ==
  ASSUME NEW m, NEW r, r.tables = m.tables, Exact(m)
  PROVE  Exact(r)
BY Zenon DEF Exact, HasTable

LEMMA EmptyExact == Exact(EmptyManifest)
BY Zenon DEF Exact, HasTable, EmptyManifest

\* A new number does not matter.
LEMMA NumberedExact ==
  ASSUME NEW m, NEW v, [m EXCEPT !.version = v] \in ManifestType, Exact(m)
  PROVE  Exact([m EXCEPT !.version = v])
<1> DEFINE r == [m EXCEPT !.version = v]
<1>1. DOMAIN r = {"version", "next_table_id", "tables", "views"}
  BY Zenon DEF ManifestType
<1>2. DOMAIN r = DOMAIN m
  BY Zenon
<1>3. r.tables = m.tables
  BY <1>1, <1>2, Zenon
<1> HIDE DEF r
<1>4. Exact(r)
  BY <1>3, SameExact, Zenon
<1> QED BY <1>4, Zenon DEF r

\* An entry replaced by one with exact statistics, or by none.
LEMMA WithTableExact ==
  ASSUME NEW m \in ManifestType, NEW n \in Names, NEW t, Exact(m),
         t # None => ExactEntry(t)
  PROVE  Exact(WithTable(m, n, t))
<1> DEFINE r == WithTable(m, n, t)
<1>1. \A x \in Names : r.tables[x] = IF x = n THEN t ELSE m.tables[x]
  BY Zenon DEF WithTable, ManifestType
<1> HIDE DEF r
<1>2. Exact(r)
  BY <1>1, Zenon DEF Exact, HasTable
<1> QED BY <1>2, Zenon DEF r

\* New rows: the statistics are forgotten.
LEMMA SetRowsExact ==
  ASSUME NEW m \in ManifestType, NEW n \in Names, HasTable(m, n), Exact(m), NEW S
  PROVE  Exact(SetRows(m, n, S))
<1> DEFINE t == [m.tables[n] EXCEPT !.files = S, !.table_version = @ + 1, !.analyzed = None]
<1>1. m.tables[n] \in TableMeta
  BY TableFacts, Zenon
<1>2. t.analyzed = None
  BY <1>1, Zenon DEF TableMeta
<1>3. SetRows(m, n, S) = WithTable(m, n, t)
  BY Zenon DEF SetRows
<1> HIDE DEF t
<1> QED BY <1>2, <1>3, WithTableExact, Zenon DEF ExactEntry

\* A new table has no statistics.
LEMMA NewTableExact ==
  ASSUME NEW m \in ManifestType, NEW n \in Names, Exact(m), NEW kind, NEW fs
  PROVE  Exact(NewTable(m, n, kind, fs))
<1> DEFINE t == [id |-> m.next_table_id, kind |-> kind, files |-> fs,
                 table_version |-> 1, analyzed |-> None]
           r == NewTable(m, n, kind, fs)
<1>1. t.analyzed = None
  BY Zenon
<1>2. \A x \in Names : r.tables[x] = IF x = n THEN t ELSE m.tables[x]
  BY Zenon DEF NewTable, WithTable, ManifestType
<1> HIDE DEF r, t
<1>3. Exact(r)
  BY <1>1, <1>2, Zenon DEF Exact, ExactEntry, HasTable
<1> QED BY <1>3, Zenon DEF r

\* The renamed table takes its files and statistics along.
LEMMA RenameTableExact ==
  ASSUME NEW m \in ManifestType, NEW old \in Names, NEW new \in Names, HasTable(m, old), Exact(m)
  PROVE  Exact(RenameTable(m, old, new))
<1> DEFINE t == [m.tables[old] EXCEPT !.table_version = @ + 1]
           r == RenameTable(m, old, new)
<1>1. m.tables[old] \in TableMeta /\ ExactEntry(m.tables[old])
  BY TableFacts, Zenon DEF Exact
<1>2. /\ t.analyzed = m.tables[old].analyzed
      /\ t.kind = m.tables[old].kind /\ t.files = m.tables[old].files
  BY <1>1, Zenon DEF TableMeta
<1>3. \A x \in Names : r.tables[x] = IF x = new THEN t ELSE IF x = old THEN None ELSE m.tables[x]
  BY Zenon DEF RenameTable, DropTable, WithTable, ManifestType
<1> HIDE DEF r, t
<1>4. ExactEntry(t)
  BY <1>1, <1>2, Zenon DEF ExactEntry
<1>5. Exact(r)
  BY <1>3, <1>4, Zenon DEF Exact, HasTable
<1> QED BY <1>5, Zenon DEF r

\* What compaction writes has the rows it read.
LEMMA CompactedRows ==
  ASSUME NEW id, NEW version, NEW rows, NEW fs \in WriteFiles(id, version, rows)
  PROVE  RowCount(fs) = rows
<1>1. CASE rows = 0
  <2>1. fs = {}
    BY <1>1, Zenon DEF WriteFiles
  <2> QED BY <1>1, <2>1, NoRows, Zenon
<1>2. CASE rows # 0
  <2> DEFINE path(k) == [id |-> id, version |-> version, k |-> k]
  <2>1. PICK k \in 0 .. MaxFiles : rows \in 1 .. MaxRows /\ fs = {[path |-> path(k), rows |-> rows]}
    BY <1>2, Zenon DEF WriteFiles
  <2>2. [path |-> path(k), rows |-> rows].rows = rows /\ rows \in Nat
    BY <2>1, CatalogAssumption
  <2> HIDE DEF path
  <2> QED BY <2>1, <2>2, RowsOfOne, Zenon
<1> QED BY <1>1, <1>2, Zenon

\* Every operation hands Commit a manifest with exact statistics.
LEMMA OperationExact ==
  ASSUME TypeOK, Exact(manifest), Operation
  PROVE  \E m : Commit(m) /\ Exact(m)
<1>1. manifest \in ManifestType
  BY Zenon DEF TypeOK
<1>2. PICK n \in Names :
        \/ \E rows \in RowCounts :
             \/ CreateTable(n, rows)
             \/ Append(n, rows)
             \/ ReplaceTable(n, rows) \/ ReplaceContents(n, rows)
             \/ \E remove \in SUBSET files : RewriteFiles(n, remove, rows)
        \/ CreateExternalTable(n)
        \/ Truncate(n)
        \/ Drop(n)
        \/ SetStatistics(n)
        \/ \E resort \in BOOLEAN : Compact(n, resort)
        \/ \E new \in Names : Rename(n, new)
        \/ \E deps \in ViewDeps : StoreView(n, deps)
        \/ DeleteView(n)
  BY Zenon DEF Operation
<1>3. CASE CreateExternalTable(n) \/ \E rows : CreateTable(n, rows)
  <2>1. \E kind, fs : Commit(NewTable(manifest, n, kind, fs))
    BY <1>3, Zenon DEF CreateExternalTable, CreateTable
  <2> QED BY <1>1, <2>1, NewTableExact, Zenon
<1>4. CASE \/ Truncate(n)
           \/ \E rows, remove : \/ Append(n, rows) \/ ReplaceTable(n, rows)
                                \/ ReplaceContents(n, rows) \/ RewriteFiles(n, remove, rows)
  <2>1. HasTable(manifest, n) /\ \E S : Commit(SetRows(manifest, n, S))
    BY <1>4, Zenon DEF Truncate, Append, ReplaceTable, ReplaceContents, RewriteFiles, AppendRows,
                RewriteRows, IsManaged
  <2> QED BY <1>1, <2>1, SetRowsExact, Zenon
<1>5. CASE Drop(n)
  <2>1. Commit(WithTable(manifest, n, None))
    BY <1>5, Zenon DEF Drop, DropTable
  <2> QED BY <1>1, <2>1, WithTableExact, Zenon
<1>6. CASE SetStatistics(n)
  <2>1. PICK stats : /\ Commit(RecordStatistics(manifest, n, stats))
                     /\ IsManaged(manifest, n) => stats = RowCount(manifest.tables[n].files)
    BY <1>6, Zenon DEF SetStatistics
  <2>2. HasTable(manifest, n) /\ manifest.tables[n] \in TableMeta
    BY <1>1, <1>6, TableFacts, Zenon DEF SetStatistics
  <2> DEFINE t == [manifest.tables[n] EXCEPT !.analyzed = stats]
  <2>3. /\ t.analyzed = stats
        /\ t.kind = manifest.tables[n].kind /\ t.files = manifest.tables[n].files
    BY <2>2, Zenon DEF TableMeta
  <2>4. RecordStatistics(manifest, n, stats) = WithTable(manifest, n, t)
    BY Zenon DEF RecordStatistics
  <2> HIDE DEF t
  <2>5. ExactEntry(t)
    BY <2>1, <2>2, <2>3, Zenon DEF ExactEntry, IsManaged
  <2> QED BY <1>1, <2>1, <2>2, <2>3, <2>4, <2>5, WithTableExact, Zenon
<1>7. CASE \E resort \in BOOLEAN : Compact(n, resort)
  <2>1. PICK fs \in WriteTo(n, RowCount(manifest.tables[n].files)) :
          Commit(CompactRows(manifest, n, fs))
    BY <1>7, Zenon DEF Compact
  <2>2. HasTable(manifest, n) /\ manifest.tables[n] \in TableMeta
    BY <1>1, <1>7, TableFacts, Zenon DEF Compact, IsManaged
  <2>3. PICK rows : rows = RowCount(manifest.tables[n].files)
    BY Zenon
  <2>4. RowCount(fs) = RowCount(manifest.tables[n].files)
    BY <2>1, <2>3, CompactedRows DEF WriteTo
  <2> DEFINE t == [manifest.tables[n] EXCEPT !.files = fs]
  <2>5. /\ t.analyzed = manifest.tables[n].analyzed
        /\ t.kind = manifest.tables[n].kind /\ t.files = fs
    BY <2>2, Zenon DEF TableMeta
  <2>6. CompactRows(manifest, n, fs) = WithTable(manifest, n, t)
    BY Zenon DEF CompactRows
  <2> HIDE DEF t
  <2>7. ExactEntry(manifest.tables[n])
    BY <2>2, Zenon DEF Exact
  <2>8. ExactEntry(t)
    BY <2>4, <2>5, <2>7, Zenon DEF ExactEntry
  <2> QED BY <1>1, <2>1, <2>2, <2>5, <2>6, <2>8, WithTableExact, Zenon
<1>8. CASE \E new \in Names : Rename(n, new)
  <2>1. PICK new \in Names : HasTable(manifest, n) /\ Commit(RenameTable(manifest, n, new))
    BY <1>8, Zenon DEF Rename
  <2> QED BY <1>1, <2>1, RenameTableExact, Zenon
<1>9. CASE DeleteView(n) \/ \E deps \in ViewDeps : StoreView(n, deps)
  <2>1. \E v : Commit(PutView(manifest, n, v))
    BY <1>9, Zenon DEF DeleteView, StoreView, PutView, RemoveView
  <2>2. ASSUME NEW v PROVE Exact(PutView(manifest, n, v))
    <3>1. PutView(manifest, n, v).tables = manifest.tables
      BY <1>1, Zenon DEF PutView, ManifestType
    <3> QED BY <3>1, SameExact, Zenon
  <2> QED BY <2>1, <2>2, Zenon
<1> QED BY <1>2, <1>3, <1>4, <1>5, <1>6, <1>7, <1>8, <1>9, Zenon

\* What a manifest held after a step has to be.
LEMMA HeldStep ==
  ASSUME HeldExact, \A m \in Held' : m \in Held \/ Exact(m)
  PROVE  HeldExact'
<1> SUFFICES ASSUME NEW m \in Held' PROVE Exact(m)
  BY Zenon DEF HeldExact
<1> QED BY Zenon DEF HeldExact

\* Commit keeps the manifest it is given, under a new number.
LEMMA CommitExact ==
  ASSUME TypeOK', HeldExact, NEW m, Commit(m), Exact(m)
  PROVE  HeldExact'
<1>1. PICK v, r : /\ r = [m EXCEPT !.version = v]
                  /\ manifests' = manifests /\ txn_base' = txn_base
                  /\ \/ next' = next /\ manifest' = r
                     \/ manifest' = manifest /\ next' = r
  BY Zenon DEF Commit
<1>2. r \in Held' => Exact(r)
  <2>1. r # None => r \in ManifestType
    BY <1>1, Zenon DEF TypeOK
  <2>2. r \in Held' => r \in ManifestType
    BY <2>1, Zenon DEF Held, TypeOK
  <2> QED BY <1>1, <2>2, NumberedExact, Zenon
<1>3. \A x \in Held' : x \in Held \/ x = r
  BY <1>1, Zenon DEF Held
<1> QED BY <1>2, <1>3, HeldStep, Zenon

\* Every step keeps the statistics of every manifest exact.
LEMMA NextExact == IInv /\ HeldExact /\ [Next]_vars => HeldExact'
<1> SUFFICES ASSUME IInv, HeldExact, [Next]_vars PROVE HeldExact'
  BY Zenon
<1>1. /\ manifest \in Held /\ Exact(manifest) /\ manifest \in ManifestType
      /\ txn_base # None => txn_base \in Held /\ txn_base \in ManifestType
      /\ next # None => next \in Held /\ next \in ManifestType
  BY CatalogAssumption, Zenon DEF IInv, TypeOK, Held, HeldExact
<1>2. CASE Open
  <2>1. OpenSnapshot(current) \in manifests \/ OpenSnapshot(current) = EmptyManifest
    BY AtCurrent, Zenon
  <2>2. OpenSnapshot(current) \in Held \/ Exact(OpenSnapshot(current))
    BY <2>1, EmptyExact, EmptyManifestFacts, CatalogAssumption, Zenon DEF Held
  <2>3. \A x \in Held' : x \in Held \/ x = OpenSnapshot(current)
    BY <1>2, Zenon DEF Open, Held
  <2> QED BY <2>2, <2>3, HeldStep, Zenon
<1>3. CASE Close \/ Crash
  <2>1. manifests' = manifests /\ manifest' = EmptyManifest /\ txn_base' = None /\ next' = None
    BY <1>3, Zenon DEF Close, Crash, Forget, disk
  <2>2. \A x \in Held' : x \in Held \/ x = EmptyManifest
    BY <2>1, Zenon DEF Held
  <2> QED BY <2>2, EmptyExact, HeldStep, Zenon
<1>4. CASE Operation
  <2>1. PICK m : Commit(m) /\ Exact(m)
    BY <1>1, <1>4, OperationExact, Zenon DEF IInv
  <2>2. TypeOK'
    BY NextInv, Zenon DEF IInv
  <2> QED BY <2>1, <2>2, CommitExact, Zenon
<1>5. CASE PublishManifest \/ PublishCurrent \/ PublishFails
  <2>1. next # None
    BY <1>5, Zenon DEF PublishManifest, PublishCurrent, PublishFails, IInv, Protocol
  <2>2. \A x \in Held' : x \in Held
    BY <1>1, <1>5, <2>1 DEF PublishManifest, PublishCurrent, PublishFails, Held, disk
  <2> QED BY <2>2, HeldStep, Zenon
<1>6. CASE Begin \/ RollbackTransaction
  <2>1. \A x \in Held' : x \in Held
    BY <1>1, <1>6, Zenon DEF Begin, RollbackTransaction, Held, disk
  <2> QED BY <2>1, HeldStep, Zenon
<1>7. CASE CommitTransaction
  <2>1. \A v \in Nat : Exact([manifest EXCEPT !.version = v])
    <3>1. \A v \in Nat : [manifest EXCEPT !.version = v] \in ManifestType
      BY <1>1, Zenon DEF ManifestType
    <3> QED BY <1>1, <3>1, NumberedExact, Zenon
  <2>2. \A x \in Held' : x \in Held \/ \E v \in Nat : x = [manifest EXCEPT !.version = v]
    <3>1. txn_base # None /\ txn_base.version + 1 \in Nat
      BY <1>1, <1>7 DEF CommitTransaction, ManifestType
    <3> QED BY <1>1, <1>7, <3>1, Zenon DEF CommitTransaction, Held, disk
  <2> QED BY <2>1, <2>2, HeldStep, Zenon
<1>8. CASE \/ RemoveStaleLock
           \/ \E id \in 1 .. MaxTableId, rows \in RowCounts : FailedWrite(id, rows)
           \/ \E keep \in 0 .. MaxVersion : Vacuum(keep)
           \/ \E x \in todo : VacuumManifest(x) \/ VacuumFile(x)
           \/ VacuumScan \/ VacuumReturns \/ VacuumFails
           \/ UNCHANGED vars
  <2>1. manifests' \subseteq manifests /\ UNCHANGED <<manifest, txn_base, next>>
    BY <1>8, Zenon DEF RemoveStaleLock, FailedWrite, Vacuum, VacuumManifest, VacuumFile, VacuumScan,
                VacuumReturns, VacuumFails, vars, disk, process
  <2>2. \A x \in Held' : x \in Held
    BY <2>1, Zenon DEF Held
  <2> QED BY <2>2, HeldStep, Zenon
<1> QED
  BY <1>2, <1>3, <1>4, <1>5, <1>6, <1>7, <1>8, Zenon DEF Next

\* The statistics are exact in every manifest the catalog holds, the base of a
\* transaction and a manifest on its way to disk included.
THEOREM ManifestsExact == Spec => []HeldExact
<1>1. Init => HeldExact
  BY EmptyExact, Zenon DEF Init, HeldExact, Held
<1>2. IInv /\ HeldExact /\ [Next]_vars => HeldExact'
  BY NextExact, Zenon
<1> QED BY <1>1, <1>2, Invariant, PTL DEF Spec

\* The row count ANALYZE recorded is the row count of the files the table is
\* made of, in every snapshot: no operation changes rows and keeps it.
THEOREM StatisticsCurrent == Spec => []StatisticsExact
<1>1. IInv /\ HeldExact => StatisticsExact
  <2> SUFFICES ASSUME IInv, HeldExact, NEW m \in manifests \cup {manifest}, NEW n \in Names,
                      IsManaged(m, n), m.tables[n].analyzed # None
               PROVE  m.tables[n].analyzed = RowCount(m.tables[n].files)
    BY Zenon DEF StatisticsExact
  <2>1. Exact(m)
    BY CatalogAssumption, Zenon DEF IInv, TypeOK, HeldExact, Held
  <2> QED BY <2>1, Zenon DEF Exact, ExactEntry, IsManaged
<1> QED BY <1>1, Invariant, ManifestsExact, PTL
=============================================================================
