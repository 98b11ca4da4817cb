------------------------------ MODULE Manifest ------------------------------
(***************************************************************************)
(* A catalog snapshot (storage/catalog.rs) as a value, and what each       *)
(* operation of Catalog does to the copy of the manifest it works on.      *)
(*                                                                         *)
(* A manifest is the complete table and view list.  The BTreeMaps are      *)
(* total functions over Names with None for an absent entry.  A data file  *)
(* is its path and its rows: the path is table id, version number and part *)
(* number, the three numbers of data/<id>/part-<version>-<k>.parquet.      *)
(* Column lists, clustering keys, byte sizes and the format number carry   *)
(* no control and are left out; analyzed keeps the row count ANALYZE       *)
(* recorded.                                                               *)
(***************************************************************************)
EXTENDS Naturals, FiniteSets, FiniteSetsExt

CONSTANTS Names,      \* table and view names
          None        \* an absent entry (Option::None)

FilePath == [id : Nat, version : Nat, k : Nat]

DataFile == [path : FilePath, rows : Nat]

TableKind == {"managed", "external"}

TableMeta == [id : Nat, kind : TableKind, files : SUBSET DataFile,
              table_version : Nat, analyzed : Nat \cup {None}]

ViewMeta == [dependencies : SUBSET Names]

ManifestType == [version : Nat, next_table_id : Nat,
                 tables : [Names -> TableMeta \cup {None}],
                 views : [Names -> ViewMeta \cup {None}]]

EmptyManifest == [version |-> 0, next_table_id |-> 1,
                  tables |-> [n \in Names |-> None],
                  views |-> [n \in Names |-> None]]

HasTable(m, n) == m.tables[n] # None

IsManaged(m, n) == HasTable(m, n) /\ m.tables[n].kind = "managed"

NameTaken(m, n) == HasTable(m, n) \/ m.views[n] # None

RowCount(fs) == MapThenSumSet(LAMBDA f : f.rows, fs)

\* Every data file some table of the manifest is made of.
FilesOf(m) == UNION {m.tables[n].files : n \in {x \in Names : HasTable(m, x)}}

(***************************************************************************)
(* The change each operation makes to its copy of the manifest; fs are the *)
(* files write_files produced for it.                                      *)
(***************************************************************************)
WithTable(m, n, t) == [m EXCEPT !.tables[n] = t]

NewTable(m, n, kind, fs) ==
  WithTable([m EXCEPT !.next_table_id = @ + 1], n,
            [id |-> m.next_table_id, kind |-> kind, files |-> fs,
             table_version |-> 1, analyzed |-> None])

\* Mutant of SetRows: the statistics stay.
SetRowsKeepsStatistics(m, n, fs) ==
  WithTable(m, n, [m.tables[n] EXCEPT !.files = fs, !.table_version = @ + 1])

\* The table holds fs from now on: one more data version, no statistics.
SetRows(m, n, fs) ==
  WithTable(m, n, [m.tables[n] EXCEPT !.files = fs, !.table_version = @ + 1,
                                      !.analyzed = None])

AppendRows(m, n, fs) == SetRows(m, n, m.tables[n].files \cup fs)

RewriteRows(m, n, remove, fs) == SetRows(m, n, (m.tables[n].files \ remove) \cup fs)

\* Compaction keeps the rows, the data version and the statistics.
CompactRows(m, n, fs) == WithTable(m, n, [m.tables[n] EXCEPT !.files = fs])

RecordStatistics(m, n, stats) == WithTable(m, n, [m.tables[n] EXCEPT !.analyzed = stats])

DropTable(m, n) == WithTable(m, n, None)

RenameTable(m, old, new) ==
  WithTable(DropTable(m, old), new, [m.tables[old] EXCEPT !.table_version = @ + 1])

PutView(m, n, v) == [m EXCEPT !.views[n] = v]

RemoveView(m, n) == [m EXCEPT !.views[n] = None]

\* A materialized view that reads table n.
DependentViews(m, n) == {v \in Names : m.views[v] # None /\ n \in m.views[v].dependencies}

(***************************************************************************)
(* commit_concurrent: a three-way merge, entry by entry, of what the       *)
(* transaction changed (base -> work) into what was committed meanwhile.   *)
(***************************************************************************)
Conflicts(base, work, committed) ==
  {n \in DOMAIN base : base[n] # work[n] /\ committed[n] # base[n]}

MergeEntries(base, work, committed) ==
  [n \in DOMAIN base |-> IF base[n] # work[n] THEN work[n] ELSE committed[n]]

\* Mutant of MergeManifests: the counter stays at the committed one.
MergeManifestsOldCounter(base, work, committed) ==
  [committed EXCEPT
     !.tables = MergeEntries(base.tables, work.tables, @),
     !.views = MergeEntries(base.views, work.views, @)]

MergeManifests(base, work, committed) ==
  [committed EXCEPT
     !.tables = MergeEntries(base.tables, work.tables, @),
     !.views = MergeEntries(base.views, work.views, @),
     !.next_table_id = IF work.next_table_id > @ THEN work.next_table_id ELSE @]
=============================================================================
