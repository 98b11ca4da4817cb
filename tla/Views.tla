------------------------------- MODULE Views -------------------------------
(***************************************************************************)
(* Durable materialized views (exec/engine_views.rs) over catalog tables,  *)
(* outside transactions: creating, dropping and refreshing them, in full   *)
(* or from the appended files only, by hand, on commit or on a schedule.   *)
(*                                                                         *)
(* A statement runs alone, but it is several catalog commits, and an error *)
(* or the end of the process can come between two of them: op is what the  *)
(* running statement does next.                                            *)
(*                                                                         *)
(* Rows are a bag of symbolic rows: a base file holds one row, named after *)
(* the file; a view's query is the sum of what it reads, so it counts every*)
(* row once (SUM and COUNT behave so).  Two views that read the same       *)
(* tables have the same query.                                             *)
(***************************************************************************)
EXTENDS Naturals, FiniteSets, Functions

CONSTANTS Names,    \* table and view names
          Settings, \* what varies from one deployment to another: see SettingType
          None,     \* an absent entry
          MaxFiles  \* bound: data files written in any setting

\* The definitions a view may get, as the sets of tables they read; the views
\* whose query has the incremental shape; those refreshed on commit and on a
\* schedule (the others by hand); the names CREATE OR REPLACE TABLE is used with;
\* what may happen in the middle of a statement; and the bounds on data files
\* written, data versions of a table, and tables dropped.
SettingType ==
  [queries : [Names -> SUBSET SUBSET Names], aggregates : SUBSET Names,
   on_commit : SUBSET Names, scheduled : SUBSET Names, replaceable : SUBSET Names,
   faults : SUBSET {"crash", "error"},
   max_files : 0 .. MaxFiles, max_version : Nat, max_drops : Nat]

\* ViewDef.  The maps are total, with None or nothing for tables it does not
\* read; ids is history.
ViewDef ==
  [dependencies : SUBSET Names,
   base : [base_versions : [Names -> Nat \cup {None}], base_files : [Names -> SUBSET Nat]],
   ids : [Names -> Nat \cup {None}]]

\* How often each row occurs.
Bag == [1 .. MaxFiles -> Nat]

TableMeta == [id : Nat, version : Nat, files : SUBSET [path : Nat, rows : Bag]]

ASSUME ViewsAssumption ==
  /\ IsFiniteSet(Names) /\ MaxFiles \in Nat
  /\ None \notin Nat \cup TableMeta \cup ViewDef
  /\ \A s \in Settings : s \in SettingType /\ s.scheduled \cap s.on_commit = {}

VARIABLES setting,
          tables,   \* tables of the published snapshot
          metas,    \* views of the published snapshot
          views,    \* Engine::views
          op,       \* the running statement
          written,  \* data files written so far
          drops     \* tables dropped so far

vars == <<setting, tables, metas, views, op, written, drops>>

Queries == setting.queries
Aggregates == setting.aggregates
OnCommit == setting.on_commit
Scheduled == setting.scheduled
Replaceable == setting.replaceable
Faults == setting.faults
MaxVersion == setting.max_version
MaxDrops == setting.max_drops

HasTable(n) == tables[n] # None

Paths(n) == {f.path : f \in tables[n].files}

NoRows == [r \in 1 .. MaxFiles |-> 0]

Plus(a, b) == [r \in 1 .. MaxFiles |-> a[r] + b[r]]

\* The sum of a family of bags.
Total(bags) == FoldFunction(Plus, NoRows, bags)

Contents(fs) == Total([f \in fs |-> f.rows])

Rows(n) == Contents(tables[n].files)

(***************************************************************************)
(* The catalog operations views are built on.                              *)
(***************************************************************************)
NewFile(rows) == [path |-> written + 1, rows |-> rows]

\* The one row of the base file being written.
NewRow == [NoRows EXCEPT ![written + 1] = 1]

CanWrite == written < setting.max_files

CreateTable(n, fs) ==
  tables' = [tables EXCEPT ![n] = [id |-> written + 1, version |-> 1, files |-> fs]]

\* Catalog::create_table takes no name of a table or a view.
NameFree(n) == ~HasTable(n) /\ metas[n] = None

SetRows(n, fs) ==
  /\ tables[n].version < MaxVersion
  /\ tables' = [tables EXCEPT ![n].files = fs, ![n].version = @ + 1]

(***************************************************************************)
(* Staleness.                                                              *)
(***************************************************************************)
TableVersion(n) == IF HasTable(n) THEN tables[n].version ELSE None

\* What a definition records of the tables it reads.
Snapshot(deps) ==
  [base_versions |-> [n \in Names |-> IF n \in deps THEN TableVersion(n) ELSE None],
   base_files |-> [n \in Names |-> IF n \in deps THEN Paths(n) ELSE {}]]

\* ids is history: of the tables its rows were computed from.
NewDef(deps, ids) == [dependencies |-> deps, base |-> Snapshot(deps), ids |-> ids]

Ids(deps) == [n \in Names |-> IF n \in deps THEN tables[n].id ELSE None]

IsView(v) == views[v] # None

Fresh(v) ==
  \A d \in views[v].dependencies : TableVersion(d) = views[v].base.base_versions[d]

\* What the defining query returns when it runs over the tables.
QueryRows(deps) == Total([d \in deps |-> Rows(d)])

MatchingViews(deps) == {v \in Names : IsView(v) /\ views[v].dependencies = deps /\ Fresh(v)}

\* What it may return to a session: the rows of a fresh view with its plan,
\* unless view_rewrite is off.  A view whose rows are gone gives an error.
Answers(deps) ==
  {[rows |-> QueryRows(deps), ids |-> Ids(deps)]}
    \cup {[rows |-> Rows(v), ids |-> views[v].ids] :
             v \in {u \in MatchingViews(deps) : HasTable(u)}}

\* Mutant of CanAppend: files that are gone are not looked for.
CanAppendAlways(v) ==
  v \in Aggregates /\ Cardinality(views[v].dependencies) = 1

\* The tables it reads changed by appends only.
CanAppend(v) ==
  /\ v \in Aggregates
  /\ \E d \in Names :
       /\ views[v].dependencies = {d}
       /\ views[v].base.base_files[d] \subseteq Paths(d)

AddedFiles(v) ==
  UNION {{f \in tables[d].files : f.path \notin views[v].base.base_files[d]} :
           d \in views[v].dependencies}

Refreshed(v) ==
  IF ~Fresh(v) /\ CanAppend(v)
    THEN [rows |-> Plus(Rows(v), Contents(AddedFiles(v))), ids |-> views[v].ids]
    ELSE [rows |-> QueryRows(views[v].dependencies), ids |-> Ids(views[v].dependencies)]

(***************************************************************************)
(* The running statement.  "idle": none; "statement": execute_sql has      *)
(* caught up and the statement itself comes next; "round": the loop of     *)
(* refresh_stale_on_commit_views; "todo": some views to refresh; "save":   *)
(* the rows of a view are committed, its definition is not; "remove",      *)
(* "unlink": drop_view before its two commits; "create", "replace": OR     *)
(* REPLACE has dropped the old view or table.                              *)
(***************************************************************************)
NoOp == [at |-> "idle", view |-> None, def |-> None, todo |-> {}, rounds |-> None,
         next |-> "idle", before |-> None]   \* before: the tables it replaces (history)

At(label) == [NoOp EXCEPT !.at = label]

Start == op.at \in {"idle", "statement"}

\* Mutant of CatchUpThen: one round, whatever reads what.
CatchUpOnce(next) == [NoOp EXCEPT !.at = "round", !.next = next, !.rounds = 1]

\* refresh_stale_on_commit_views begins; what follows it is next.
CatchUpThen(next) ==
  [NoOp EXCEPT !.at = "round", !.next = next,
               !.rounds = Cardinality({v \in Names : IsView(v)}) + 1]

Init ==
  /\ setting \in Settings
  /\ tables = [n \in Names |-> None]
  /\ metas = [n \in Names |-> None]
  /\ views = [n \in Names |-> None]
  /\ op = NoOp
  /\ written = 0
  /\ drops = 0

(***************************************************************************)
(* Statements that change a table.                                         *)
(***************************************************************************)
\* CREATE TABLE [AS]: only as a statement of execute_sql.  Names with a query
\* are kept for views.
CreateBase(n) ==
  /\ NameFree(n) /\ CanWrite
  /\ \E fs \in {{}, {NewFile(NewRow)}} : CreateTable(n, fs)
  /\ written' = written + 1
  /\ op' = NoOp
  /\ UNCHANGED <<setting, metas, views, drops>>

CreateTableAs(n) == op.at = "statement" /\ Queries[n] = {} /\ CreateBase(n)

\* CREATE OR REPLACE TABLE: the old table is dropped, whatever it is.
ReplaceTable(n) ==
  /\ op.at = "statement" /\ n \in Replaceable /\ HasTable(n)
  /\ CanWrite /\ drops < MaxDrops
  /\ tables' = [tables EXCEPT ![n] = None]
  /\ drops' = drops + 1
  /\ op' = [At("replace") EXCEPT !.view = n, !.before = tables]
  /\ UNCHANGED <<setting, metas, views, written>>

ReplaceRows == op.at = "replace" /\ CreateBase(op.view)

\* The catalog refuses the name of a view.
ReplaceError ==
  /\ op.at = "replace" /\ ~NameFree(op.view)
  /\ op' = NoOp
  /\ UNCHANGED <<setting, tables, metas, views, written, drops>>

\* A table a statement may change: views change by REFRESH only.
Writable(n) == Start /\ HasTable(n) /\ ~IsView(n)

Insert(n) ==
  /\ Writable(n) /\ CanWrite
  /\ SetRows(n, tables[n].files \cup {NewFile(NewRow)})
  /\ written' = written + 1
  /\ op' = CatchUpThen("idle")
  /\ UNCHANGED <<setting, metas, views, drops>>

\* DELETE, UPDATE, MERGE, ALTER: some files are replaced by one file or none.
Rewrite(n) ==
  /\ Writable(n) /\ CanWrite
  /\ \E touched \in SUBSET tables[n].files \ {{}}, fs \in {{}, {NewFile(NewRow)}} :
       SetRows(n, (tables[n].files \ touched) \cup fs)
  /\ written' = written + 1
  /\ op' = CatchUpThen("idle")
  /\ UNCHANGED <<setting, metas, views, drops>>

Truncate(n) ==
  /\ Writable(n)
  /\ SetRows(n, {})
  /\ op' = CatchUpThen("idle")
  /\ UNCHANGED <<setting, metas, views, written, drops>>

\* COMPACT TABLE: the same rows in one file, the same data version.  A single
\* file is rewritten too when ORDER BY names a clustering key.
Compact(n) ==
  /\ Start /\ HasTable(n) /\ CanWrite
  /\ tables[n].files # {}
  /\ tables' = [tables EXCEPT ![n].files = {NewFile(Rows(n))}]
  /\ written' = written + 1
  /\ op' = NoOp
  /\ UNCHANGED <<setting, metas, views, drops>>

\* DROP TABLE: the views that read it stay.
DropTable(n) ==
  /\ Writable(n) /\ drops < MaxDrops
  /\ tables' = [tables EXCEPT ![n] = None]
  /\ drops' = drops + 1
  /\ op' = NoOp
  /\ UNCHANGED <<setting, metas, views, written>>

(***************************************************************************)
(* CREATE MATERIALIZED VIEW and DROP MATERIALIZED VIEW.                    *)
(***************************************************************************)
\* create_view once the name is free: the rows are a new catalog table.
CreateRows(v) ==
  /\ NameFree(v) /\ CanWrite
  /\ \E deps \in Queries[v] :
       /\ v \notin deps /\ \A d \in deps : HasTable(d)
       /\ \E a \in Answers(deps) :
            /\ CreateTable(v, {NewFile(a.rows)})
            /\ op' = [At("save") EXCEPT !.view = v, !.def = NewDef(deps, a.ids)]
  /\ written' = written + 1
  /\ UNCHANGED <<setting, metas, views, drops>>

CreateView(v) == Start /\ ~IsView(v) /\ CreateRows(v)

\* drop_view, and OR REPLACE which starts with it: the engine forgets the
\* view first, then come two commits.
DropView(v) ==
  /\ Start /\ IsView(v)
  /\ views' = [views EXCEPT ![v] = None]
  /\ \E next \in {"idle", "create"} :
       op' = [At("remove") EXCEPT !.view = v, !.next = next,
                !.before = IF next = "create" THEN tables ELSE None]
  /\ UNCHANGED <<setting, tables, metas, written, drops>>

\* Mutant of RemoveMeta: the rows go before the definition.
RemoveRowsFirst ==
  /\ op.at = "remove"
  /\ tables' = [tables EXCEPT ![op.view] = None]
  /\ op' = [op EXCEPT !.at = "unlink"]
  /\ UNCHANGED <<setting, metas, views, written, drops>>

RemoveMeta ==
  /\ op.at = "remove"
  /\ metas' = [metas EXCEPT ![op.view] = None]
  /\ op' = [op EXCEPT !.at = "unlink"]
  /\ UNCHANGED <<setting, tables, views, written, drops>>

UnlinkRows ==
  /\ op.at = "unlink"
  /\ tables' = [tables EXCEPT ![op.view] = None]
  /\ op' = IF op.next = "create" THEN [op EXCEPT !.at = "create"] ELSE NoOp
  /\ UNCHANGED <<setting, metas, views, written, drops>>

RecreateView == op.at = "create" /\ CreateRows(op.view)

\* The new query fails or reads a missing table: the old view is gone.
RecreateError ==
  /\ op.at = "create"
  /\ op' = NoOp
  /\ UNCHANGED <<setting, tables, metas, views, written, drops>>

(***************************************************************************)
(* Refreshing.                                                             *)
(***************************************************************************)
Refresh(v) ==
  /\ Start /\ IsView(v)
  /\ op' = [At("todo") EXCEPT !.todo = {v}]
  /\ UNCHANGED <<setting, tables, metas, views, written, drops>>

\* execute_sql catches up on-commit views before a statement.
BeginStatement ==
  /\ op.at = "idle"
  /\ op' = CatchUpThen("statement")
  /\ UNCHANGED <<setting, tables, metas, views, written, drops>>

\* A SELECT, or a statement that is refused, changes nothing.
EndStatement ==
  /\ op.at = "statement"
  /\ op' = NoOp
  /\ UNCHANGED <<setting, tables, metas, views, written, drops>>

\* refresh_due_views, before a statement or from the idle runtime: any of the
\* stale scheduled views may be due.
RefreshDue ==
  /\ Start
  /\ \E due \in SUBSET {v \in Scheduled : IsView(v) /\ ~Fresh(v)} \ {{}} :
       op' = [At("todo") EXCEPT !.todo = due, !.next = op.at]
  /\ UNCHANGED <<setting, tables, metas, views, written, drops>>

StaleOnCommit == {v \in OnCommit : IsView(v) /\ ~Fresh(v)}

\* Views that read no stale on-commit view come first.
ReadyViews == {v \in StaleOnCommit : views[v].dependencies \cap StaleOnCommit = {}}

NextRound ==
  /\ op.at = "round" /\ op.rounds > 0 /\ ReadyViews # {}
  /\ op' = [op EXCEPT !.at = "todo", !.todo = ReadyViews, !.rounds = @ - 1]
  /\ UNCHANGED <<setting, tables, metas, views, written, drops>>

\* refresh_stale_on_commit_views returns.
CaughtUp ==
  /\ op.at = "round" /\ (op.rounds = 0 \/ ReadyViews = {})
  /\ op' = At(op.next)
  /\ UNCHANGED <<setting, tables, metas, views, written, drops>>

CanRefresh(v) == HasTable(v) /\ \A d \in views[v].dependencies : HasTable(d)

\* refresh_view up to its first commit.
RefreshRows(v) ==
  /\ op.at = "todo" /\ v \in op.todo
  /\ CanRefresh(v) /\ CanWrite
  /\ SetRows(v, {NewFile(Refreshed(v).rows)})
  /\ op' = [op EXCEPT !.at = "save", !.view = v, !.todo = @ \ {v},
                      !.def = NewDef(views[v].dependencies, Refreshed(v).ids)]
  /\ written' = written + 1
  /\ UNCHANGED <<setting, metas, views, drops>>

\* A table is missing: the statement fails.
RefreshError(v) ==
  /\ op.at = "todo" /\ v \in op.todo /\ ~CanRefresh(v)
  /\ op' = NoOp
  /\ UNCHANGED <<setting, tables, metas, views, written, drops>>

\* Mutant of SaveView: the definition stays in memory.
SaveInMemory ==
  /\ op.at = "save"
  /\ views' = [views EXCEPT ![op.view] = op.def]
  /\ op' = [op EXCEPT !.at = IF op.todo # {} THEN "todo"
                             ELSE IF op.rounds # None THEN "round" ELSE op.next,
                      !.view = None, !.def = None]
  /\ UNCHANGED <<setting, tables, metas, written, drops>>

\* persist_view, then the engine's own copy: the end of create_view and of
\* refresh_view.
SaveView ==
  /\ op.at = "save"
  /\ metas' = [metas EXCEPT ![op.view] = op.def]
  /\ views' = [views EXCEPT ![op.view] = op.def]
  /\ op' = [op EXCEPT !.at = IF op.todo # {} THEN "todo"
                             ELSE IF op.rounds # None THEN "round" ELSE op.next,
                      !.view = None, !.def = None]
  /\ UNCHANGED <<setting, tables, written, drops>>

(***************************************************************************)
(* The process ends and starts again: load_catalog_views.  In the middle   *)
(* of a statement only where Faults says so; so do errors.                 *)
(***************************************************************************)
Restart ==
  /\ op.at \in {"idle", "statement", "round", "todo"} \/ "crash" \in Faults
  /\ views' = metas
  /\ op' = NoOp
  /\ UNCHANGED <<setting, tables, metas, written, drops>>

\* A commit fails or a table cannot be registered: the statement returns an
\* error and leaves what it has done.
Fail ==
  /\ "error" \in Faults /\ ~Start
  /\ op' = NoOp
  /\ UNCHANGED <<setting, tables, metas, views, written, drops>>

Next ==
  \/ \E n \in Names :
       \/ CreateTableAs(n) \/ ReplaceTable(n) \/ Insert(n) \/ Rewrite(n) \/ Truncate(n)
       \/ Compact(n) \/ DropTable(n)
       \/ CreateView(n) \/ DropView(n) \/ Refresh(n)
       \/ RefreshRows(n) \/ RefreshError(n)
  \/ ReplaceRows \/ ReplaceError \/ RemoveMeta \/ UnlinkRows \/ RecreateView \/ RecreateError
  \/ BeginStatement \/ EndStatement \/ RefreshDue \/ NextRound \/ CaughtUp
  \/ SaveView \/ Restart \/ Fail

Spec == Init /\ [][Next]_vars

(***************************************************************************)
(* Properties.                                                             *)
(***************************************************************************)
\* The running statement has a place to go on from, the view it works on and,
\* between its two commits, the definition it is about to write.
OpType ==
  [at : {"idle", "statement", "round", "todo", "save", "remove", "unlink", "create", "replace"},
   view : Names \cup {None}, def : ViewDef \cup {None}, todo : SUBSET Names,
   rounds : Nat \cup {None}, next : {"idle", "statement", "create"},
   before : [Names -> TableMeta \cup {None}] \cup {None}]

\* The snapshot, the engine's view list and the running statement have their
\* types.
TypeOK ==
  /\ setting \in Settings
  /\ tables \in [Names -> TableMeta \cup {None}]
  /\ metas \in [Names -> ViewDef \cup {None}]
  /\ views \in [Names -> ViewDef \cup {None}]
  /\ op \in OpType
  /\ written \in 0 .. MaxFiles /\ drops \in 0 .. MaxDrops

\* ViewStatus::fresh, and so the answer a query gets from a fresh view: the
\* rows of a view that is reported fresh are what its defining query returns
\* now, whatever appends, rewrites, compactions, refreshes in full or from the
\* added files, and restarts came before.
FreshIsExact ==
  \A v \in Names : IsView(v) /\ HasTable(v) /\ Fresh(v)
                     => Rows(v) = QueryRows(views[v].dependencies)

\* The same as long as no statement is interrupted, and for views whose base
\* tables are the tables they were computed from, not others created later under
\* the same names.
FreshIsExactUnlessRecreated ==
  Faults = {} =>
    \A v \in Names :
      LET def == views[v] IN
      /\ IsView(v) /\ HasTable(v) /\ Fresh(v)
      /\ \A d \in def.dependencies : tables[d].id = def.ids[d]
      => Rows(v) = QueryRows(def.dependencies)

\* after_table_change: when refresh_stale_on_commit_views has returned, every
\* on-commit view is fresh, views over views included.
OnCommitViewsCaughtUp == [][CaughtUp => StaleOnCommit = {}]_vars

\* persist_view, remove_view: between statements, after crashes and errors in the
\* middle of one, every definition the engine works with is the one a restart
\* would load.  (A DROP that fails leaves a view forgotten until then.)
ViewsAreDurable == Start => \A v \in Names : views[v] \in {metas[v], None}

\* No table with the rows of a view is dropped but by DROP MATERIALIZED VIEW: no
\* table is dropped, or no view is named in CREATE OR REPLACE TABLE and no DROP
\* MATERIALIZED VIEW fails half-way, which leaves a view the engine has forgotten.
RowsNotDropped ==
  \/ MaxDrops = 0
  \/ "error" \notin Faults /\ \A n \in Replaceable : Queries[n] = {}

\* create_view commits the rows before the definition and drop_view the
\* definition before the rows: no snapshot, and so no restart, ever shows a
\* view without its rows.
ViewHasRows == RowsNotDropped => \A v \in Names : metas[v] # None => HasTable(v)

\* execute_sql: "a failing statement leaves the tables as the previous statement
\* left them", also when OR REPLACE has dropped something before it fails.
\* (Does not hold: README.)
FailureLeavesTables == [][RecreateError \/ ReplaceError => tables' = op.before]_vars
=============================================================================
