------------------------------ MODULE MCViews ------------------------------
(***************************************************************************)
(* Instances of Views: t is a table, v and w are views.                    *)
(***************************************************************************)
EXTENDS Views

\* One view, refreshed by hand.
OneView ==
  [queries |-> [t |-> {}, v |-> {{"t"}}], aggregates |-> {"v"},
   on_commit |-> {}, scheduled |-> {}, replaceable |-> {}, faults |-> {},
   max_files |-> 6, max_version |-> 4, max_drops |-> 0]

\* A crash may come in the middle of a statement.
Torn == {[OneView EXCEPT !.faults = {"crash"}]}

\* The table is dropped and created again.
Recreated == {[OneView EXCEPT !.replaceable = {"t"}, !.max_drops = 1]}

\* w reads v, or has v's query; no statement is interrupted, and tables are
\* dropped, replaced and created again.
Mixed ==
  [queries |-> [t |-> {}, v |-> {{"t"}}, w |-> {{"v"}, {"t"}}], aggregates |-> {"v", "w"},
   on_commit |-> {"v"}, scheduled |-> {"w"}, replaceable |-> {"t", "v"}, faults |-> {},
   max_files |-> 6, max_version |-> 4, max_drops |-> 1]

\* w reads v, both are refreshed on commit, and errors and crashes interrupt
\* statements.
Chain ==
  [queries |-> [t |-> {}, v |-> {{"t"}}, w |-> {{"v"}}], aggregates |-> {"v"},
   on_commit |-> {"v", "w"}, scheduled |-> {}, replaceable |-> {},
   faults |-> {"crash", "error"}, max_files |-> 5, max_version |-> 3, max_drops |-> 0]

MixedAndChain == {Mixed, Chain}
=============================================================================
