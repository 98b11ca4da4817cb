------------------------------ MODULE MCCatalog ------------------------------
(* The catalog on small instances: the names are interchangeable. *)
EXTENDS Catalog, TLC

Symmetry == Permutations(Names)

\* The manifests on disk and in memory.
AnyManifest == manifests \cup ({manifest, txn_base, next} \ {None})

\* Two names and one data file, or one name and one table id to spare with two.
Small ==
  \/ Cardinality(files) <= 1
  \/ /\ Cardinality({n \in Names : \E m \in AnyManifest : m.tables[n] # None}) <= 1
     /\ \A m \in AnyManifest : m.next_table_id <= 2
=============================================================================
