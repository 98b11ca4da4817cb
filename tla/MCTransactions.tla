--------------------------- MODULE MCTransactions ---------------------------
(* Transactions on a small instance. *)
EXTENDS Transactions, TLC

Symmetry == Permutations(Sessions) \cup Permutations(SavepointNames)

\* The transactions that are open, installed or parked.
OpenTxns ==
  ({engine.txn} \cup {engine.parked[s].txn : s \in {u \in Sessions : engine.parked[u] # None}}) \ {None}

\* Two transactions without savepoints and with views, or one with savepoints and
\* without views; at most one savepoint when another session's statements come
\* in between.
Small ==
  \/ \A t \in OpenTxns : t.savepoints = <<>>
  \/ /\ Cardinality(OpenTxns) = 1
     /\ engine.txn = None => \A t \in OpenTxns : Len(t.savepoints) = 1
     /\ \A n \in ViewNames : engine.scans[n] = None /\ published.tables[n] = None
=============================================================================
