------------------------- MODULE SnapshotIsolation -------------------------
(***************************************************************************)
(* What the engine promises its sessions (exec/engine_txn.rs, module       *)
(* documentation): a transaction works on a private copy of the tables     *)
(* taken at its BEGIN; COMMIT puts the tables it changed over the          *)
(* committed ones, if nobody changed those since; a statement outside a    *)
(* transaction is a commit of its own.                                     *)
(***************************************************************************)
EXTENDS Naturals, Sequences, FiniteSets

CONSTANTS Names, Sessions, None,
          Durable     \* names whose tables survive the process

VARIABLES db,      \* committed contents of every name
          work,    \* contents each open transaction sees, None if there is none
          base,    \* db at its BEGIN
          marks    \* contents at its savepoints, oldest first

abstract == <<db, work, base, marks>>

Init ==
  /\ db = [n \in Names |-> None]
  /\ work = [s \in Sessions |-> None]
  /\ base = [s \in Sessions |-> None]
  /\ marks = [s \in Sessions |-> <<>>]

Active(s) == work[s] # None

Begin(s) ==
  /\ ~Active(s) /\ Active(s)'
  /\ work' = [work EXCEPT ![s] = db]
  /\ base' = [base EXCEPT ![s] = db]
  /\ UNCHANGED <<db, marks>>

\* A statement inside a transaction changes one table of its own copy.
Write(s) ==
  /\ Active(s) /\ Active(s)' /\ work'[s] # work[s]
  /\ \A r \in Sessions \ {s} : work'[r] = work[r]
  /\ Cardinality({n \in Names : work'[s][n] # work[s][n]}) = 1
  /\ UNCHANGED <<db, base, marks>>

\* Outside one, it changes one committed table.
Statement ==
  /\ Cardinality({n \in Names : db'[n] # db[n]}) = 1
  /\ UNCHANGED <<work, base, marks>>

Changed(s) == {n \in Names : work[s][n] # base[s][n]}

End(s) ==
  /\ Active(s) /\ ~Active(s)'
  /\ work' = [work EXCEPT ![s] = None]
  /\ base' = [base EXCEPT ![s] = None]
  /\ marks' = [marks EXCEPT ![s] = <<>>]

\* First committer wins.
Commit(s) ==
  /\ End(s)
  /\ \A n \in Changed(s) : db[n] = base[s][n]
  /\ db' = [n \in Names |-> IF n \in Changed(s) THEN work[s][n] ELSE db[n]]

Rollback(s) == End(s) /\ UNCHANGED db

Savepoint(s) ==
  /\ Active(s) /\ Len(marks'[s]) = Len(marks[s]) + 1
  /\ marks' = [marks EXCEPT ![s] = Append(@, work[s])]
  /\ UNCHANGED <<db, work, base>>

\* Later savepoints go, this one stays.
RollbackTo(s, i) ==
  /\ Len(marks'[s]) = i
  /\ work' = [work EXCEPT ![s] = marks[s][i]]
  /\ marks' = [marks EXCEPT ![s] = SubSeq(@, 1, i)]
  /\ UNCHANGED <<db, base>>

Release(s, i) ==
  /\ Len(marks'[s]) = i - 1
  /\ marks' = [marks EXCEPT ![s] = SubSeq(@, 1, i - 1)]
  /\ UNCHANGED <<db, work, base>>

\* The process starts again: open transactions and temporary tables are gone.
Restart ==
  /\ \A s \in Sessions : ~Active(s)'
  /\ work' = [s \in Sessions |-> None]
  /\ base' = [s \in Sessions |-> None]
  /\ marks' = [s \in Sessions |-> <<>>]
  /\ db' = [n \in Names |-> IF n \in Durable THEN db[n] ELSE None]

Next ==
  \/ \E s \in Sessions :
       \/ Begin(s) \/ Write(s) \/ Commit(s) \/ Rollback(s) \/ Savepoint(s)
       \/ \E i \in 1 .. Len(marks[s]) : RollbackTo(s, i) \/ Release(s, i)
  \/ Statement
  \/ Restart

Spec == Init /\ [][Next]_abstract
=============================================================================
