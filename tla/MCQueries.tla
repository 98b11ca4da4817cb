----------------------------- MODULE MCQueries -----------------------------
(***************************************************************************)
(* Small instances of the tables of an engine and of a GROUP BY over one.  *)
(* The two share no state, so a behaviour runs one of them and leaves the  *)
(* other at an initial state: the states explored are those of the two,    *)
(* side by side.                                                           *)
(***************************************************************************)
EXTENDS MCGpuTables, GroupBy

VARIABLE part  \* the component that runs

partVars == <<part, vars, groupVars>>

\* For Robin Hood, two rows of the key that is displaced or two that displace it
\* at once; for the others two rows of one key, which collides with both others.
MCRowKeys ==
  IF algo = "robin_hood" THEN {<<"x", "z", "y", "y">>, <<"x", "z", "z", "y">>}
  ELSE {<<"z", "x", "x", "y">>}

QueriesInit ==
  \/ /\ part = "tables" /\ Init
     /\ GroupByInit /\ algo = "linear" /\ \A t \in Threads : rowKey[t] = Zero
  \/ /\ part = "group by" /\ GroupByInit /\ rowKey \in MCRowKeys
     /\ Init /\ budget = CHOOSE x \in Budgets : TRUE

GroupByPart == part = "group by" /\ GroupByNext /\ UNCHANGED <<part, vars>>

\* A GROUP BY has nothing left to do when it has its result.
Answered == part = "group by" /\ phase = "end" /\ UNCHANGED partVars

QueriesNext ==
  \/ part = "tables" /\ Next /\ UNCHANGED <<part, groupVars>>
  \/ GroupByPart
  \/ Answered

QueriesSpec == QueriesInit /\ [][QueriesNext]_partVars /\ WF_partVars(GroupByPart)

\* x and z hash to the last slot and y to the first, so probes wrap around
\* and y is displaced.
MCHome == [x |-> 3, y |-> 0, z |-> 3]

\* Sums of two of them carry into the high word, and 5 + 6 is out of range.
MCValue == <<5, 6, -3, 2>>
MCLow == -8
MCNonNull == {{1, 2, 3, 4}, {2, 3}}

\* Every GROUP BY comes to an end although no thread is promised its turn: a
\* thread that waits for another gives up, even if the other is not scheduled
\* until it does.
GroupByEnds == part = "group by" ~> phase = "end"
=============================================================================
