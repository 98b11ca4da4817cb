---------------------------- MODULE MCGpuTables ----------------------------
(***************************************************************************)
(* Instances of GpuTables.                                                 *)
(***************************************************************************)
EXTENDS GpuTables

CONSTANTS a, b

\* Scans of one chunk and of both, row-wise and not, of one and of two tables.
MCStatements ==
  {[reads |-> {a}, chunks |-> {11}, rowwise |-> FALSE],
   [reads |-> {a}, chunks |-> {11, 12}, rowwise |-> TRUE],
   [reads |-> {a, b}, chunks |-> {12}, rowwise |-> FALSE]}

\* A component that widens the scan of the first chunk.
MCSubplans == {[reads |-> {a, b}, chunks |-> {12}, rowwise |-> FALSE]}

\* A device budget of one row turns scans of two rows into morsels; a host
\* budget of two chunks makes the scan of one table evict the other's.
MCBudgets == {[device |-> 1, host |-> 2], [device |-> Unlimited, host |-> 2]}

MCLazyRows == <<21, 22, 23>>
MCTempRows == {<<31>>, <<32>>}
============================================================================
