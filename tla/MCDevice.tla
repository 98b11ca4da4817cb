------------------------------ MODULE MCDevice ------------------------------
(***************************************************************************)
(* Small instances of the device memory pool and of the contexts of a      *)
(* process.  The modules share no state (Contexts has its own, coarser     *)
(* view of the pool), so a behaviour runs one of them and leaves the other *)
(* at its initial state: the states explored are those of the two, side by *)
(* side.                                                                   *)
(***************************************************************************)
EXTENDS Contexts, TLC

CONSTANTS
  Streams, Blocks, Classes, Memory, MaxPooled, BucketCap, MaxSweeps, ReconcileEvery,
  MaxTick, MaxCalls,
  StreamCalls  \* bound on the calls when streams use the buffers

VARIABLES
  size, owned, marked, busy, unwaited, parked, buckets, lru, total, tick, frees, calls, stack,
  part  \* the component that runs: the contexts, or the pool for host buffers
        \* ("host", more calls) or for buffers that streams use ("streams")

Pool == INSTANCE DevicePool WITH pending <- parked

ASSUME DeviceAssumption == ContextsAssumption /\ Pool!PoolAssumption

poolVars == <<size, owned, marked, busy, unwaited, parked, buckets, lru, total, tick,
              frees, calls, stack>>
partVars == <<part, poolVars, vars>>

DeviceInit == Pool!Init /\ Init /\ part \in {"host", "streams", "contexts"}

\* The pool may be left alone; a call of it may not hang.
PoolIdle == part # "contexts" /\ (\A t \in Threads : stack[t] = <<>>) /\ UNCHANGED partVars

DeviceNext ==
  \/ part = "host" /\ Pool!Next /\ marked' = marked /\ UNCHANGED <<part, vars>>
  \/ part = "streams" /\ Pool!Next /\ calls' <= StreamCalls /\ UNCHANGED <<part, vars>>
  \/ part = "contexts" /\ Next /\ UNCHANGED <<part, poolVars>>
  \/ PoolIdle

DeviceSpec == DeviceInit /\ [][DeviceNext]_partVars

Symmetry ==
  Permutations(Threads) \cup Permutations(Blocks) \cup Permutations(Streams)
    \cup Permutations(Handles)

----------------------------------------------------------------------------
(* The properties of DevicePool; those of Contexts keep their names.       *)

\* A block is in one place at a time: it is never handed out while it is pooled,
\* parked or in the hands of another call, and never given back to the driver
\* twice, whichever alloc, free, sweep, eviction and drain race for it.
OneOwner == Pool!OneOwner

\* "A block can re-enter the allocatable pool ONLY after every recorded stream
\* drains past its event": a block with unfinished work belongs to the buffer
\* that started the work, or waits for its events.  The one exception is work
\* whose wait the driver refused: the block is then "recycled despite an unfenced
\* stream".
NoPrematureReuse == Pool!NoPrematureReuse

\* recover_from_oom gives up only when the "pool is empty": every block that is
\* pooled then was freed after the last search for one began.
GivesUpOnlyWhenEmpty == Pool!GivesUpOnlyWhenEmpty
=============================================================================
