------------------------------ MODULE KeySlots ------------------------------
(***************************************************************************)
(* The three kernels that give every GROUP BY key a slot of an             *)
(* open-addressing table: linear probing, Robin Hood probing, and the      *)
(* kernel without an empty-slot sentinel, which claims a slot's flag first *)
(* and publishes its key afterwards.  One thread per row; the threads      *)
(* interleave at every access to global memory.                            *)
(*                                                                         *)
(* The code carries a slot and a distance (or a probe count); the model    *)
(* carries the distance of the key in hand from its home, and the slot is  *)
(* what follows from it.  Home stands for the hash: any function will do.  *)
(***************************************************************************)
EXTENDS Integers, FiniteSets

CONSTANTS
  Threads,    \* one per row with a key
  Keys,       \* the encoded keys that occur
  K,          \* slots of the table
  Home,       \* the slot a key hashes to
  Empty,      \* EMPTY_KEY
  Zero,       \* what the slots of the table without a sentinel start with
  RhCap,      \* MAX_RH_PROBE * 2
  SpinLimit,  \* SPIN_LIMIT
  MaxSpill    \* SPILL_CAPACITY

Slots == 0..(K - 1)

\* The host sizes the table from the number of distinct keys.
ASSUME TableAssumption ==
  /\ IsFiniteSet(Keys) /\ Empty \notin Keys /\ Zero \in Keys
  /\ K \in Nat \ {0} /\ Cardinality(Keys) < K
  /\ Home \in [Keys -> Slots]
  /\ RhCap \in Nat /\ SpinLimit \in Nat /\ MaxSpill \in Nat

VARIABLES
  algo,      \* the kernel that is launched
  rowKey,    \* the key of each row
  table,     \* keys_table
  flag,      \* slot_valid: 0 empty, 1 claimed, 2 published
  pc,        \* where each thread is
  cur,       \* the key in each thread's hand
  dist,      \* its distance from home
  probes,    \* iterations of the Robin Hood loop
  spins,     \* reads of one unpublished flag
  seen,      \* the occupant a swap expects
  overflow,  \* the overflow or the spill counter
  spilled    \* spill_keys

slotVars == <<algo, rowKey, table, flag, pc, cur, dist, probes, spins, seen, overflow, spilled>>

InitSlots ==
  /\ algo \in {"linear", "robin_hood", "valid"}
  /\ rowKey \in [Threads -> Keys]
  /\ table = [s \in Slots |-> IF algo = "valid" THEN Zero ELSE Empty]
  /\ flag = [s \in Slots |-> 0]
  /\ pc = [t \in Threads |-> "probe"]
  /\ cur = rowKey /\ dist = [t \in Threads |-> 0]
  /\ probes = [t \in Threads |-> 0] /\ spins = [t \in Threads |-> 0]
  /\ seen = [t \in Threads |-> Empty]
  /\ overflow = 0 /\ spilled = {}

\* The slot at distance d from the home of k.
SlotAt(k, d) == (Home[k] + d) % K

Slot(t) == SlotAt(cur[t], dist[t])

\* How far from its home a key in slot s is.
DistIn(s, k) == (s - Home[k]) % K

\* A slot whose key other threads may rely on.
Occupied(s) == IF algo = "valid" THEN flag[s] = 2 ELSE table[s] # Empty

Holds(s, k) == Occupied(s) /\ table[s] = k

Goto(t, label) == pc' = [pc EXCEPT ![t] = label]

MaxProbes == 2 * K

Advance(t) == dist' = [dist EXCEPT ![t] = @ + 1]

----------------------------------------------------------------------------
(* Linear probing.                                                         *)

\* One iteration of PROBE_LOOP: the compare-and-swap of EMPTY by the key.
LinearProbe(t) ==
  /\ algo = "linear" /\ pc[t] = "probe"
  /\ IF dist[t] >= MaxProbes
     THEN /\ overflow' = overflow + 1
          /\ Goto(t, "done") /\ UNCHANGED <<table, dist>>
     ELSE /\ UNCHANGED overflow
          /\ \/ /\ table[Slot(t)] \in {Empty, cur[t]}
                /\ table' = [table EXCEPT ![Slot(t)] = cur[t]]
                /\ Goto(t, "done") /\ UNCHANGED dist
             \/ /\ table[Slot(t)] \notin {Empty, cur[t]}
                /\ Advance(t) /\ UNCHANGED <<table, pc>>
  /\ UNCHANGED <<algo, rowKey, flag, cur, probes, spins, seen, spilled>>

----------------------------------------------------------------------------
(* Robin Hood probing.                                                     *)

Poorer(t) == dist[t] > DistIn(Slot(t), table[Slot(t)])

\* One iteration of RH_PROBE_LOOP.  At the cap the thread stops, and the key
\* in its hand, its own or a displaced one, is dropped.
RobinHoodProbe(t) ==
  /\ algo = "robin_hood" /\ pc[t] = "probe"
  /\ probes' = [probes EXCEPT ![t] = @ + 1]
  /\ \/ /\ probes[t] >= RhCap
        /\ Goto(t, "done") /\ UNCHANGED <<table, dist, seen>>
     \/ /\ probes[t] < RhCap /\ table[Slot(t)] \in {Empty, cur[t]}
        /\ table' = [table EXCEPT ![Slot(t)] = cur[t]]
        /\ Goto(t, "done") /\ UNCHANGED <<dist, seen>>
     \/ /\ probes[t] < RhCap /\ table[Slot(t)] \notin {Empty, cur[t]} /\ Poorer(t)
        /\ seen' = [seen EXCEPT ![t] = table[Slot(t)]]
        /\ Goto(t, "swap") /\ UNCHANGED <<table, dist>>
     \/ /\ probes[t] < RhCap /\ table[Slot(t)] \notin {Empty, cur[t]} /\ ~Poorer(t)
        /\ Advance(t) /\ UNCHANGED <<table, pc, seen>>
  /\ UNCHANGED <<algo, rowKey, flag, cur, spins, overflow, spilled>>

\* Mutant: the distance stays the one of the key that was placed.
RobinHoodSwapKeepsDistance(t) ==
  /\ algo = "robin_hood" /\ pc[t] = "swap"
  /\ \/ /\ table[Slot(t)] = seen[t]
        /\ table' = [table EXCEPT ![Slot(t)] = cur[t]]
        /\ cur' = [cur EXCEPT ![t] = seen[t]]
        /\ Advance(t)
     \/ /\ table[Slot(t)] # seen[t]
        /\ UNCHANGED <<table, cur, dist>>
  /\ seen' = [seen EXCEPT ![t] = Empty]
  /\ Goto(t, "probe")
  /\ UNCHANGED <<algo, rowKey, flag, probes, spins, overflow, spilled>>

\* RH_SWAP: a compare-and-swap of the occupant that was seen; if the slot has
\* changed, the same slot is examined again.
RobinHoodSwap(t) ==
  /\ algo = "robin_hood" /\ pc[t] = "swap"
  /\ \/ /\ table[Slot(t)] = seen[t]
        /\ table' = [table EXCEPT ![Slot(t)] = cur[t]]
        /\ cur' = [cur EXCEPT ![t] = seen[t]]
        /\ dist' = [dist EXCEPT ![t] = DistIn(Slot(t), seen[t]) + 1]
     \/ /\ table[Slot(t)] # seen[t]
        /\ UNCHANGED <<table, cur, dist>>
  /\ seen' = [seen EXCEPT ![t] = Empty]
  /\ Goto(t, "probe")
  /\ UNCHANGED <<algo, rowKey, flag, probes, spins, overflow, spilled>>

----------------------------------------------------------------------------
(* Claiming a flag, then publishing the key.                               *)

\* PROBE_TOP: the compare-and-swap of the flag from empty to claimed.
ValidProbe(t) ==
  /\ algo = "valid" /\ pc[t] = "probe"
  /\ spins' = [spins EXCEPT ![t] = 0]
  /\ IF dist[t] >= MaxProbes
     THEN Goto(t, "spill") /\ UNCHANGED flag
     ELSE \/ /\ flag[Slot(t)] = 0
             /\ flag' = [flag EXCEPT ![Slot(t)] = 1]
             /\ Goto(t, "claimed")
          \/ /\ flag[Slot(t)] # 0
             /\ Goto(t, "spin") /\ UNCHANGED flag
  /\ UNCHANGED <<algo, rowKey, table, cur, dist, probes, seen, overflow, spilled>>

\* Mutant: spins until the key is published.
ValidSpinForever(t) ==
  /\ algo = "valid" /\ pc[t] = "spin"
  /\ Goto(t, IF flag[Slot(t)] = 2 THEN "compare" ELSE "probe")
  /\ UNCHANGED <<algo, rowKey, table, flag, cur, dist, probes, spins, seen, overflow, spilled>>

\* SPIN: an acquire load of the flag, at most SpinLimit times.
ValidSpin(t) ==
  /\ algo = "valid" /\ pc[t] = "spin"
  /\ \/ /\ spins[t] >= SpinLimit
        /\ Goto(t, "spill") /\ UNCHANGED spins
     \/ /\ spins[t] < SpinLimit
        /\ spins' = [spins EXCEPT ![t] = @ + 1]
        /\ Goto(t, IF flag[Slot(t)] = 2 THEN "compare" ELSE "spin")
  /\ UNCHANGED <<algo, rowKey, table, flag, cur, dist, probes, seen, overflow, spilled>>

\* The load of the published key.
ValidCompare(t) ==
  /\ algo = "valid" /\ pc[t] = "compare"
  /\ \/ /\ table[Slot(t)] = cur[t]
        /\ Goto(t, "done") /\ UNCHANGED dist
     \/ /\ table[Slot(t)] # cur[t]
        /\ Advance(t) /\ Goto(t, "probe")
  /\ UNCHANGED <<algo, rowKey, table, flag, cur, probes, spins, seen, overflow, spilled>>

\* CLAIM_SLOT: the store of the key, and behind a fence the published flag.
ValidStore(t) ==
  /\ algo = "valid" /\ pc[t] = "claimed"
  /\ table' = [table EXCEPT ![Slot(t)] = cur[t]]
  /\ Goto(t, "stored")
  /\ UNCHANGED <<algo, rowKey, flag, cur, dist, probes, spins, seen, overflow, spilled>>

ValidPublish(t) ==
  /\ algo = "valid" /\ pc[t] = "stored"
  /\ flag' = [flag EXCEPT ![Slot(t)] = 2]
  /\ Goto(t, "done")
  /\ UNCHANGED <<algo, rowKey, table, cur, dist, probes, spins, seen, overflow, spilled>>

\* Mutant: a full buffer is not counted.
ValidSpillFull(t) ==
  /\ algo = "valid" /\ pc[t] = "spill"
  /\ overflow' = IF overflow < MaxSpill THEN overflow + 1 ELSE overflow
  /\ spilled' = IF overflow < MaxSpill THEN spilled \cup {cur[t]} ELSE spilled
  /\ Goto(t, "done")
  /\ UNCHANGED <<algo, rowKey, table, flag, cur, dist, probes, spins, seen>>

\* SPILL: past the buffer's capacity only the counter moves.
ValidSpill(t) ==
  /\ algo = "valid" /\ pc[t] = "spill"
  /\ overflow' = overflow + 1
  /\ spilled' = IF overflow < MaxSpill THEN spilled \cup {cur[t]} ELSE spilled
  /\ Goto(t, "done")
  /\ UNCHANGED <<algo, rowKey, table, flag, cur, dist, probes, spins, seen>>

----------------------------------------------------------------------------
KeysStep(t) ==
  \/ LinearProbe(t)
  \/ RobinHoodProbe(t) \/ RobinHoodSwap(t)
  \/ ValidProbe(t) \/ ValidSpin(t) \/ ValidCompare(t)
  \/ ValidStore(t) \/ ValidPublish(t) \/ ValidSpill(t)

TypeSlots ==
  /\ algo \in {"linear", "robin_hood", "valid"} /\ rowKey \in [Threads -> Keys]
  /\ table \in [Slots -> Keys \cup {Empty}] /\ flag \in [Slots -> 0..2]
  /\ cur \in [Threads -> Keys] /\ dist \in [Threads -> Nat]
  /\ probes \in [Threads -> Nat] /\ spins \in [Threads -> Nat]
  /\ seen \in [Threads -> Keys \cup {Empty}]
  /\ overflow \in Nat /\ spilled \subseteq Keys

\* No key ever has two slots, whichever kernel runs and however its threads
\* interleave: two rows of one group never get two accumulators, although
\* Robin Hood moves keys that other rows placed, a displaced key is for a
\* while in no slot at all, and a claimed slot has a key nobody may read.
OneSlotPerKey ==
  \A r, s \in Slots, k \in Keys : Holds(r, k) /\ Holds(s, k) => r = s

\* A row leaves the linear kernel only when its key has a slot: the host's
\* sizing makes the overflow counter unreachable.  It leaves the kernel
\* without a sentinel when its key has a slot or was spilled, or the spill
\* counter says that keys were lost.  (Robin Hood gives up silently.)
NoKeyLost ==
  \A t \in Threads : algo # "robin_hood" /\ pc[t] = "done" =>
    \/ \E s \in Slots : Holds(s, rowKey[t])
    \/ algo = "valid" /\ (rowKey[t] \in spilled \/ overflow > MaxSpill)
=============================================================================
