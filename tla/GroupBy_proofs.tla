--------------------------- MODULE GroupBy_proofs ---------------------------
(***************************************************************************)
(* The slots of a GROUP BY for every table, hash function and number of    *)
(* rows, whichever of the three kernels runs.  The argument is one for all *)
(* three: a key is only ever looked for past slots that are taken by other *)
(* keys, and such a slot is never taken by that key later.  Robin Hood     *)
(* moves keys, but what replaces the key of a slot is further from home.   *)
(***************************************************************************)
EXTENDS GroupBy, FiniteSetTheorems, TLAPS

\* The slots at distances below d from the home of k have other keys; under
\* Robin Hood these are at least as far from home as k would be there.
Passed(k, d) ==
  \A e \in 0..(K - 1) : e < d =>
    /\ Occupied(SlotAt(k, e)) /\ table[SlotAt(k, e)] # k
    /\ algo = "robin_hood" => DistIn(SlotAt(k, e), table[SlotAt(k, e)]) >= e

Labels == [linear |-> {"probe", "done"}, robin_hood |-> {"probe", "swap", "done"},
           valid |-> {"probe", "spin", "compare", "claimed", "stored", "spill", "done"}]

\* Types, with the labels of the kernel that runs; no probe goes round.
SlotsTyped ==
  /\ TypeSlots
  /\ pc \in [Threads -> Labels[algo]]
  /\ \A t \in Threads : dist[t] < K
  /\ algo = "valid" => \A s \in Slots : table[s] \in Keys
  /\ algo # "robin_hood" => cur = rowKey

\* Keys in slots and keys in hand have only been moved past other keys.
KeysPassed ==
  /\ \A s \in Slots, k \in Keys : Holds(s, k) => Passed(k, DistIn(s, k))
  /\ \A t \in Threads : Passed(cur[t], dist[t])

\* Robin Hood: the key a thread is about to displace is nearer to its home.
SwapsRicher ==
  \A t \in Threads : pc[t] = "swap" =>
    /\ seen[t] \in Keys \ {cur[t]}
    /\ dist[t] > DistIn(Slot(t), seen[t])

\* Without a sentinel: a claimed slot has one owner, and its key is not read.
Claims(t) == pc[t] \in {"claimed", "stored"}

ClaimsExclusive ==
  \A t \in Threads :
    /\ Claims(t) => flag[Slot(t)] = 1
    /\ pc[t] = "stored" => table[Slot(t)] = cur[t]
    /\ pc[t] = "compare" => flag[Slot(t)] = 2
    /\ \A u \in Threads : Claims(t) /\ Claims(u) /\ Slot(t) = Slot(u) => t = u

SlotsInv == SlotsTyped /\ KeysPassed /\ SwapsRicher /\ ClaimsExclusive

-----------------------------------------------------------------------------
(***************************************************************************)
(* Slots and distances.                                                    *)
(***************************************************************************)

\* The remainders that a probe computes.
LEMMA SmallMod ==
  ASSUME NEW n \in Nat \ {0}, NEW a \in 0..(n - 1)
  PROVE  a % n = a /\ (a + n) % n = a /\ (a - n) % n = a
<1>1. a % n = a
  OBVIOUS
<1>2. (a + n) % n = a
  OBVIOUS
<1>3. (a - n) % n = a
  OBVIOUS
<1> QED BY <1>1, <1>2, <1>3, Zenon

\* Adding a distance to a slot, and taking it off again.
LEMMA RoundTrip ==
  ASSUME NEW n \in Nat \ {0}, NEW h \in 0..(n - 1), NEW d \in 0..(n - 1)
  PROVE  /\ (h + d) % n \in 0..(n - 1) /\ (((h + d) % n) - h) % n = d
         /\ (d - h) % n \in 0..(n - 1) /\ (h + ((d - h) % n)) % n = d
<1>1. (h + d) % n \in 0..(n - 1) /\ (((h + d) % n) - h) % n = d
  <2>1. CASE h + d < n
    <3>1. h + d \in 0..(n - 1)
      BY <2>1
    <3>2. (h + d) % n = h + d
      BY <3>1, SmallMod, Zenon
    <3>3. (h + d) - h = d /\ d % n = d
      BY SmallMod
    <3> QED BY <3>1, <3>2, <3>3, Zenon
  <2>2. CASE h + d >= n
    <3>1. h + d - n \in 0..(n - 1) /\ (h + d - n) + n = h + d
      BY <2>2
    <3>2. (h + d) % n = h + d - n
      BY <3>1, SmallMod, Zenon
    <3>3. (h + d - n) - h = d - n /\ (d - n) % n = d
      BY SmallMod
    <3> QED BY <3>1, <3>2, <3>3, Zenon
  <2> QED BY <2>1, <2>2
<1>2. (d - h) % n \in 0..(n - 1) /\ (h + ((d - h) % n)) % n = d
  <2>1. CASE d >= h
    <3>1. d - h \in 0..(n - 1)
      BY <2>1
    <3>2. (d - h) % n = d - h
      BY <3>1, SmallMod, Zenon
    <3>3. h + (d - h) = d /\ d % n = d
      BY SmallMod
    <3> QED BY <3>1, <3>2, <3>3, Zenon
  <2>2. CASE d < h
    <3>1. d - h + n \in 0..(n - 1) /\ (d - h + n) - n = d - h
      BY <2>2
    <3>2. (d - h) % n = d - h + n
      BY <3>1, SmallMod, Zenon
    <3>3. h + (d - h + n) = d + n /\ (d + n) % n = d
      BY SmallMod
    <3> QED BY <3>1, <3>2, <3>3, Zenon
  <2> QED BY <2>1, <2>2
<1> QED BY <1>1, <1>2, Zenon

\* Slots and distances from the home of a key are the same thing.
LEMMA SlotOfDistance ==
  ASSUME NEW k \in Keys, NEW d \in 0..(K - 1)
  PROVE  SlotAt(k, d) \in Slots /\ DistIn(SlotAt(k, d), k) = d
<1>1. K \in Nat \ {0} /\ Home[k] \in 0..(K - 1)
  BY TableAssumption, Zenon DEF Slots
<1> QED BY <1>1, RoundTrip, Zenon DEF SlotAt, DistIn, Slots

LEMMA DistanceOfSlot ==
  ASSUME NEW k \in Keys, NEW s \in Slots
  PROVE  DistIn(s, k) \in 0..(K - 1) /\ SlotAt(k, DistIn(s, k)) = s
<1>1. K \in Nat \ {0} /\ Home[k] \in 0..(K - 1) /\ s \in 0..(K - 1)
  BY TableAssumption, Zenon DEF Slots
<1> QED BY <1>1, RoundTrip, Zenon DEF SlotAt, DistIn

\* The slot in front of a thread is the one at its distance.
LEMMA SlotOfThread ==
  ASSUME SlotsTyped, NEW t \in Threads
  PROVE  /\ cur[t] \in Keys /\ dist[t] \in 0..(K - 1) /\ Slot(t) \in Slots
         /\ DistIn(Slot(t), cur[t]) = dist[t]
<1>1. cur[t] \in Keys /\ dist[t] \in 0..(K - 1)
  BY TableAssumption DEF SlotsTyped, TypeSlots
<1> QED BY <1>1, SlotOfDistance, Zenon DEF Slot

\* A key that is only found past other keys is in one slot.
LEMMA PassedOneSlot ==
  ASSUME KeysPassed
  PROVE  OneSlotPerKey
<1> SUFFICES ASSUME NEW r \in Slots, NEW s \in Slots, NEW k \in Keys,
                    Holds(r, k), Holds(s, k)
             PROVE  r = s
  BY Zenon DEF OneSlotPerKey
<1>1. /\ DistIn(r, k) \in 0..(K - 1) /\ SlotAt(k, DistIn(r, k)) = r
      /\ DistIn(s, k) \in 0..(K - 1) /\ SlotAt(k, DistIn(s, k)) = s
  BY DistanceOfSlot, Zenon
<1>2. ~(DistIn(r, k) < DistIn(s, k)) /\ ~(DistIn(s, k) < DistIn(r, k))
  BY <1>1, Zenon DEF KeysPassed, Passed, Holds
<1>3. DistIn(r, k) = DistIn(s, k)
  BY <1>1, <1>2
<1> QED BY <1>1, <1>3, Zenon

\* No key has passed every slot: the table has room for all of them.
LEMMA NeverRound ==
  ASSUME SlotsTyped, KeysPassed, NEW k \in Keys, Passed(k, K)
  PROVE  FALSE
<1>1. \A s \in Slots : Occupied(s) /\ table[s] \in Keys
  <2> TAKE s \in Slots
  <2>1. DistIn(s, k) \in 0..(K - 1) /\ SlotAt(k, DistIn(s, k)) = s
    BY DistanceOfSlot, Zenon
  <2>2. DistIn(s, k) < K
    BY <2>1, TableAssumption
  <2>3. Occupied(s)
    BY <2>1, <2>2, Zenon DEF Passed
  <2> QED BY <2>3, Zenon DEF SlotsTyped, TypeSlots, Occupied
<1>2. table \in [Slots -> Keys]
  BY <1>1, Zenon DEF SlotsTyped, TypeSlots
<1>3. IsFiniteSet(Slots) /\ Cardinality(Slots) = K
  BY TableAssumption, FS_Interval DEF Slots
<1>4. PICK r \in Slots, s \in Slots : r # s /\ table[r] = table[s]
  BY <1>2, <1>3, TableAssumption, FS_PigeonHole
<1>5. OneSlotPerKey
  BY PassedOneSlot, Zenon
<1> QED BY <1>1, <1>4, <1>5, Zenon DEF OneSlotPerKey, Holds

-----------------------------------------------------------------------------
(***************************************************************************)
(* What the steps of the kernels may do to the table.                      *)
(***************************************************************************)

\* A slot that is taken keeps its key, or Robin Hood gives it one that is
\* further from home.
SlotKept(s) ==
  Occupied(s) =>
    /\ Occupied(s)'
    /\ \/ table'[s] = table[s]
       \/ algo = "robin_hood" /\ DistIn(s, table'[s]) > DistIn(s, table[s])

\* What a key has passed stays passed.
LEMMA PassedKept ==
  ASSUME SlotsTyped, SlotsTyped', UNCHANGED algo, \A s \in Slots : SlotKept(s),
         NEW k \in Keys, NEW d \in Nat, Passed(k, d)
  PROVE  Passed(k, d)'
<1> SUFFICES ASSUME NEW e \in 0..(K - 1), e < d
             PROVE  /\ Occupied(SlotAt(k, e))' /\ table'[SlotAt(k, e)] # k
                    /\ algo = "robin_hood" => DistIn(SlotAt(k, e), table'[SlotAt(k, e)]) >= e
  BY Zenon DEF Passed, SlotAt, DistIn
<1>1. PICK s \in Slots : s = SlotAt(k, e) /\ DistIn(s, k) = e
  BY SlotOfDistance, Zenon
<1>2. /\ Occupied(s) /\ table[s] # k
      /\ algo = "robin_hood" => DistIn(s, table[s]) >= e
  BY <1>1, Zenon DEF Passed
<1>3. SlotKept(s)
  BY Zenon
<1>4. CASE table'[s] = table[s]
  BY <1>1, <1>2, <1>3, <1>4, Zenon DEF SlotKept
<1>5. CASE table'[s] # table[s]
  <2>1. algo = "robin_hood" /\ DistIn(s, table'[s]) > DistIn(s, table[s]) /\ Occupied(s)'
    BY <1>2, <1>3, <1>5, Zenon DEF SlotKept
  <2>2. table[s] \in Keys /\ table'[s] \in Keys
    BY <1>2, <2>1, Zenon DEF SlotsTyped, TypeSlots, Occupied
  <2>3. DistIn(s, table[s]) \in Int /\ DistIn(s, table'[s]) \in Int
    BY <2>2, DistanceOfSlot
  <2>4. DistIn(s, table'[s]) > e
    BY <1>2, <2>1, <2>3
  <2> QED BY <1>1, <2>1, <2>3, <2>4
<1> QED BY <1>4, <1>5, Zenon

\* A step keeps the invariant on the keys if it keeps the slots that are taken,
\* fills others only with a key that some thread has brought there, and moves
\* a thread only past another key.
LEMMA KeysPassedKept ==
  ASSUME SlotsTyped, SlotsTyped', KeysPassed, UNCHANGED algo,
         \A s \in Slots : SlotKept(s),
         \A s \in Slots : Occupied(s)' =>
           \/ Occupied(s) /\ table'[s] = table[s]
           \/ \E t \in Threads : cur[t] = table'[s] /\ Slot(t) = s,
         \A t \in Threads :
           (cur'[t] = cur[t] /\ dist'[t] = dist[t]) \/ Passed(cur[t], dist[t])'
  PROVE  KeysPassed'
<1>1. ASSUME NEW s \in Slots, NEW k \in Keys, Holds(s, k)'
      PROVE  Passed(k, DistIn(s, k))'
  <2>1. Occupied(s)' /\ table'[s] = k
    BY <1>1, Zenon DEF Holds
  <2>2. Passed(k, DistIn(s, k))
    <3>1. CASE Occupied(s) /\ table[s] = k
      BY <3>1, Zenon DEF KeysPassed, Holds
    <3>2. CASE \E t \in Threads : cur[t] = k /\ Slot(t) = s
      BY <3>2, SlotOfThread, Zenon DEF KeysPassed
    <3> QED BY <2>1, <3>1, <3>2, Zenon
  <2>3. PICK d \in Nat : d = DistIn(s, k)
    BY DistanceOfSlot, TableAssumption
  <2>4. Passed(k, d)'
    BY <2>2, <2>3, PassedKept, Zenon
  <2> QED BY <2>3, <2>4, Zenon DEF DistIn
<1>2. ASSUME NEW t \in Threads, cur'[t] = cur[t], dist'[t] = dist[t]
      PROVE  Passed(cur[t], dist[t])'
  <2>1. PICK k \in Keys, d \in Nat : k = cur[t] /\ d = dist[t]
    BY Zenon DEF SlotsTyped, TypeSlots
  <2>2. Passed(k, d)'
    BY <2>1, PassedKept, Zenon DEF KeysPassed
  <2> QED BY <1>2, <2>1, <2>2, Zenon
<1> QED BY <1>1, <1>2, Zenon DEF KeysPassed

LEMMA SlotsInit ==
  ASSUME InitSlots
  PROVE  SlotsInv /\ NoKeyLost
<1>1. algo \in {"linear", "robin_hood", "valid"} /\ rowKey \in [Threads -> Keys]
  BY Zenon DEF InitSlots
<1>2. TypeSlots
  <2>1. table \in [Slots -> Keys \cup {Empty}] /\ flag \in [Slots -> 0..2]
    BY TableAssumption DEF InitSlots
  <2> QED BY <1>1, <2>1, Zenon DEF InitSlots, TypeSlots
<1>3. \A t \in Threads : pc[t] = "probe" /\ dist[t] = 0 /\ cur[t] = rowKey[t]
  BY <1>1, Zenon DEF InitSlots
<1>4. pc \in [Threads -> Labels[algo]]
  BY <1>1 DEF InitSlots, Labels
<1>5. algo = "valid" => \A s \in Slots : table[s] \in Keys
  BY TableAssumption, Zenon DEF InitSlots
<1>6. SlotsTyped
  BY <1>2, <1>3, <1>4, <1>5, TableAssumption DEF SlotsTyped, InitSlots
<1>7. \A s \in Slots : ~Occupied(s)
  BY DEF InitSlots, Occupied
<1>8. KeysPassed
  BY <1>3, <1>7 DEF KeysPassed, Holds, Passed
<1>9. SwapsRicher /\ ClaimsExclusive /\ NoKeyLost
  BY <1>3, Zenon DEF SwapsRicher, ClaimsExclusive, Claims, NoKeyLost
<1> QED BY <1>6, <1>8, <1>9, Zenon DEF SlotsInv

-----------------------------------------------------------------------------
(***************************************************************************)
(* One lemma per kernel.                                                   *)
(***************************************************************************)

\* A thread that has passed the slot in front of it too.
LEMMA PassesOneMore ==
  ASSUME SlotsTyped, KeysPassed, NEW t \in Threads, Occupied(Slot(t)),
         table[Slot(t)] # cur[t],
         algo = "robin_hood" => DistIn(Slot(t), table[Slot(t)]) >= dist[t]
  PROVE  Passed(cur[t], dist[t] + 1) /\ dist[t] + 1 < K
<1>1. cur[t] \in Keys /\ dist[t] \in 0..(K - 1)
  BY SlotOfThread, Zenon
<1>2. Passed(cur[t], dist[t] + 1)
  BY <1>1 DEF KeysPassed, Passed, Slot
<1>3. dist[t] + 1 # K
  BY <1>1, <1>2, NeverRound, Zenon
<1> QED BY <1>1, <1>2, <1>3, TableAssumption

LEMMA LinearStep ==
  ASSUME SlotsInv, NEW t \in Threads, LinearProbe(t)
  PROVE  SlotsInv' /\ (NoKeyLost => NoKeyLost')
<1>1. /\ algo = "linear" /\ pc[t] = "probe"
      /\ SlotsTyped /\ TypeSlots /\ KeysPassed
      /\ UNCHANGED <<algo, rowKey, flag, cur, probes, spins, seen, spilled>>
  BY Zenon DEF LinearProbe, SlotsInv, SlotsTyped
<1>2. cur[t] \in Keys /\ dist[t] \in 0..(K - 1) /\ Slot(t) \in Slots
      /\ ~(dist[t] >= MaxProbes)
  BY <1>1, SlotOfThread, TableAssumption DEF MaxProbes
<1>3. pc \in [Threads -> {"probe", "done"}]
  BY <1>1, Zenon DEF SlotsTyped, Labels
<1>4. CASE table[Slot(t)] \in {Empty, cur[t]}
  <2>1. /\ table' = [table EXCEPT ![Slot(t)] = cur[t]] /\ pc' = [pc EXCEPT ![t] = "done"]
        /\ UNCHANGED <<dist, overflow>>
    BY <1>2, <1>4, Zenon DEF LinearProbe, Goto
  <2>2. /\ table' \in [Slots -> Keys \cup {Empty}] /\ table'[Slot(t)] = cur[t]
        /\ \A s \in Slots \ {Slot(t)} : table'[s] = table[s]
        /\ pc' \in [Threads -> {"probe", "done"}]
    BY <1>1, <1>2, <1>3, <2>1, Zenon DEF TypeSlots
  <2>3. SlotsTyped'
    <3>1. pc' \in [Threads -> Labels[algo]]
      BY <1>1, <2>2, Zenon DEF Labels
    <3> QED BY <1>1, <2>1, <2>2, <3>1, Zenon DEF SlotsTyped, TypeSlots
  <2>4. \A s \in Slots : SlotKept(s)
    BY <1>1, <1>4, <2>2, TableAssumption, Zenon DEF SlotKept, Occupied
  <2>5. KeysPassed'
    <3>1. \A s \in Slots : Occupied(s)' =>
            \/ Occupied(s) /\ table'[s] = table[s]
            \/ \E u \in Threads : cur[u] = table'[s] /\ Slot(u) = s
      BY <1>1, <2>2, Zenon DEF Occupied
    <3> QED BY <1>1, <2>1, <2>3, <2>4, <3>1, KeysPassedKept, Zenon
  <2>6. SwapsRicher' /\ ClaimsExclusive'
    BY <2>2, Zenon DEF SwapsRicher, ClaimsExclusive, Claims
  <2>7. NoKeyLost => NoKeyLost'
    <3>1. cur[t] = rowKey[t] /\ \A u \in Threads \ {t} : pc'[u] = pc[u]
      BY <1>1, <1>3, <2>1, Zenon DEF SlotsTyped
    <3>2. Holds(Slot(t), rowKey[t])'
      BY <1>1, <1>2, <2>1, <2>2, <3>1, TableAssumption, Zenon DEF Holds, Occupied, Slot, SlotAt
    <3>3. \A s \in Slots, u \in Threads : Holds(s, rowKey[u]) => Holds(s, rowKey[u])'
      BY <1>1, <1>4, <2>2, <3>1, Zenon DEF Holds, Occupied
    <3>4. Slot(t)' \in Slots
      BY <1>1, <1>2, <2>1, Zenon DEF Slot, SlotAt
    <3> QED BY <1>1, <3>1, <3>2, <3>3, <3>4, Zenon DEF NoKeyLost
  <2> QED BY <2>3, <2>5, <2>6, <2>7, Zenon DEF SlotsInv
<1>5. CASE table[Slot(t)] \notin {Empty, cur[t]}
  <2>1. dist' = [dist EXCEPT ![t] = @ + 1] /\ UNCHANGED <<table, pc, overflow>>
    BY <1>2, <1>5, Zenon DEF LinearProbe, Advance
  <2>2. Passed(cur[t], dist[t] + 1) /\ dist[t] + 1 < K
    BY <1>1, <1>5, PassesOneMore, Zenon DEF Occupied
  <2>3. /\ dist' \in [Threads -> Nat] /\ dist'[t] = dist[t] + 1
        /\ \A u \in Threads \ {t} : dist'[u] = dist[u]
    BY <1>1, <2>1 DEF TypeSlots
  <2>4. SlotsTyped'
    BY <1>1, <2>1, <2>2, <2>3, Zenon DEF SlotsTyped, TypeSlots
  <2>5. \A s \in Slots : SlotKept(s)
    BY <1>1, <2>1, Zenon DEF SlotKept, Occupied
  <2>6. KeysPassed'
    <3>1. Passed(cur[t], dist[t])'
      BY <1>1, <2>1, <2>2, <2>3, Zenon DEF Passed, Occupied
    <3>2. \A s \in Slots : Occupied(s)' => Occupied(s) /\ table'[s] = table[s]
      BY <1>1, <2>1, Zenon DEF Occupied
    <3> QED BY <1>1, <2>3, <2>4, <2>5, <3>1, <3>2, KeysPassedKept, Zenon
  <2>7. SwapsRicher' /\ ClaimsExclusive'
    BY <1>3, <2>1, Zenon DEF SwapsRicher, ClaimsExclusive, Claims
  <2>8. NoKeyLost => NoKeyLost'
    BY <1>1, <2>1, Zenon DEF NoKeyLost, Holds, Occupied
  <2> QED BY <2>4, <2>6, <2>7, <2>8, Zenon DEF SlotsInv
<1> QED BY <1>4, <1>5, Zenon

LEMMA RobinHoodProbeStep ==
  ASSUME SlotsInv, NEW t \in Threads, RobinHoodProbe(t)
  PROVE  SlotsInv'
<1>1. /\ algo = "robin_hood" /\ pc[t] = "probe"
      /\ SlotsTyped /\ TypeSlots /\ KeysPassed /\ SwapsRicher
      /\ UNCHANGED <<algo, rowKey, flag, cur, spins, overflow, spilled>>
      /\ probes' = [probes EXCEPT ![t] = @ + 1]
  BY Zenon DEF RobinHoodProbe, SlotsInv, SlotsTyped
<1>2. /\ cur[t] \in Keys /\ dist[t] \in 0..(K - 1) /\ Slot(t) \in Slots
      /\ probes' \in [Threads -> Nat]
  BY <1>1, SlotOfThread DEF TypeSlots
<1>3. pc \in [Threads -> {"probe", "swap", "done"}]
  BY <1>1, Zenon DEF SlotsTyped, Labels
<1>4. ASSUME UNCHANGED table
      PROVE  /\ \A s \in Slots : SlotKept(s)
             /\ \A s \in Slots : Occupied(s)' => Occupied(s) /\ table'[s] = table[s]
  BY <1>1, <1>4, Zenon DEF SlotKept, Occupied
<1>5. ASSUME pc' \in [Threads -> {"probe", "swap", "done"}] PROVE ClaimsExclusive'
  BY <1>5, Zenon DEF ClaimsExclusive, Claims
<1>6. ASSUME pc' \in [Threads -> {"probe", "swap", "done"}] PROVE pc' \in [Threads -> Labels[algo]]
  BY <1>1, <1>6, Zenon DEF Labels
<1>7. CASE /\ UNCHANGED <<table, dist, seen>> /\ pc' = [pc EXCEPT ![t] = "done"]
  <2>1. /\ pc' \in [Threads -> {"probe", "swap", "done"}] /\ pc'[t] = "done"
        /\ \A u \in Threads \ {t} : pc'[u] = pc[u]
    BY <1>3, <1>7, Zenon
  <2>2. SlotsTyped'
    BY <1>1, <1>2, <1>6, <1>7, <2>1, Zenon DEF SlotsTyped, TypeSlots
  <2>3. KeysPassed'
    BY <1>1, <1>4, <1>7, <2>2, KeysPassedKept, Zenon
  <2>4. SwapsRicher'
    BY <1>1, <1>7, <2>1, Zenon DEF SwapsRicher, Slot
  <2> QED BY <1>5, <2>1, <2>2, <2>3, <2>4, Zenon DEF SlotsInv
<1>8. CASE /\ table[Slot(t)] \in {Empty, cur[t]} /\ table' = [table EXCEPT ![Slot(t)] = cur[t]]
           /\ pc' = [pc EXCEPT ![t] = "done"] /\ UNCHANGED <<dist, seen>>
  <2>1. /\ pc' \in [Threads -> {"probe", "swap", "done"}] /\ pc'[t] = "done"
        /\ \A u \in Threads \ {t} : pc'[u] = pc[u]
        /\ table' \in [Slots -> Keys \cup {Empty}] /\ table'[Slot(t)] = cur[t]
        /\ \A s \in Slots \ {Slot(t)} : table'[s] = table[s]
    BY <1>1, <1>2, <1>3, <1>8, Zenon DEF TypeSlots
  <2>2. SlotsTyped'
    BY <1>1, <1>2, <1>6, <1>8, <2>1, Zenon DEF SlotsTyped, TypeSlots
  <2>3. \A s \in Slots : SlotKept(s)
    BY <1>1, <1>8, <2>1, Zenon DEF SlotKept, Occupied
  <2>4. \A s \in Slots : Occupied(s)' =>
          \/ Occupied(s) /\ table'[s] = table[s]
          \/ \E u \in Threads : cur[u] = table'[s] /\ Slot(u) = s
    BY <1>1, <2>1, Zenon DEF Occupied
  <2>5. KeysPassed'
    BY <1>1, <1>8, <2>2, <2>3, <2>4, KeysPassedKept, Zenon
  <2>6. SwapsRicher'
    BY <1>1, <1>8, <2>1, Zenon DEF SwapsRicher, Slot
  <2> QED BY <1>5, <2>1, <2>2, <2>5, <2>6, Zenon DEF SlotsInv
<1>9. CASE /\ table[Slot(t)] \notin {Empty, cur[t]} /\ Poorer(t)
           /\ seen' = [seen EXCEPT ![t] = table[Slot(t)]]
           /\ pc' = [pc EXCEPT ![t] = "swap"] /\ UNCHANGED <<table, dist>>
  <2>1. /\ pc' \in [Threads -> {"probe", "swap", "done"}]
        /\ \A u \in Threads \ {t} : pc'[u] = pc[u] /\ seen'[u] = seen[u]
        /\ seen' \in [Threads -> Keys \cup {Empty}] /\ seen'[t] = table[Slot(t)]
    BY <1>1, <1>2, <1>3, <1>9, Zenon DEF TypeSlots
  <2>2. SlotsTyped'
    BY <1>1, <1>2, <1>6, <1>9, <2>1, Zenon DEF SlotsTyped, TypeSlots
  <2>3. KeysPassed'
    BY <1>1, <1>4, <1>9, <2>2, KeysPassedKept, Zenon
  <2>4. /\ seen'[t] \in Keys \ {cur[t]} /\ dist[t] > DistIn(Slot(t), seen'[t])
    BY <1>1, <1>2, <1>9, <2>1, Zenon DEF Poorer, TypeSlots
  <2>5. SwapsRicher'
    BY <1>1, <1>9, <2>1, <2>4, Zenon DEF SwapsRicher, Slot, SlotAt, DistIn
  <2> QED BY <1>5, <2>1, <2>2, <2>3, <2>5, Zenon DEF SlotsInv
<1>10. CASE /\ table[Slot(t)] \notin {Empty, cur[t]} /\ ~Poorer(t)
            /\ dist' = [dist EXCEPT ![t] = @ + 1] /\ UNCHANGED <<table, pc, seen>>
  <2>1. DistIn(Slot(t), table[Slot(t)]) >= dist[t]
    <3>1. table[Slot(t)] \in Keys
      BY <1>1, <1>2, <1>10, Zenon DEF TypeSlots
    <3>2. DistIn(Slot(t), table[Slot(t)]) \in 0..(K - 1)
      BY <1>2, <3>1, DistanceOfSlot, Zenon
    <3> QED BY <1>2, <1>10, <3>2, TableAssumption DEF Poorer
  <2>2. Passed(cur[t], dist[t] + 1) /\ dist[t] + 1 < K
    BY <1>1, <1>10, <2>1, PassesOneMore, Zenon DEF Occupied
  <2>3. /\ dist' \in [Threads -> Nat] /\ dist'[t] = dist[t] + 1
        /\ \A u \in Threads \ {t} : dist'[u] = dist[u]
    BY <1>1, <1>10 DEF TypeSlots
  <2>4. SlotsTyped'
    BY <1>1, <1>2, <1>10, <2>2, <2>3, Zenon DEF SlotsTyped, TypeSlots
  <2>5. KeysPassed'
    <3>1. Passed(cur[t], dist[t])'
      BY <1>1, <1>10, <2>2, <2>3, Zenon DEF Passed, Occupied, DistIn, SlotAt
    <3> QED BY <1>1, <1>4, <1>10, <2>3, <2>4, <3>1, KeysPassedKept, Zenon
  <2>6. SwapsRicher'
    BY <1>1, <1>10, <2>3, Zenon DEF SwapsRicher, Slot
  <2> QED BY <1>3, <1>5, <1>10, <2>4, <2>5, <2>6, Zenon DEF SlotsInv
<1> QED BY <1>7, <1>8, <1>9, <1>10, Zenon DEF RobinHoodProbe, Goto, Advance

\* The displaced key has passed the slots nearer to its home when it was
\* placed, and the slot it leaves to a key that is further from home.
LEMMA RobinHoodSwapStep ==
  ASSUME SlotsInv, NEW t \in Threads, RobinHoodSwap(t)
  PROVE  SlotsInv'
<1>1. /\ algo = "robin_hood" /\ pc[t] = "swap"
      /\ SlotsTyped /\ TypeSlots /\ KeysPassed /\ SwapsRicher
      /\ UNCHANGED <<algo, rowKey, flag, probes, spins, overflow, spilled>>
      /\ pc' = [pc EXCEPT ![t] = "probe"] /\ seen' = [seen EXCEPT ![t] = Empty]
  BY Zenon DEF RobinHoodSwap, SlotsInv, SlotsTyped, Goto
<1>2. pc \in [Threads -> {"probe", "swap", "done"}]
  BY <1>1, Zenon DEF SlotsTyped, Labels
<1>3. /\ pc' \in [Threads -> {"probe", "swap", "done"}] /\ pc'[t] = "probe"
      /\ \A u \in Threads \ {t} : pc'[u] = pc[u] /\ seen'[u] = seen[u]
      /\ seen' \in [Threads -> Keys \cup {Empty}]
  BY <1>1, <1>2, Zenon DEF TypeSlots
<1>4. pc' \in [Threads -> Labels[algo]] /\ ClaimsExclusive'
  BY <1>1, <1>3, Zenon DEF Labels, ClaimsExclusive, Claims
<1>5. CASE UNCHANGED <<table, cur, dist>>
  <2>1. SlotsTyped'
    BY <1>1, <1>3, <1>4, <1>5, Zenon DEF SlotsTyped, TypeSlots
  <2>2. KeysPassed'
    <3>1. \A s \in Slots : SlotKept(s) /\ (Occupied(s)' => Occupied(s) /\ table'[s] = table[s])
      BY <1>1, <1>5, Zenon DEF SlotKept, Occupied
    <3> QED BY <1>1, <1>5, <2>1, <3>1, KeysPassedKept, Zenon
  <2>3. SwapsRicher'
    BY <1>1, <1>3, <1>5, Zenon DEF SwapsRicher, Slot
  <2> QED BY <1>4, <2>1, <2>2, <2>3, Zenon DEF SlotsInv
<1>6. CASE /\ table[Slot(t)] = seen[t] /\ table' = [table EXCEPT ![Slot(t)] = cur[t]]
           /\ cur' = [cur EXCEPT ![t] = seen[t]]
           /\ dist' = [dist EXCEPT ![t] = DistIn(Slot(t), seen[t]) + 1]
  <2>1. PICK s \in Slots, k \in Keys, o \in Keys, d \in 0..(K - 1) :
          s = Slot(t) /\ k = cur[t] /\ o = seen[t] /\ d = DistIn(s, o)
    <3>1. Slot(t) \in Slots /\ cur[t] \in Keys /\ seen[t] \in Keys
      BY <1>1, SlotOfThread, Zenon DEF SwapsRicher
    <3> QED BY <3>1, DistanceOfSlot, Zenon
  <2>2. /\ o # k /\ d < dist[t] /\ dist[t] \in 0..(K - 1) /\ DistIn(s, k) = dist[t]
        /\ table[s] = o /\ SlotAt(o, d) = s
    BY <1>1, <1>6, <2>1, SlotOfThread, DistanceOfSlot, Zenon DEF SwapsRicher
  <2>3. /\ table' \in [Slots -> Keys \cup {Empty}] /\ table'[s] = k
        /\ \A r \in Slots \ {s} : table'[r] = table[r]
        /\ cur' \in [Threads -> Keys] /\ cur'[t] = o
        /\ dist' \in [Threads -> Nat] /\ dist'[t] = d + 1
        /\ \A u \in Threads \ {t} : cur'[u] = cur[u] /\ dist'[u] = dist[u]
    BY <1>1, <1>6, <2>1 DEF TypeSlots
  <2>4. SlotsTyped'
    <3>1. \A u \in Threads : dist'[u] < K
      BY <1>1, <2>2, <2>3, TableAssumption DEF SlotsTyped
    <3> QED BY <1>1, <1>3, <1>4, <2>3, <3>1, Zenon DEF SlotsTyped, TypeSlots
  <2>5. \A r \in Slots : SlotKept(r)
    BY <1>1, <2>1, <2>2, <2>3, TableAssumption DEF SlotKept, Occupied
  <2>6. \A r \in Slots : Occupied(r)' =>
          \/ Occupied(r) /\ table'[r] = table[r]
          \/ \E u \in Threads : cur[u] = table'[r] /\ Slot(u) = r
    BY <1>1, <2>1, <2>3, Zenon DEF Occupied
  <2>7. Passed(o, d)'
    <3>1. Holds(s, o)
      BY <1>1, <2>2, TableAssumption, Zenon DEF Holds, Occupied
    <3>2. Passed(o, d)
      BY <1>1, <2>1, <3>1, Zenon DEF KeysPassed
    <3> QED BY <1>1, <2>4, <2>5, <3>2, PassedKept
  <2>8. Passed(o, d + 1)'
    <3>1. Occupied(SlotAt(o, d))' /\ table'[SlotAt(o, d)] # o
      BY <1>1, <2>2, <2>3, TableAssumption, Zenon DEF Occupied
    <3>2. DistIn(SlotAt(o, d), table'[SlotAt(o, d)]) >= d
      BY <2>2, <2>3
    <3> QED BY <2>7, <3>1, <3>2 DEF Passed, SlotAt, DistIn
  <2>9. KeysPassed'
    <3>1. Passed(cur[t], dist[t])'
      BY <2>3, <2>8, Zenon
    <3> QED BY <1>1, <2>3, <2>4, <2>5, <2>6, <3>1, KeysPassedKept, Zenon
  <2>10. SwapsRicher'
    BY <1>1, <1>3, <2>3, Zenon DEF SwapsRicher, Slot
  <2> QED BY <1>4, <2>4, <2>9, <2>10, Zenon DEF SlotsInv
<1> QED BY <1>5, <1>6, Zenon DEF RobinHoodSwap

ValidLabels == {"probe", "spin", "compare", "claimed", "stored", "spill", "done"}

\* What the steps of the kernel without a sentinel have in common: no claimed
\* slot is passed, and a published slot keeps its key.
LEMMA ValidFrame ==
  ASSUME SlotsInv, algo = "valid", UNCHANGED <<algo, rowKey, cur, probes, seen>>,
         pc' \in [Threads -> ValidLabels], SlotsTyped',
         \A s \in Slots : flag[s] = 2 => flag'[s] = 2 /\ table'[s] = table[s],
         \A s \in Slots : flag'[s] = 2 =>
           \/ flag[s] = 2
           \/ \E t \in Threads : cur[t] = table'[s] /\ Slot(t) = s,
         \A t \in Threads : dist'[t] = dist[t] \/ Passed(cur[t], dist[t])'
  PROVE  KeysPassed' /\ SwapsRicher'
<1>1. \A s \in Slots : SlotKept(s)
  BY Zenon DEF SlotKept, Occupied
<1>2. \A s \in Slots : Occupied(s)' =>
        \/ Occupied(s) /\ table'[s] = table[s]
        \/ \E t \in Threads : cur[t] = table'[s] /\ Slot(t) = s
  BY Zenon DEF Occupied
<1>3. KeysPassed'
  BY <1>1, <1>2, KeysPassedKept, Zenon DEF SlotsInv
<1>4. SwapsRicher'
  BY Zenon DEF SwapsRicher, ValidLabels
<1> QED BY <1>3, <1>4, Zenon

\* A key that has a slot keeps it, and a spilled or counted key stays so.
LEMMA ValidNotLost ==
  ASSUME SlotsInv, algo = "valid", UNCHANGED <<algo, rowKey>>, NoKeyLost, NEW t \in Threads,
         \A u \in Threads \ {t} : pc'[u] = pc[u],
         \A s \in Slots : flag[s] = 2 => flag'[s] = 2 /\ table'[s] = table[s],
         spilled \subseteq spilled', overflow' \in Nat, overflow <= overflow',
         pc'[t] = "done" =>
           \/ \E s \in Slots : flag'[s] = 2 /\ table'[s] = rowKey[t]
           \/ rowKey[t] \in spilled' \/ overflow' > MaxSpill
  PROVE  NoKeyLost'
<1>1. overflow \in Nat /\ MaxSpill \in Nat
  BY TableAssumption, Zenon DEF SlotsInv, SlotsTyped, TypeSlots
<1>2. ASSUME NEW u \in Threads, pc'[u] = "done", u # t
      PROVE  \/ \E s \in Slots : flag'[s] = 2 /\ table'[s] = rowKey[u]
             \/ rowKey[u] \in spilled' \/ overflow' > MaxSpill
  BY <1>1, <1>2 DEF NoKeyLost, Holds, Occupied
<1> QED BY <1>2, Zenon DEF NoKeyLost, Holds, Occupied

LEMMA ValidClaimStep ==
  ASSUME SlotsInv, NEW t \in Threads, ValidProbe(t)
  PROVE  SlotsInv' /\ (NoKeyLost => NoKeyLost')
<1>1. /\ algo = "valid" /\ pc[t] = "probe" /\ SlotsTyped /\ TypeSlots /\ KeysPassed
      /\ UNCHANGED <<algo, rowKey, table, cur, dist, probes, seen, overflow, spilled>>
      /\ spins' = [spins EXCEPT ![t] = 0]
  BY Zenon DEF ValidProbe, SlotsInv, SlotsTyped
<1>2. /\ Slot(t) \in Slots /\ ~(dist[t] >= MaxProbes) /\ spins' \in [Threads -> Nat]
      /\ pc \in [Threads -> ValidLabels]
  BY <1>1, SlotOfThread, TableAssumption DEF MaxProbes, TypeSlots, SlotsTyped, Labels, ValidLabels
<1>3. PICK label \in {"claimed", "spin"} :
        /\ pc' = [pc EXCEPT ![t] = label]
        /\ label = "claimed" => flag[Slot(t)] = 0 /\ flag' = [flag EXCEPT ![Slot(t)] = 1]
        /\ label = "spin" => UNCHANGED flag
  BY <1>2, Zenon DEF ValidProbe, Goto
<1>4. /\ pc' \in [Threads -> ValidLabels] /\ pc'[t] = label
      /\ \A u \in Threads \ {t} : pc'[u] = pc[u]
      /\ flag' \in [Slots -> 0..2]
      /\ \A s \in Slots : (s # Slot(t) \/ label = "spin") => flag'[s] = flag[s]
      /\ label = "claimed" => flag'[Slot(t)] = 1
  BY <1>1, <1>2, <1>3 DEF ValidLabels, TypeSlots
<1>5. \A s \in Slots : flag[s] = 2 <=> flag'[s] = 2
  BY <1>3, <1>4
<1>6. SlotsTyped'
  BY <1>1, <1>2, <1>4, Zenon DEF SlotsTyped, TypeSlots, Labels, ValidLabels
<1>7. KeysPassed' /\ SwapsRicher'
  BY <1>1, <1>4, <1>5, <1>6, ValidFrame, Zenon
<1>8. \A u \in Threads : Slot(u)' = Slot(u) /\ Slot(u) \in Slots
  BY <1>1, SlotOfThread, Zenon DEF Slot, SlotAt
<1>9. ClaimsExclusive'
  <2>1. \A u \in Threads : Claims(u)' => Claims(u) \/ (u = t /\ label = "claimed")
    BY <1>4, Zenon DEF Claims
  <2>2. label = "claimed" => \A u \in Threads : Claims(u) => Slot(u) # Slot(t)
    BY <1>3 DEF SlotsInv, ClaimsExclusive
  <2> QED BY <1>1, <1>3, <1>4, <1>5, <1>8, <2>1, <2>2 DEF SlotsInv, ClaimsExclusive, Claims
<1>10. NoKeyLost => NoKeyLost'
  <2>1. overflow' \in Nat /\ overflow <= overflow' /\ spilled \subseteq spilled'
    BY <1>1 DEF TypeSlots
  <2> QED BY <1>1, <1>4, <1>5, <2>1, ValidNotLost, Zenon
<1> QED BY <1>6, <1>7, <1>9, <1>10, Zenon DEF SlotsInv

LEMMA ValidReadStep ==
  ASSUME SlotsInv, NEW t \in Threads, ValidSpin(t) \/ ValidCompare(t)
  PROVE  SlotsInv' /\ (NoKeyLost => NoKeyLost')
<1>1. /\ algo = "valid" /\ SlotsTyped /\ TypeSlots /\ KeysPassed /\ ClaimsExclusive
      /\ UNCHANGED <<algo, rowKey, table, flag, cur, probes, seen, overflow, spilled>>
  BY Zenon DEF ValidSpin, ValidCompare, SlotsInv, SlotsTyped
<1>2. /\ Slot(t) \in Slots /\ pc \in [Threads -> ValidLabels]
  BY <1>1, SlotOfThread, Zenon DEF SlotsTyped, Labels, ValidLabels
<1>3. spins' \in [Threads -> Nat]
  BY <1>1 DEF ValidSpin, ValidCompare, TypeSlots
<1>4. PICK label \in {"spill", "compare", "spin", "done", "probe"} :
        /\ pc' = [pc EXCEPT ![t] = label]
        /\ label = "compare" => flag[Slot(t)] = 2 /\ UNCHANGED dist
        /\ label = "done" => flag[Slot(t)] = 2 /\ table[Slot(t)] = cur[t]
        /\ label # "probe" => UNCHANGED dist
        /\ label = "probe" => /\ flag[Slot(t)] = 2 /\ table[Slot(t)] # cur[t]
                              /\ dist' = [dist EXCEPT ![t] = @ + 1]
  BY <1>1, Zenon DEF ValidSpin, ValidCompare, Goto, Advance, ClaimsExclusive
<1>5. /\ pc' \in [Threads -> ValidLabels] /\ pc'[t] = label
      /\ \A u \in Threads \ {t} : pc'[u] = pc[u]
  BY <1>2, <1>4, Zenon DEF ValidLabels
<1>6. /\ dist' \in [Threads -> Nat] /\ \A u \in Threads \ {t} : dist'[u] = dist[u]
      /\ dist'[t] = IF label = "probe" THEN dist[t] + 1 ELSE dist[t]
  BY <1>1, <1>4 DEF TypeSlots
<1>7. label = "probe" => Passed(cur[t], dist[t] + 1) /\ dist[t] + 1 < K
  BY <1>1, <1>4, PassesOneMore, Zenon DEF Occupied
<1>8. SlotsTyped'
  <2>1. \A u \in Threads : dist'[u] < K
    BY <1>1, <1>6, <1>7, Zenon DEF SlotsTyped
  <2> QED BY <1>1, <1>3, <1>5, <1>6, <2>1, Zenon DEF SlotsTyped, TypeSlots, Labels, ValidLabels
<1>9. label = "probe" => Passed(cur[t], dist[t])'
  BY <1>1, <1>6, <1>7, Zenon DEF Passed, Occupied
<1>10. KeysPassed' /\ SwapsRicher'
  BY <1>1, <1>5, <1>6, <1>8, <1>9, ValidFrame, Zenon
<1>11. \A u \in Threads : Claims(u)' => Claims(u) /\ u # t
  BY <1>5, Zenon DEF Claims
<1>12. \A u \in Threads : u # t \/ label = "compare" => Slot(u)' = Slot(u)
  BY <1>1, <1>4, <1>6, Zenon DEF Slot, SlotAt
<1>13. ClaimsExclusive'
  BY <1>1, <1>4, <1>5, <1>11, <1>12 DEF ClaimsExclusive
<1>14. NoKeyLost => NoKeyLost'
  <2>1. overflow' \in Nat /\ overflow <= overflow' /\ spilled \subseteq spilled'
    BY <1>1 DEF TypeSlots
  <2>2. pc'[t] = "done" => \E s \in Slots : flag'[s] = 2 /\ table'[s] = rowKey[t]
    BY <1>1, <1>2, <1>4, <1>5, Zenon DEF SlotsTyped
  <2> QED BY <1>1, <1>5, <2>1, <2>2, ValidNotLost, Zenon
<1> QED BY <1>8, <1>10, <1>13, <1>14, Zenon DEF SlotsInv

LEMMA ValidWriteStep ==
  ASSUME SlotsInv, NEW t \in Threads, ValidStore(t) \/ ValidPublish(t)
  PROVE  SlotsInv' /\ (NoKeyLost => NoKeyLost')
<1>1. /\ algo = "valid" /\ SlotsTyped /\ TypeSlots /\ KeysPassed /\ ClaimsExclusive
      /\ UNCHANGED <<algo, rowKey, cur, dist, probes, spins, seen, overflow, spilled>>
      /\ Claims(t)
  BY Zenon DEF ValidStore, ValidPublish, SlotsInv, SlotsTyped, Claims
<1>2. /\ Slot(t) \in Slots /\ cur[t] \in Keys /\ pc \in [Threads -> ValidLabels]
      /\ flag[Slot(t)] = 1
  BY <1>1, SlotOfThread, Zenon DEF SlotsTyped, Labels, ValidLabels, ClaimsExclusive
<1>3. PICK label \in {"stored", "done"} :
        /\ pc' = [pc EXCEPT ![t] = label]
        /\ label = "stored" => table' = [table EXCEPT ![Slot(t)] = cur[t]] /\ UNCHANGED flag
        /\ label = "done" => /\ table[Slot(t)] = cur[t] /\ UNCHANGED table
                             /\ flag' = [flag EXCEPT ![Slot(t)] = 2]
  BY <1>1, Zenon DEF ValidStore, ValidPublish, Goto, ClaimsExclusive
<1>4. /\ pc' \in [Threads -> ValidLabels] /\ pc'[t] = label
      /\ \A u \in Threads \ {t} : pc'[u] = pc[u]
  BY <1>2, <1>3, Zenon DEF ValidLabels
<1>5. /\ table' \in [Slots -> Keys \cup {Empty}] /\ flag' \in [Slots -> 0..2]
      /\ \A s \in Slots \ {Slot(t)} : table'[s] = table[s] /\ flag'[s] = flag[s]
      /\ table'[Slot(t)] = cur[t] /\ flag'[Slot(t)] = IF label = "done" THEN 2 ELSE 1
  BY <1>1, <1>2, <1>3 DEF TypeSlots
<1>6. SlotsTyped'
  <2>1. \A s \in Slots : table'[s] \in Keys
    BY <1>1, <1>2, <1>5, Zenon DEF SlotsTyped
  <2> QED BY <1>1, <1>4, <1>5, <2>1, Zenon DEF SlotsTyped, TypeSlots, Labels, ValidLabels
<1>7. \A s \in Slots : flag[s] = 2 => flag'[s] = 2 /\ table'[s] = table[s]
  BY <1>2, <1>5
<1>8. KeysPassed' /\ SwapsRicher'
  <2>1. \A s \in Slots : flag'[s] = 2 =>
          flag[s] = 2 \/ \E u \in Threads : cur[u] = table'[s] /\ Slot(u) = s
    BY <1>5, Zenon
  <2> QED BY <1>1, <1>4, <1>6, <1>7, <2>1, ValidFrame, Zenon
<1>9. \A u \in Threads : Slot(u)' = Slot(u) /\ Slot(u) \in Slots
  BY <1>1, SlotOfThread, Zenon DEF Slot, SlotAt
<1>10. ClaimsExclusive'
  <2>1. \A u \in Threads : Claims(u)' => Claims(u) /\ (u = t => label = "stored")
    BY <1>1, <1>4, Zenon DEF Claims
  <2>2. \A u \in Threads \ {t} : Claims(u) => Slot(u) # Slot(t)
    BY <1>1, Zenon DEF ClaimsExclusive
  <2>3. \A u \in Threads : Claims(u)' => flag'[Slot(u)] = 1
    BY <1>1, <1>5, <1>9, <2>1, <2>2, Zenon DEF ClaimsExclusive
  <2>4. \A u \in Threads : pc'[u] = "stored" => table'[Slot(u)] = cur[u]
    BY <1>1, <1>4, <1>5, <1>9, <2>2, Zenon DEF ClaimsExclusive, Claims
  <2>5. \A u \in Threads : pc'[u] = "compare" => flag'[Slot(u)] = 2
    BY <1>1, <1>4, <1>7, <1>9, ZenonT(40) DEF ClaimsExclusive
  <2> QED BY <1>1, <1>9, <2>1, <2>3, <2>4, <2>5 DEF ClaimsExclusive
<1>11. NoKeyLost => NoKeyLost'
  <2>1. overflow' \in Nat /\ overflow <= overflow' /\ spilled \subseteq spilled'
    BY <1>1 DEF TypeSlots
  <2>2. pc'[t] = "done" => \E s \in Slots : flag'[s] = 2 /\ table'[s] = rowKey[t]
    BY <1>1, <1>2, <1>4, <1>5, Zenon DEF SlotsTyped
  <2> QED BY <1>1, <1>4, <1>7, <2>1, <2>2, ValidNotLost, Zenon
<1> QED BY <1>6, <1>8, <1>10, <1>11, Zenon DEF SlotsInv

LEMMA ValidSpillStep ==
  ASSUME SlotsInv, NEW t \in Threads, ValidSpill(t)
  PROVE  SlotsInv' /\ (NoKeyLost => NoKeyLost')
<1>1. /\ algo = "valid" /\ SlotsTyped /\ TypeSlots /\ KeysPassed /\ ClaimsExclusive
      /\ UNCHANGED <<algo, rowKey, table, flag, cur, dist, probes, spins, seen>>
      /\ pc' = [pc EXCEPT ![t] = "done"] /\ overflow' = overflow + 1
      /\ spilled' = IF overflow < MaxSpill THEN spilled \cup {cur[t]} ELSE spilled
  BY Zenon DEF ValidSpill, SlotsInv, SlotsTyped, Goto
<1>2. /\ cur[t] \in Keys /\ cur[t] = rowKey[t] /\ pc \in [Threads -> ValidLabels]
      /\ overflow \in Nat /\ MaxSpill \in Nat
  BY <1>1, TableAssumption, Zenon DEF SlotsTyped, TypeSlots, Labels, ValidLabels
<1>3. /\ pc' \in [Threads -> ValidLabels] /\ pc'[t] = "done"
      /\ \A u \in Threads \ {t} : pc'[u] = pc[u]
  BY <1>1, <1>2, Zenon DEF ValidLabels
<1>4. /\ spilled' \subseteq Keys /\ spilled \subseteq spilled' /\ overflow' \in Nat
      /\ overflow <= overflow' /\ (rowKey[t] \in spilled' \/ overflow' > MaxSpill)
  BY <1>1, <1>2 DEF TypeSlots
<1>5. SlotsTyped'
  BY <1>1, <1>3, <1>4, Zenon DEF SlotsTyped, TypeSlots, Labels, ValidLabels
<1>6. KeysPassed' /\ SwapsRicher'
  BY <1>1, <1>3, <1>5, ValidFrame, ZenonT(40)
<1>7. ClaimsExclusive'
  BY <1>1, <1>3 DEF ClaimsExclusive, Claims, Slot, SlotAt
<1>8. NoKeyLost => NoKeyLost'
  BY <1>1, <1>3, <1>4, ValidNotLost, Zenon
<1> QED BY <1>5, <1>6, <1>7, <1>8, Zenon DEF SlotsInv

LEMMA KeysStepInv ==
  ASSUME SlotsInv, NEW t \in Threads, KeysStep(t)
  PROVE  SlotsInv' /\ (NoKeyLost => NoKeyLost')
<1>1. CASE RobinHoodProbe(t) \/ RobinHoodSwap(t)
  <2>1. SlotsInv'
    BY <1>1, RobinHoodProbeStep, RobinHoodSwapStep, Zenon
  <2>2. NoKeyLost'
    BY <1>1, Zenon DEF RobinHoodProbe, RobinHoodSwap, NoKeyLost
  <2> QED BY <2>1, <2>2, Zenon
<1> QED
  BY <1>1, LinearStep, ValidClaimStep, ValidReadStep, ValidWriteStep, ValidSpillStep, Zenon
     DEF KeysStep

LEMMA SlotsStutter ==
  ASSUME SlotsInv, UNCHANGED slotVars
  PROVE  SlotsInv' /\ (NoKeyLost => NoKeyLost')
<1> USE DEF slotVars
<1>1. SlotsTyped'
  BY ZenonT(40) DEF SlotsInv, SlotsTyped, TypeSlots
<1>2. KeysPassed'
  BY DEF SlotsInv, KeysPassed, Holds, Occupied, Passed
<1>3. SwapsRicher' /\ ClaimsExclusive'
  BY Zenon DEF SlotsInv, SwapsRicher, ClaimsExclusive, Claims, Slot, SlotAt
<1>4. NoKeyLost => NoKeyLost'
  BY Zenon DEF NoKeyLost, Holds, Occupied
<1> QED BY <1>1, <1>2, <1>3, <1>4, Zenon DEF SlotsInv

-----------------------------------------------------------------------------
(***************************************************************************)
(* The keys that occur, and the claims.                                    *)
(***************************************************************************)

\* Keys come from rows, and a claimed slot is going to be published.
OnlyRows ==
  /\ \A t \in Threads : cur[t] \in RowKeys
  /\ \A s \in Slots : Occupied(s) => table[s] \in RowKeys
  /\ spilled \subseteq RowKeys

ClaimsOwned ==
  \A s \in Slots : flag[s] = 1 => algo = "valid" /\ \E t \in Threads : Claims(t) /\ Slot(t) = s

KeysInv == SlotsInv /\ NoKeyLost /\ OnlyRows /\ ClaimsOwned

Placed(t) ==
  \/ \E s \in Slots : Holds(s, rowKey[t])
  \/ algo = "valid" /\ (rowKey[t] \in spilled \/ overflow > MaxSpill)

\* What the keys kernel leaves behind, and the aggregate keeps.
Settled ==
  /\ overflow \in Nat
  /\ OneSlotPerKey
  /\ algo # "robin_hood" => \A t \in Threads : Placed(t)
  /\ \A s \in Slots : Occupied(s) => table[s] \in RowKeys
  /\ spilled \subseteq RowKeys
  /\ algo = "valid" => \A s \in Slots : flag[s] \in {0, 2}

GroupsInv ==
  /\ IF phase = "keys" THEN KeysInv ELSE Settled
  /\ GroupsOfRows

LEMMA GroupsInit ==
  ASSUME GroupByInit
  PROVE  GroupsInv
<1>1. InitSlots /\ phase = "keys"
  BY Zenon DEF GroupByInit
<1>2. SlotsInv /\ NoKeyLost
  BY <1>1, SlotsInit, Zenon
<1>3. OnlyRows /\ ClaimsOwned
  BY <1>1 DEF InitSlots, OnlyRows, RowKeys, ClaimsOwned, Occupied
<1> QED BY <1>1, <1>2, <1>3, Zenon DEF GroupsInv, KeysInv, GroupsOfRows

\* The sentinel kernels leave the flags alone.
LEMMA SentinelRows ==
  ASSUME KeysInv, NEW t \in Threads, LinearProbe(t) \/ RobinHoodProbe(t) \/ RobinHoodSwap(t)
  PROVE  OnlyRows' /\ ClaimsOwned'
<1>1. /\ algo # "valid" /\ UNCHANGED <<algo, rowKey, flag, spilled>>
      /\ TypeSlots /\ OnlyRows /\ ClaimsOwned /\ SwapsRicher
      /\ Slot(t) \in Slots
  BY SlotOfThread, Zenon
     DEF KeysInv, SlotsInv, SlotsTyped, LinearProbe, RobinHoodProbe, RobinHoodSwap
<1>2. ClaimsOwned'
  BY <1>1, Zenon DEF ClaimsOwned
<1>3. table' = table \/ table' = [table EXCEPT ![Slot(t)] = cur[t]]
  BY Zenon DEF LinearProbe, RobinHoodProbe, RobinHoodSwap
<1>4. \A s \in Slots : table'[s] = table[s] \/ table'[s] = cur[t]
  BY <1>1, <1>3, Zenon DEF TypeSlots
<1>5. \/ cur' = cur
      \/ /\ pc[t] = "swap" /\ table[Slot(t)] = seen[t]
         /\ cur' = [cur EXCEPT ![t] = seen[t]]
  BY Zenon DEF LinearProbe, RobinHoodProbe, RobinHoodSwap
<1>6. pc[t] = "swap" /\ table[Slot(t)] = seen[t] => seen[t] \in RowKeys
  BY <1>1, TableAssumption, Zenon DEF SwapsRicher, OnlyRows, Occupied
<1>7. \A u \in Threads : cur'[u] \in RowKeys
  BY <1>1, <1>5, <1>6, Zenon DEF TypeSlots, OnlyRows
<1>8. RowKeys' = RowKeys
  BY <1>1, Zenon DEF RowKeys
<1>9. \A s \in Slots : Occupied(s)' => table'[s] \in RowKeys
  BY <1>1, <1>4, Zenon DEF OnlyRows, Occupied
<1>10. OnlyRows'
  BY <1>1, <1>7, <1>8, <1>9, Zenon DEF OnlyRows
<1> QED BY <1>2, <1>10, Zenon

\* The kernel without a sentinel keeps the key in hand.
LEMMA ValidRows ==
  ASSUME KeysInv, NEW t \in Threads,
         \/ ValidProbe(t) \/ ValidSpin(t) \/ ValidCompare(t)
         \/ ValidStore(t) \/ ValidPublish(t) \/ ValidSpill(t)
  PROVE  OnlyRows' /\ ClaimsOwned'
<1>1. /\ algo = "valid" /\ UNCHANGED <<algo, rowKey, cur>>
      /\ TypeSlots /\ OnlyRows /\ ClaimsOwned /\ ClaimsExclusive
      /\ pc \in [Threads -> ValidLabels]
      /\ \A u \in Threads : Slot(u) \in Slots
  BY SlotOfThread
     DEF KeysInv, SlotsInv, SlotsTyped, Labels, ValidLabels,
         ValidProbe, ValidSpin, ValidCompare, ValidStore, ValidPublish, ValidSpill
<1>2. RowKeys' = RowKeys /\ cur[t] \in RowKeys
  BY <1>1, Zenon DEF RowKeys, OnlyRows
<1>3. spilled' \subseteq RowKeys
  BY <1>1, <1>2, Zenon
     DEF OnlyRows, ValidProbe, ValidSpin, ValidCompare, ValidStore, ValidPublish, ValidSpill
<1>4. PICK label : pc' = [pc EXCEPT ![t] = label]
  BY Zenon DEF ValidProbe, ValidSpin, ValidCompare, ValidStore, ValidPublish, ValidSpill, Goto
<1>5. /\ pc'[t] = label /\ \A u \in Threads \ {t} : pc'[u] = pc[u]
  BY <1>1, <1>4, Zenon
<1>6. \A u \in Threads \ {t} : Slot(u)' = Slot(u)
  <2>1. \A u \in Threads \ {t} : dist'[u] = dist[u]
    BY <1>1, Zenon
       DEF TypeSlots, ValidProbe, ValidSpin, ValidCompare, ValidStore, ValidPublish, ValidSpill,
           Advance
  <2> QED BY <1>1, <2>1, Zenon DEF Slot, SlotAt
<1>7. CASE ValidProbe(t)
  <2>1. /\ UNCHANGED <<table, dist>>
        /\ \/ UNCHANGED flag /\ pc[t] = "probe"
           \/ flag' = [flag EXCEPT ![Slot(t)] = 1] /\ label = "claimed"
    BY <1>1, <1>4, <1>5, <1>7, Zenon DEF ValidProbe, Goto
  <2>2. \A s \in Slots : \/ flag'[s] = flag[s] /\ (flag' = flag \/ s # Slot(t))
                         \/ s = Slot(t) /\ flag'[s] = 1 /\ label = "claimed"
    BY <1>1, <2>1, Zenon DEF TypeSlots
  <2>3. Slot(t)' = Slot(t)
    BY <1>1, <2>1, Zenon DEF Slot, SlotAt
  <2>4. pc[t] = "probe"
    BY <1>7, Zenon DEF ValidProbe
  <2>5. ClaimsOwned'
    BY <1>1, <1>5, <1>6, <2>2, <2>3, <2>4, ZenonT(40) DEF ClaimsOwned, Claims
  <2>6. OnlyRows'
    BY <1>1, <1>2, <1>3, <2>1, <2>2 DEF OnlyRows, Occupied
  <2> QED BY <2>5, <2>6, Zenon
<1>8. CASE ValidSpin(t) \/ ValidCompare(t) \/ ValidSpill(t)
  <2>1. UNCHANGED <<table, flag>> /\ ~Claims(t)
    BY <1>8, Zenon DEF ValidSpin, ValidCompare, ValidSpill, Claims
  <2>2. ClaimsOwned'
    BY <1>1, <1>5, <1>6, <2>1, Zenon DEF ClaimsOwned, Claims
  <2>3. OnlyRows'
    BY <1>1, <1>2, <1>3, <2>1, Zenon DEF OnlyRows, Occupied
  <2> QED BY <2>2, <2>3, Zenon
<1>9. CASE ValidStore(t) \/ ValidPublish(t)
  <2>1. /\ UNCHANGED dist /\ Claims(t)
        /\ table' = table \/ table' = [table EXCEPT ![Slot(t)] = cur[t]]
        /\ \/ UNCHANGED flag /\ label = "stored"
           \/ flag' = [flag EXCEPT ![Slot(t)] = 2]
    BY <1>1, <1>4, <1>5, <1>9, Zenon DEF ValidStore, ValidPublish, Goto, Claims
  <2>2. /\ flag' = flag \/ \A s \in Slots : flag'[s] = IF s = Slot(t) THEN 2 ELSE flag[s]
        /\ \A s \in Slots : s # Slot(t) => table'[s] = table[s] /\ flag'[s] = flag[s]
    BY <1>1, <2>1, Zenon DEF TypeSlots
  <2>3. table'[Slot(t)] = cur[t]
    BY <1>1, <1>9, Zenon DEF TypeSlots, ValidStore, ValidPublish, ClaimsExclusive
  <2>4. Slot(t)' = Slot(t)
    BY <1>1, <2>1, Zenon DEF Slot, SlotAt
  <2>5. flag'[Slot(t)] = 1 => label = "stored"
    BY <1>1, <2>1, SMTT(30) DEF TypeSlots
  <2>6. ClaimsOwned'
    BY <1>1, <1>5, <1>6, <2>2, <2>4, <2>5 DEF ClaimsOwned, Claims
  <2>7. OnlyRows'
    BY <1>1, <1>2, <1>3, <2>2, <2>3, Zenon DEF OnlyRows, Occupied
  <2> QED BY <2>6, <2>7, Zenon
<1> QED BY <1>7, <1>8, <1>9, ZenonT(40)

-----------------------------------------------------------------------------
(***************************************************************************)
(* The whole GROUP BY.                                                     *)
(***************************************************************************)

LEMMA KeysKernelStep ==
  ASSUME GroupsInv, NEW t \in Threads, KeysKernel(t)
  PROVE  GroupsInv'
<1>1. phase = "keys" /\ KeysInv /\ KeysStep(t) /\ UNCHANGED aggVars
  BY Zenon DEF KeysKernel, GroupsInv
<1>2. SlotsInv' /\ NoKeyLost'
  BY <1>1, KeysStepInv, Zenon DEF KeysInv
<1>3. OnlyRows' /\ ClaimsOwned'
  BY <1>1, SentinelRows, ValidRows, Zenon DEF KeysStep
<1> QED BY <1>1, <1>2, <1>3, Zenon DEF GroupsInv, KeysInv, GroupsOfRows, aggVars

LEMMA LaunchAggStep ==
  ASSUME GroupsInv, NEW op, NEW rows, LaunchAgg(op, rows)
  PROVE  GroupsInv'
<1>1. /\ phase = "keys" /\ phase' = "agg" /\ KeysInv /\ \A t \in Threads : pc[t] = "done"
      /\ UNCHANGED <<algo, rowKey, table, flag, overflow, spilled>>
  BY Zenon DEF LaunchAgg, GroupsInv
<1>2. OneSlotPerKey /\ overflow \in Nat
  BY <1>1, PassedOneSlot, Zenon DEF KeysInv, SlotsInv, SlotsTyped, TypeSlots
<1>3. algo # "robin_hood" => \A t \in Threads : Placed(t)
  BY <1>1, ZenonT(40) DEF KeysInv, NoKeyLost, Placed
<1>4. \A s \in Slots : flag[s] \in {0, 2}
  BY <1>1 DEF KeysInv, SlotsInv, SlotsTyped, TypeSlots, ClaimsOwned, Claims
<1>5. Settled
  BY <1>1, <1>2, <1>3, <1>4, Zenon DEF Settled, KeysInv, OnlyRows
<1>6. Settled'
  BY <1>1, <1>5 DEF Settled, OneSlotPerKey, Placed, Holds, Occupied, RowKeys
<1> QED BY <1>1, <1>6, Zenon DEF GroupsInv, GroupsOfRows

\* The aggregate changes neither table nor spilled keys; it may count a row.
LEMMA AggKeepsKeys ==
  ASSUME NEW t \in Threads, AggStep(t)
  PROVE  /\ phase = "agg" /\ UNCHANGED <<keysTable, phase>>
         /\ overflow' \in {overflow, overflow + 1}
  BY Zenon DEF AggStep, InAgg, launch, Missing, AtomicAdd, MaxLoad, MaxCas, DecLock, DecLoadLo,
         DecLoadHi, DecStoreLo, DecStoreHi, DecUnlock

LEMMA AggStepInv ==
  ASSUME GroupsInv, NEW t \in Threads, AggStep(t)
  PROVE  GroupsInv'
<1>1. /\ phase = "agg" /\ phase' = "agg" /\ Settled
      /\ UNCHANGED <<algo, rowKey, table, flag, spilled>>
      /\ overflow' \in Nat /\ overflow <= overflow' /\ overflow \in Nat /\ MaxSpill \in Nat
  BY AggKeepsKeys, TableAssumption DEF keysTable, GroupsInv, Settled
<1>2. \A u \in Threads : Placed(u) => Placed(u)'
  BY <1>1, SMTT(30) DEF Placed, Holds, Occupied
<1>3. Settled'
  BY <1>1, <1>2 DEF Settled, OneSlotPerKey, Holds, Occupied, RowKeys
<1> QED BY <1>1, <1>3, ZenonT(40) DEF GroupsInv, GroupsOfRows

LEMMA CollectStep ==
  ASSUME GroupsInv, Collect
  PROVE  GroupsInv'
<1>1. /\ phase = "agg" /\ phase' = "collected" /\ Settled
      /\ UNCHANGED <<algo, rowKey, table, flag, overflow, spilled>>
      /\ result' = IF algo = "valid" THEN ValidGroups ELSE SentinelGroups
  BY Zenon DEF Collect, GroupsInv, slotVars
<1>2. Settled'
  BY <1>1 DEF Settled, OneSlotPerKey, Placed, Holds, Occupied, RowKeys
<1>3. \A t \in Threads : rowKey[t] \in RowKeys
  BY Zenon DEF RowKeys
<1>4. ASSUME result' # Failed
      PROVE  /\ {g[1] : g \in result'} \subseteq RowKeys
             /\ algo # "robin_hood" => RowKeys \subseteq {g[1] : g \in result'}
  <2>1. CASE algo = "valid"
    <3>1. PICK groups : groups = {table[s] : s \in {r \in Slots : flag[r] # 0}} \cup spilled
      BY ZenonT(40)
    <3>2. overflow <= MaxSpill /\ result' = {<<k, Folded(k)>> : k \in groups}
      BY <1>1, <1>4, <2>1, <3>1, TableAssumption DEF ValidGroups, Settled
    <3>3. {g[1] : g \in result'} = groups
      <4>1. ASSUME NEW g \in result' PROVE g[1] \in groups
        BY <3>2
      <4>2. ASSUME NEW k \in groups PROVE \E g \in result' : g[1] = k
        <5>1. <<k, Folded(k)>> \in result' /\ <<k, Folded(k)>>[1] = k
          BY <3>2, Zenon
        <5> QED BY <5>1, Zenon
      <4> QED BY <4>1, <4>2, Zenon
    <3>4. groups \subseteq RowKeys
      BY <1>1, <2>1, <3>1, ZenonT(40) DEF Settled, Occupied
    <3>5. \A t \in Threads : rowKey[t] \in groups
      BY <1>1, <2>1, <3>1, <3>2, TableAssumption DEF Settled, Placed, Holds, Occupied
    <3> QED BY <3>3, <3>4, <3>5, Zenon DEF RowKeys
  <2>2. CASE algo # "valid"
    <3>1. result' = {<<table[s], Joined(acc[s])>> : s \in {r \in Slots : table[r] # Empty}}
      BY <1>1, <1>4, <2>2, Zenon DEF SentinelGroups
    <3>2. {g[1] : g \in result'} = {table[s] : s \in {r \in Slots : table[r] # Empty}}
      <4>1. ASSUME NEW g \in result'
            PROVE  \E s \in Slots : table[s] # Empty /\ g[1] = table[s]
        BY <3>1
      <4>2. ASSUME NEW s \in Slots, table[s] # Empty
            PROVE  \E g \in result' : g[1] = table[s]
        <5>1. /\ <<table[s], Joined(acc[s])>> \in result'
              /\ <<table[s], Joined(acc[s])>>[1] = table[s]
          BY <3>1, <4>2, Zenon
        <5> QED BY <5>1, Zenon
      <4> QED BY <4>1, <4>2
    <3>3. {g[1] : g \in result'} \subseteq RowKeys
      BY <1>1, <2>2, <3>2, Zenon DEF Settled, Occupied
    <3>4. algo # "robin_hood" =>
            \A t \in Threads : rowKey[t] \in {g[1] : g \in result'}
      BY <1>1, <2>2, <3>2, Zenon DEF Settled, Placed, Holds, Occupied
    <3> QED BY <3>3, <3>4, Zenon DEF RowKeys
  <2> QED BY <2>1, <2>2, Zenon
<1>5. GroupsOfRows'
  BY <1>1, <1>4, Zenon DEF GroupsOfRows, RowKeys
<1> QED BY <1>1, <1>2, <1>5, Zenon DEF GroupsInv

\* null_empty_groups keeps the keys of the groups.
LEMMA NullEmptyGroupsStep ==
  ASSUME GroupsInv, NullEmptyGroups
  PROVE  GroupsInv'
<1>1. /\ phase = "collected" /\ phase' = "end" /\ Settled /\ GroupsOfRows
      /\ UNCHANGED <<algo, rowKey, table, flag, overflow, spilled>>
  BY Zenon DEF NullEmptyGroups, GroupsInv, slotVars
<1>2. Settled'
  BY <1>1 DEF Settled, OneSlotPerKey, Placed, Holds, Occupied, RowKeys
<1>3. RowKeys' = RowKeys
  BY <1>1, Zenon DEF RowKeys
<1>4. result' = result => GroupsOfRows'
  BY <1>1, <1>3, Zenon DEF GroupsOfRows
<1>5. result' = Failed => GroupsOfRows'
  BY Zenon DEF GroupsOfRows
<1>6. ASSUME result # Failed, NEW counted, result' = NullUnless(counted)
      PROVE  GroupsOfRows'
  <2>1. ASSUME NEW g \in result'
        PROVE  \E h \in result : g[1] = h[1]
    BY <1>6 DEF NullUnless
  <2>2. ASSUME NEW h \in result
        PROVE  \E g \in result' : g[1] = h[1]
    <3>1. PICK v : v = IF h[1] \in counted /\ RowsOf(h[1]) # {} THEN h[2] ELSE Null
      BY Zenon
    <3>2. <<h[1], v>> \in result' /\ <<h[1], v>>[1] = h[1]
      BY <1>6, <3>1 DEF NullUnless
    <3> QED BY <3>2, Zenon
  <2>3. {g[1] : g \in result'} = {h[1] : h \in result}
    <3>1. \A x : x \in {g[1] : g \in result'} => x \in {h[1] : h \in result}
      BY <2>1, Zenon
    <3>2. \A x : x \in {h[1] : h \in result} => x \in {g[1] : g \in result'}
      BY <2>2, Zenon
    <3> QED BY <3>1, <3>2, Zenon
  <2> QED BY <1>1, <1>3, <1>6, <2>3, Zenon DEF GroupsOfRows
<1>7. GroupsOfRows'
  <2>1. \/ result' = result \/ result' = Failed
        \/ result # Failed /\ \E counted : result' = NullUnless(counted)
    BY Zenon DEF NullEmptyGroups
  <2> QED BY <2>1, <1>4, <1>5, <1>6, Zenon
<1> QED BY <1>1, <1>2, <1>7, Zenon DEF GroupsInv

LEMMA GroupsStep == GroupsInv /\ [GroupByNext]_groupVars => GroupsInv'
<1>1. ASSUME GroupsInv, UNCHANGED groupVars
      PROVE  GroupsInv'
  <2>1. UNCHANGED slotVars /\ UNCHANGED <<phase, result>>
    BY <1>1, Zenon DEF groupVars, aggVars
  <2>2. KeysInv => KeysInv'
    <3>1. SlotsInv /\ NoKeyLost => SlotsInv' /\ NoKeyLost'
      BY <2>1, SlotsStutter, Zenon
    <3>2. OnlyRows /\ ClaimsOwned => OnlyRows' /\ ClaimsOwned'
      BY <2>1, Zenon DEF OnlyRows, RowKeys, Occupied, ClaimsOwned, Claims, Slot, SlotAt, slotVars
    <3> QED BY <3>1, <3>2, Zenon DEF KeysInv
  <2>3. Settled => Settled'
    BY <2>1 DEF Settled, OneSlotPerKey, Placed, Holds, Occupied, RowKeys, slotVars
  <2>4. GroupsOfRows => GroupsOfRows'
    BY <2>1, Zenon DEF GroupsOfRows, RowKeys, slotVars
  <2> QED BY <1>1, <2>1, <2>2, <2>3, <2>4, Zenon DEF GroupsInv
<1> QED BY <1>1, KeysKernelStep, LaunchAggStep, AggStepInv, CollectStep,
            NullEmptyGroupsStep, Zenon DEF GroupByNext

\* What the proofs below share.
LEMMA GroupsAlways == GroupBySpec => []GroupsInv
  BY GroupsInit, GroupsStep, PTL DEF GroupBySpec

\* No key ever has two slots and so no group two accumulators: for every number
\* of rows and slots, every hash function, each of the three kernels, and until
\* the host has read the table.
THEOREM SlotsUnique == GroupBySpec => []OneSlotPerKey
<1>1. GroupsInv => OneSlotPerKey
  BY PassedOneSlot, Zenon DEF GroupsInv, KeysInv, SlotsInv, Settled
<1> QED BY <1>1, GroupsAlways, PTL

\* No row ends without a slot for its key, unless the key was spilled or the
\* counter reports the loss (Robin Hood excepted).
THEOREM KeysKept == GroupBySpec => []NoKeyLost
<1>1. GroupsInv => NoKeyLost
  BY Zenon DEF GroupsInv, KeysInv, Settled, Placed, NoKeyLost
<1> QED BY <1>1, GroupsAlways, PTL

\* The half of ExactOrReported about keys: a query that does not fail returns
\* groups of its rows only, and after the linear kernel and the one without a
\* sentinel all of them.
THEOREM GroupsComplete == GroupBySpec => []GroupsOfRows
<1>1. GroupsInv => GroupsOfRows
  BY Zenon DEF GroupsInv
<1> QED BY <1>1, GroupsAlways, PTL
=============================================================================
