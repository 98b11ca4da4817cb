------------------------------- MODULE GroupBy -------------------------------
(***************************************************************************)
(* A GROUP BY on the device: the keys kernel of KeySlots, then one         *)
(* aggregate kernel over the table it left, then the host that turns slots *)
(* and spilled rows into groups, and last null_empty_groups, which looks   *)
(* for groups without a value.  A query with several aggregates repeats    *)
(* the middle step with an accumulator table of its own.                   *)
(*                                                                         *)
(* "sum" stands for SUM, MIN and MAX with one atomic instruction, "max"    *)
(* for the compare-and-swap loop over floats, "decimal" for the sum of two *)
(* words under a lock per slot.                                            *)
(***************************************************************************)
EXTENDS KeySlots, FiniteSetsExt

CONSTANTS
  Value,         \* the value of each row
  NonNull,       \* sets of rows whose values may be the ones that are not NULL
  Low,           \* the identity of "max"
  Limb,          \* values of the low word of a decimal
  SumLimit,      \* the largest decimal
  LockAttempts,  \* DECIMAL_MAX_LOCK_ATTEMPTS
  Failed,        \* the query returned an error
  Null

VARIABLES
  phase,     \* "keys", "agg", "collected" or "end"
  kind,      \* the aggregate
  present,   \* the rows whose value is not NULL
  acc,       \* acc_table: the two words of each slot
  reg,       \* the accumulator each thread has read, or is about to store
  lock,      \* lock_table
  attempts,  \* failed acquisitions of each thread
  sumFlag,   \* the overflow flag of the decimal sum
  aggSpill,  \* the rows in the spill buffer of the aggregate
  aggCount,  \* its counter
  result     \* the groups, or Failed

aggVars == <<phase, kind, present, acc, reg, lock, attempts, sumFlag, aggSpill, aggCount, result>>
groupVars == <<slotVars, aggVars>>

Split(v) == [lo |-> v % Limb, hi |-> v \div Limb]
Joined(w) == w.hi * Limb + w.lo

Identity(op) == IF op = "max" THEN Low ELSE 0

Combine(x, y) == IF kind = "max" THEN Max({x, y}) ELSE x + y

GroupByInit ==
  /\ InitSlots
  /\ phase = "keys" /\ kind = "sum" /\ present = {}
  /\ acc = [s \in Slots |-> Split(0)] /\ reg = [t \in Threads |-> Split(0)]
  /\ lock = [s \in Slots |-> FALSE] /\ attempts = [t \in Threads |-> 0]
  /\ sumFlag = FALSE /\ aggSpill = {} /\ aggCount = 0
  /\ result = {}

KeysKernel(t) == phase = "keys" /\ KeysStep(t) /\ UNCHANGED aggVars

\* The aggregate is launched on the stream of the keys kernel, behind it.  Its
\* threads have nothing to do for a NULL value.  The path without a sentinel
\* has no decimals.
LaunchAgg(op, rows) ==
  /\ phase = "keys" /\ \A t \in Threads : pc[t] = "done"
  /\ algo = "valid" => op # "decimal"
  /\ phase' = "agg" /\ kind' = op /\ present' = rows
  /\ acc' = [s \in Slots |-> Split(Identity(op))]
  /\ pc' = [t \in Threads |-> IF t \in rows THEN "row" ELSE "done"]
  /\ UNCHANGED <<algo, rowKey, table, flag, cur, dist, probes, spins, seen, overflow, spilled,
                 reg, lock, attempts, sumFlag, aggSpill, aggCount, result>>

----------------------------------------------------------------------------
(* The aggregate kernels.  The keys table no longer changes, so a probe is  *)
(* one step.                                                                *)

\* How far from its home the probe of t meets its key; none if it does not.
\* The float kernel also stops at an empty slot.
Hits(t) ==
  {d \in 0..(MaxProbes - 1) :
     /\ Holds(SlotAt(rowKey[t], d), rowKey[t])
     /\ kind = "max" /\ algo # "valid" =>
          \A e \in 0..d : table[SlotAt(rowKey[t], e)] # Empty}

At(t) == SlotAt(rowKey[t], Min(Hits(t)))

InAgg(t, op, label) == phase = "agg" /\ kind = op /\ pc[t] = label

keysTable == <<algo, rowKey, table, flag, cur, dist, probes, spins, seen, spilled>>
launch == <<phase, kind, present, result>>

\* The probe ends without the key.  The sentinel kernels count the row, except
\* the float kernel, which drops it; the other path spills it.
Missing(t) ==
  /\ phase = "agg" /\ pc[t] = "row" /\ Hits(t) = {}
  /\ overflow' = IF algo # "valid" /\ kind # "max" THEN overflow + 1 ELSE overflow
  /\ aggCount' = IF algo = "valid" THEN aggCount + 1 ELSE aggCount
  /\ aggSpill' = IF algo = "valid" /\ aggCount < MaxSpill THEN aggSpill \cup {t} ELSE aggSpill
  /\ Goto(t, "done")
  /\ UNCHANGED <<keysTable, launch, acc, reg, lock, attempts, sumFlag>>

\* One atomic instruction.
AtomicAdd(t) ==
  /\ InAgg(t, "sum", "row") /\ Hits(t) # {}
  /\ acc' = [acc EXCEPT ![At(t)] = Split(Joined(@) + Value[t])]
  /\ Goto(t, "done")
  /\ UNCHANGED <<keysTable, launch, overflow, reg, lock, attempts, sumFlag, aggSpill, aggCount>>

\* CAS_LOOP: load the accumulator; nothing to do if the value is no larger.
MaxLoad(t) ==
  /\ InAgg(t, "max", "row") /\ Hits(t) # {}
  /\ reg' = [reg EXCEPT ![t] = acc[At(t)]]
  /\ Goto(t, IF Value[t] > Joined(acc[At(t)]) THEN "cas" ELSE "done")
  /\ UNCHANGED <<keysTable, launch, overflow, acc, lock, attempts, sumFlag, aggSpill, aggCount>>

\* Mutant: a plain store.
MaxStore(t) ==
  /\ InAgg(t, "max", "cas")
  /\ acc' = [acc EXCEPT ![At(t)] = Split(Value[t])]
  /\ Goto(t, "done")
  /\ UNCHANGED <<keysTable, launch, overflow, reg, lock, attempts, sumFlag, aggSpill, aggCount>>

\* The compare-and-swap; another thread's update sends the loop back.
MaxCas(t) ==
  /\ InAgg(t, "max", "cas")
  /\ \/ /\ acc[At(t)] = reg[t]
        /\ acc' = [acc EXCEPT ![At(t)] = Split(Value[t])]
        /\ Goto(t, "done")
     \/ /\ acc[At(t)] # reg[t]
        /\ Goto(t, "row") /\ UNCHANGED acc
  /\ UNCHANGED <<keysTable, launch, overflow, reg, lock, attempts, sumFlag, aggSpill, aggCount>>

\* DEC_LOCK_LOOP: the row is counted as dropped after too many attempts.
DecLock(t) ==
  /\ InAgg(t, "decimal", "row") /\ Hits(t) # {}
  /\ \/ /\ ~lock[At(t)]
        /\ lock' = [lock EXCEPT ![At(t)] = TRUE]
        /\ Goto(t, "locked") /\ UNCHANGED <<attempts, overflow>>
     \/ /\ lock[At(t)] /\ attempts[t] < LockAttempts
        /\ attempts' = [attempts EXCEPT ![t] = @ + 1]
        /\ UNCHANGED <<pc, lock, overflow>>
     \/ /\ lock[At(t)] /\ attempts[t] >= LockAttempts
        /\ overflow' = overflow + 1
        /\ Goto(t, "done") /\ UNCHANGED <<lock, attempts>>
  /\ UNCHANGED <<keysTable, launch, acc, reg, sumFlag, aggSpill, aggCount>>

DecLoadLo(t) ==
  /\ InAgg(t, "decimal", "locked")
  /\ reg' = [reg EXCEPT ![t].lo = acc[At(t)].lo]
  /\ Goto(t, "lo")
  /\ UNCHANGED <<keysTable, launch, overflow, acc, lock, attempts, sumFlag, aggSpill, aggCount>>

\* The load of the high word and the addition; a sum out of range sets the flag
\* and is not stored.
DecLoadHi(t) ==
  /\ InAgg(t, "decimal", "lo")
  /\ LET sum == Joined([reg[t] EXCEPT !.hi = acc[At(t)].hi]) + Value[t]
         fits == sum \in -(SumLimit + 1)..SumLimit
     IN /\ reg' = IF fits THEN [reg EXCEPT ![t] = Split(sum)] ELSE reg
        /\ sumFlag' = (sumFlag \/ ~fits)
        /\ Goto(t, IF fits THEN "store" ELSE "unlock")
  /\ UNCHANGED <<keysTable, launch, overflow, acc, lock, attempts, aggSpill, aggCount>>

DecStoreLo(t) ==
  /\ InAgg(t, "decimal", "store")
  /\ acc' = [acc EXCEPT ![At(t)].lo = reg[t].lo]
  /\ Goto(t, "stored")
  /\ UNCHANGED <<keysTable, launch, overflow, reg, lock, attempts, sumFlag, aggSpill, aggCount>>

DecStoreHi(t) ==
  /\ InAgg(t, "decimal", "stored")
  /\ acc' = [acc EXCEPT ![At(t)].hi = reg[t].hi]
  /\ Goto(t, "unlock")
  /\ UNCHANGED <<keysTable, launch, overflow, reg, lock, attempts, sumFlag, aggSpill, aggCount>>

DecUnlock(t) ==
  /\ InAgg(t, "decimal", "unlock")
  /\ lock' = [lock EXCEPT ![At(t)] = FALSE]
  /\ Goto(t, "done")
  /\ UNCHANGED <<keysTable, launch, overflow, acc, reg, attempts, sumFlag, aggSpill, aggCount>>

AggStep(t) ==
  \/ Missing(t) \/ AtomicAdd(t) \/ MaxLoad(t) \/ MaxCas(t)
  \/ DecLock(t) \/ DecLoadLo(t) \/ DecLoadHi(t) \/ DecStoreLo(t) \/ DecStoreHi(t) \/ DecUnlock(t)

----------------------------------------------------------------------------
(* The host.                                                                *)

\* Every slot that is not empty is a group, unless a row was dropped.
SentinelGroups ==
  IF overflow # 0 \/ sumFlag
  THEN Failed
  ELSE {<<table[s], Joined(acc[s])>> : s \in {r \in Slots : table[r] # Empty}}

\* A key's accumulator: that of its slot, or the identity if it was spilled.
OwnAcc(k) ==
  LET slots == {s \in Slots : flag[s] # 0 /\ table[s] = k}
  IN IF slots = {} THEN Identity(kind) ELSE Joined(acc[Min(slots)])

Folded(k) ==
  FoldSet(LAMBDA t, x : Combine(x, Value[t]), OwnAcc(k), {t \in aggSpill : rowKey[t] = k})

\* Published and spilled keys are groups, and spilled rows are folded in.
ValidGroups ==
  LET groups == {table[s] : s \in {r \in Slots : flag[r] # 0}} \cup spilled
  IN IF \/ overflow > MaxSpill \/ aggCount > MaxSpill
        \/ \E t \in aggSpill : rowKey[t] \notin groups
     THEN Failed
     ELSE {<<k, Folded(k)>> : k \in groups}

Collect ==
  /\ phase = "agg" /\ \A t \in Threads : pc[t] = "done"
  /\ phase' = "collected"
  /\ result' = IF algo = "valid" THEN ValidGroups ELSE SentinelGroups
  /\ UNCHANGED <<slotVars, kind, present, acc, reg, lock, attempts, sumFlag, aggSpill, aggCount>>

RowKeys == {rowKey[t] : t \in Threads}

RowsOf(k) == {t \in present : rowKey[t] = k}

\* The keys a run of COUNT with the same kernels may return: see GroupsOfRows.
CountedKeys == IF algo = "robin_hood" THEN SUBSET RowKeys ELSE {RowKeys}

\* Mutant of NullUnless: the groups stay as the kernel left them.
NullUnlessNever(counted) == result

\* A group COUNT finds no value for is NULL, and so is one it does not find.
NullUnless(counted) ==
  {<<g[1], IF g[1] \in counted /\ RowsOf(g[1]) # {} THEN g[2] ELSE Null>> : g \in result}

\* null_empty_groups.  If the input has a NULL, the same plan runs once more with
\* COUNT of the input in place of the aggregate, and may fail.
NullEmptyGroups ==
  /\ phase = "collected" /\ phase' = "end"
  /\ IF result \in {Failed, {}} \/ present = Threads THEN UNCHANGED result
     ELSE \/ result' = Failed
          \/ \E counted \in CountedKeys : result' = NullUnless(counted)
  /\ UNCHANGED <<slotVars, kind, present, acc, reg, lock, attempts, sumFlag, aggSpill, aggCount>>

GroupByNext ==
  \/ \E t \in Threads : KeysKernel(t) \/ AggStep(t)
  \/ \E op \in {"sum", "max", "decimal"}, rows \in NonNull : LaunchAgg(op, rows)
  \/ Collect \/ NullEmptyGroups

GroupBySpec == GroupByInit /\ [][GroupByNext]_groupVars

----------------------------------------------------------------------------
TypeGroupBy ==
  /\ TypeSlots
  /\ phase \in {"keys", "agg", "collected", "end"} /\ kind \in {"sum", "max", "decimal"}
  /\ present \subseteq Threads /\ aggSpill \subseteq present /\ aggCount \in Nat
  /\ \A s \in Slots : acc[s].lo \in 0..(Limb - 1) /\ acc[s].hi \in Int
  /\ lock \in [Slots -> BOOLEAN] /\ attempts \in [Threads -> 0..LockAttempts]
  /\ sumFlag \in BOOLEAN

\* The value of the group of k, the identity if it has none.
Exact(k) == FoldSet(LAMBDA t, x : Combine(x, Value[t]), Identity(kind), RowsOf(k))

\* "MIN / MAX / SUM / AVG over an all-NULL group return SQL NULL."
Expected(k) == IF RowsOf(k) = {} THEN Null ELSE Exact(k)

\* The groups of a GROUP BY that did not fail are the keys of the rows; the
\* Robin Hood kernel may drop some of them, and none invents one.
GroupsOfRows ==
  phase \in {"collected", "end"} /\ result # Failed =>
    /\ {g[1] : g \in result} \subseteq RowKeys
    /\ algo # "robin_hood" => RowKeys \subseteq {g[1] : g \in result}

\* The executor returns an error, or exact values for the groups it returns and,
\* except after the Robin Hood kernel, all of the groups: no update is lost,
\* torn or applied twice between threads of one slot, and a row that gave up
\* on a probe, a lock or a spill buffer is folded in or reported.  The query
\* then returns what SQL promises, NULL for a group without a value included;
\* but after the Robin Hood kernel a group COUNT lost is NULL as well.
ExactOrReported ==
  /\ GroupsOfRows
  /\ result # Failed => \A g \in result :
       /\ phase = "collected" => g[2] = Exact(g[1])
       /\ phase = "end" =>
            \/ g[2] = Expected(g[1])
            \/ algo = "robin_hood" /\ present # Threads /\ g[2] = Null
=============================================================================
