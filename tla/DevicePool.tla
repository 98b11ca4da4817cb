----------------------------- MODULE DevicePool -----------------------------
(***************************************************************************)
(* The device memory pool (cuda/mem_pool.rs) and the buffers that take     *)
(* blocks from it and give them back (cuda/buffer.rs).                     *)
(*                                                                         *)
(* Any number of threads allocate and drop buffers.  A freed block goes to *)
(* the bucket of its size class and to the index of all pooled blocks by   *)
(* age; a block whose streams may still be using it is parked with the     *)
(* events that tell when they are done.  Each thread has a stack of the    *)
(* calls it is in: sweep calls free, which sweeps again.  A step is what a *)
(* thread does under one lock, in one atomic access or in one driver call. *)
(*                                                                         *)
(* The driver is external: it hands out any address that is not in use and *)
(* fails when Memory is used up.  An event that reports completion did     *)
(* complete; a query may fail, and then counts as not ready.  A wait for   *)
(* an event or a stream may fail too, and then the block is freed all the  *)
(* same.                                                                   *)
(***************************************************************************)
EXTENDS Naturals, Sequences, FiniteSets, SequencesExt, FiniteSetsExt

CONSTANTS
  Threads, Streams,
  Blocks,          \* device addresses
  Classes,         \* size classes: bytes
  Memory,          \* bytes of device memory
  MaxPooled,       \* max_pooled_bytes
  BucketCap,       \* max_bucket_entries
  MaxSweeps,       \* MAX_PENDING_SWEEPS
  ReconcileEvery,  \* RECONCILE_EVERY_N_FREES
  MaxTick,         \* bound on the insertions into the pool
  MaxCalls         \* bound on the calls of alloc, drop, the watcher and drain

\* What is assumed of the constants.
PoolAssumption ==
  /\ IsFiniteSet(Blocks) /\ Classes \subseteq Nat \ {0} /\ IsFiniteSet(Classes)
  /\ {Memory, MaxPooled, BucketCap, MaxTick, MaxCalls} \subseteq Nat
  /\ {MaxSweeps, ReconcileEvery} \subseteq Nat \ {0}

VARIABLES
  size,      \* of each address: the class it was allocated with, 0 if it is not
  owned,     \* blocks held by a GpuBuffer
  marked,    \* used_streams of the last buffer that held the block
  busy,      \* streams with unfinished work on the block
  unwaited,  \* history: those among them whose wait failed when the block was freed
  pending,   \* PENDING_FREES
  buckets,   \* for each class the pooled blocks, oldest first
  lru,       \* lru_index; a shard is the entries of one class
  total,     \* total_bytes
  tick, frees, calls,
  stack      \* for each thread the calls it is in, the innermost last

driver == <<size, busy, unwaited>>
buffers == <<owned, marked>>
pool == <<buckets, lru, total, tick>>
vars == <<driver, buffers, pending, pool, frees, calls, stack>>

Init ==
  /\ size = [b \in Blocks |-> 0] /\ busy = [b \in Blocks |-> {}]
  /\ unwaited = [b \in Blocks |-> {}]
  /\ owned = {} /\ marked = [b \in Blocks |-> {}]
  /\ pending = {} /\ buckets = [c \in Classes |-> <<>>]
  /\ lru = {} /\ total = 0 /\ tick = 0 /\ frees = 0 /\ calls = 0
  /\ stack = [t \in Threads |-> <<>>]

-----------------------------------------------------------------------------
(***************************************************************************)
(* Calls and locks.                                                        *)
(***************************************************************************)
In(t, op, at) == stack[t] # <<>> /\ Last(stack[t]).op = op /\ Last(stack[t]).at = at

Frame(t) == Last(stack[t])

\* The innermost call of t goes on as f.
Continue(t, f) == stack' = [stack EXCEPT ![t] = Append(Front(@), f)]

At(t, at) == Continue(t, [Frame(t) EXCEPT !.at = at])

\* It calls g, and goes on at `at` afterwards.
Call(t, at, g) ==
  stack' = [stack EXCEPT ![t] = Front(@) \o <<[Frame(t) EXCEPT !.at = at], g>>]

Return(t) == stack' = [stack EXCEPT ![t] = Front(@)]

\* A client calls: fs are the frames of the call.
Start(t, fs) ==
  /\ stack[t] = <<>> /\ calls < MaxCalls
  /\ stack' = [stack EXCEPT ![t] = fs] /\ calls' = calls + 1

Sweep == [op |-> "sweep", at |-> "take", todo |-> {}, still |-> {}]

\* alloc and free begin with a sweep.
Alloc(c) == <<[op |-> "alloc", at |-> "pop", class |-> c, out |-> {}, since |-> 0], Sweep>>
Free(b) == <<[op |-> "free", at |-> "room", block |-> b, out |-> {}, todo |-> {}, sum |-> 0], Sweep>>

Evict == [op |-> "evict", at |-> "peek"]
Trim == [op |-> "trim", at |-> "test", out |-> {}]
Drain == [op |-> "drain", at |-> "take", todo |-> {}, left |-> Classes, out |-> {}]

\* A thread that is inserting a block holds the lock of its bucket.
Locked(c) == \E t \in Threads : In(t, "free", "push") /\ size[Frame(t).block] = c

-----------------------------------------------------------------------------
(***************************************************************************)
(* The driver.                                                             *)
(***************************************************************************)
Fits(c) == SumFunction(size) + c <= Memory /\ \E b \in Blocks : size[b] = 0

\* cuMemAlloc gives t the address b, and the call returns it.
DriverAlloc(t, c, b) ==
  /\ size[b] = 0 /\ Fits(c)
  /\ size' = [size EXCEPT ![b] = c]
  /\ owned' = owned \cup {b} /\ marked' = [marked EXCEPT ![b] = {}]
  /\ Return(t)
  /\ UNCHANGED <<busy, unwaited, pending, pool, frees, calls>>

\* cuMemFree of each of bs.
DriverFree(bs) == size' = [b \in Blocks |-> IF b \in bs THEN 0 ELSE size[b]]

\* The work of stream s on b is done.
Finish(b, s) ==
  /\ s \in busy[b]
  /\ busy' = [busy EXCEPT ![b] = @ \ {s}] /\ unwaited' = [unwaited EXCEPT ![b] = @ \ {s}]
  /\ UNCHANGED <<size, buffers, pending, pool, frees, calls, stack>>

-----------------------------------------------------------------------------
(***************************************************************************)
(* alloc.                                                                  *)
(***************************************************************************)
AllocStart(t, c) ==
  /\ Start(t, Alloc(c))
  /\ UNCHANGED <<driver, buffers, pending, pool, frees>>

\* The newest block of the bucket, or else one from the driver.
AllocPop(t) ==
  /\ In(t, "alloc", "pop")
  /\ LET c == Frame(t).class
     IN /\ ~Locked(c)
        /\ IF buckets[c] = <<>>
             THEN At(t, "driver") /\ UNCHANGED buckets
             ELSE /\ buckets' = [buckets EXCEPT ![c] = Front(@)]
                  /\ Continue(t, [op |-> "hit", at |-> "subtract", class |-> c,
                                  block |-> Last(buckets[c])])
  /\ UNCHANGED <<driver, buffers, pending, lru, total, tick, frees, calls>>

\* sub_total_saturating, after the bucket is unlocked.
Subtract(c) == total' = IF total < c THEN 0 ELSE total - c

HitSubtract(t) ==
  /\ In(t, "hit", "subtract")
  /\ Subtract(Frame(t).class) /\ At(t, "unlist")
  /\ UNCHANGED <<driver, buffers, pending, buckets, lru, tick, frees, calls>>

Entry(c, k) == [class |-> c, block |-> k.block, tick |-> k.tick]

\* lru_remove, then alloc returns the block.
HitReturn(t) ==
  /\ In(t, "hit", "unlist")
  /\ LET k == Frame(t).block
     IN /\ lru' = lru \ {Entry(Frame(t).class, k)}
        /\ owned' = owned \cup {k.block} /\ marked' = [marked EXCEPT ![k.block] = {}]
  /\ Return(t)
  /\ UNCHANGED <<driver, pending, buckets, total, tick, frees, calls>>

\* The bucket was empty, or an eviction made room: the driver is asked (again).
AllocDriver(t, b) ==
  /\ In(t, "alloc", "driver") \/ In(t, "alloc", "retry")
  /\ DriverAlloc(t, Frame(t).class, b)

\* The driver fails for another reason than memory: so does alloc.
AllocError(t) ==
  /\ In(t, "alloc", "driver") \/ In(t, "alloc", "retry")
  /\ Return(t)
  /\ UNCHANGED <<driver, buffers, pending, pool, frees, calls>>

\* Out of memory: first what is above the cap goes.
RecoverTrim(t) ==
  /\ In(t, "alloc", "driver") /\ ~Fits(Frame(t).class)
  /\ Call(t, "retry", Trim)
  /\ UNCHANGED <<driver, buffers, pending, pool, frees, calls>>

\* Still out of memory: one more block goes.  (since is for the properties.)
RecoverEvict(t) ==
  /\ In(t, "alloc", "retry") /\ ~Fits(Frame(t).class)
  /\ stack' = [stack EXCEPT ![t] =
                 Front(@) \o <<[Frame(t) EXCEPT !.at = "evicting", !.since = tick], Evict>>]
  /\ UNCHANGED <<driver, buffers, pending, pool, frees, calls>>

RecoverRelease(t) ==
  /\ In(t, "alloc", "release")
  /\ DriverFree(Frame(t).out)
  /\ Continue(t, [Frame(t) EXCEPT !.at = "retry", !.out = {}])
  /\ UNCHANGED <<busy, unwaited, buffers, pending, pool, frees, calls>>

\* evict_one found nothing: alloc fails with the driver's first error.
RecoverFails(t) ==
  /\ In(t, "alloc", "empty")
  /\ Return(t)
  /\ UNCHANGED <<driver, buffers, pending, pool, frees, calls>>

-----------------------------------------------------------------------------
(***************************************************************************)
(* evict_one.                                                              *)
(***************************************************************************)
\* Where the caller goes on when evict_one returns TRUE, and FALSE.
AfterEvict == [alloc |-> <<"release", "empty">>, free |-> <<"room", "insert">>,
               trim |-> <<"test", "release">>]

\* evict_one returns, with the block it took out (bs) in the caller's sink.
EvictReturn(t, bs) ==
  LET outer == Front(stack[t])
      f == Last(outer)
      next == AfterEvict[f.op][IF bs = {} THEN 2 ELSE 1]
  IN stack' = [stack EXCEPT ![t] =
                 Append(Front(outer), [f EXCEPT !.at = next, !.out = @ \cup bs])]

Older(e, f) == e.tick <= f.tick

Oldest(es) == CHOOSE e \in es : \A f \in es : Older(e, f)

\* Mutant of EvictPeek: no index entry, no block.
EvictPeekIndexOnly(t) ==
  /\ In(t, "evict", "peek")
  /\ IF lru = {} THEN EvictReturn(t, {})
     ELSE Continue(t, [op |-> "evict", at |-> "shard", class |-> Oldest(lru).class])
  /\ UNCHANGED <<driver, buffers, pending, pool, frees, calls>>

\* lru_pop_global_oldest: the shard with the oldest entry, or to the scan.  (The
\* code looks at one shard after the other; the model at all of them at once.)
EvictPeek(t) ==
  /\ In(t, "evict", "peek")
  /\ Continue(t, IF lru = {} THEN [op |-> "scan", at |-> "look", todo |-> Classes, seen |-> {}]
                 ELSE [op |-> "evict", at |-> "shard", class |-> Oldest(lru).class])
  /\ UNCHANGED <<driver, buffers, pending, pool, frees, calls>>

\* ... whose oldest entry is popped, if it still has one.
EvictShard(t) ==
  /\ In(t, "evict", "shard")
  /\ LET shard == {e \in lru : e.class = Frame(t).class}
     IN IF shard = {} THEN Continue(t, Evict) /\ UNCHANGED lru
        ELSE /\ lru' = lru \ {Oldest(shard)}
             /\ Continue(t, [op |-> "evict", at |-> "bucket", entry |-> Oldest(shard)])
  /\ UNCHANGED <<driver, buffers, pending, buckets, total, tick, frees, calls>>

\* Mutant of EvictBucket: the index is believed, whatever the bucket holds now.
EvictBucketByIndex(t) ==
  /\ In(t, "evict", "bucket")
  /\ LET e == Frame(t).entry
     IN /\ ~Locked(e.class)
        /\ buckets' = [buckets EXCEPT ![e.class] = SelectSeq(@, LAMBDA k : k.block # e.block)]
        /\ Continue(t, [op |-> "taken", at |-> "subtract", class |-> e.class,
                        block |-> [block |-> e.block, tick |-> e.tick], listed |-> FALSE])
  /\ UNCHANGED <<driver, buffers, pending, lru, total, tick, frees, calls>>

\* The block of that address leaves its bucket, or else the oldest one does.
EvictBucket(t) ==
  /\ In(t, "evict", "bucket")
  /\ LET c == Frame(t).entry.class
         found == {i \in DOMAIN buckets[c] : buckets[c][i].block = Frame(t).entry.block}
         i == IF found = {} THEN 1 ELSE Min(found)
     IN /\ ~Locked(c)
        /\ IF buckets[c] = <<>>
             THEN /\ Continue(t, [op |-> "scan", at |-> "look", todo |-> Classes, seen |-> {}])
                  /\ UNCHANGED buckets
             ELSE /\ buckets' = [buckets EXCEPT ![c] = RemoveAt(@, i)]
                  /\ Continue(t, [op |-> "taken", at |-> "subtract", class |-> c,
                                  block |-> buckets[c][i], listed |-> found = {}])
  /\ UNCHANGED <<driver, buffers, pending, lru, total, tick, frees, calls>>

TakenSubtract(t) ==
  /\ In(t, "taken", "subtract")
  /\ Subtract(Frame(t).class)
  /\ IF Frame(t).listed THEN At(t, "unlist") ELSE EvictReturn(t, {Frame(t).block.block})
  /\ UNCHANGED <<driver, buffers, pending, buckets, lru, tick, frees, calls>>

TakenUnlist(t) ==
  /\ In(t, "taken", "unlist")
  /\ lru' = lru \ {Entry(Frame(t).class, Frame(t).block)}
  /\ EvictReturn(t, {Frame(t).block.block})
  /\ UNCHANGED <<driver, buffers, pending, buckets, total, tick, frees, calls>>

\* evict_one_scan_fallback: which buckets have a block, and how old it is.
ScanLook(t, c) ==
  /\ In(t, "scan", "look") /\ c \in Frame(t).todo /\ ~Locked(c)
  /\ LET todo == Frame(t).todo \ {c}
         front == IF buckets[c] = <<>> THEN {} ELSE {Entry(c, Head(buckets[c]))}
     IN Continue(t, [op |-> "scan", at |-> IF todo = {} THEN "try" ELSE "look",
                     todo |-> todo, seen |-> Frame(t).seen \cup front])
  /\ UNCHANGED <<driver, buffers, pending, pool, frees, calls>>

\* The bucket that had the oldest one, then the others, until one is not empty.
ScanTry(t) ==
  /\ In(t, "scan", "try") /\ Frame(t).seen # {}
  /\ LET e == Oldest(Frame(t).seen)
         c == e.class
     IN /\ ~Locked(c)
        /\ IF buckets[c] = <<>>
             THEN Continue(t, [Frame(t) EXCEPT !.seen = @ \ {e}]) /\ UNCHANGED buckets
             ELSE /\ buckets' = [buckets EXCEPT ![c] = Tail(@)]
                  /\ Continue(t, [op |-> "taken", at |-> "subtract", class |-> c,
                                  block |-> Head(buckets[c]), listed |-> TRUE])
  /\ UNCHANGED <<driver, buffers, pending, lru, total, tick, frees, calls>>

ScanFails(t) ==
  /\ In(t, "scan", "try") /\ Frame(t).seen = {}
  /\ EvictReturn(t, {})
  /\ UNCHANGED <<driver, buffers, pending, pool, frees, calls>>

\* evict_above_high_water, from recover_from_oom or the watcher.
TrimTest(t) ==
  /\ In(t, "trim", "test")
  /\ IF total > MaxPooled THEN Call(t, "evicting", Evict) ELSE At(t, "release")
  /\ UNCHANGED <<driver, buffers, pending, pool, frees, calls>>

TrimRelease(t) ==
  /\ In(t, "trim", "release")
  /\ DriverFree(Frame(t).out) /\ Return(t)
  /\ UNCHANGED <<busy, unwaited, buffers, pending, pool, frees, calls>>

\* One round of the watcher thread.
Watch(t) ==
  /\ Start(t, <<Trim>>)
  /\ UNCHANGED <<driver, buffers, pending, pool, frees>>

-----------------------------------------------------------------------------
(***************************************************************************)
(* free.                                                                   *)
(***************************************************************************)
\* Evict until the block fits under the cap, or the pool is empty.
FreeRoom(t) ==
  /\ In(t, "free", "room")
  /\ LET c == size[Frame(t).block]
     IN IF c <= MaxPooled /\ total + c > MaxPooled THEN Call(t, "evicting", Evict)
        ELSE At(t, "insert")
  /\ UNCHANGED <<driver, buffers, pending, pool, frees, calls>>

\* try_insert_into_locked_bucket: the bucket is locked, the caps are tested.
FreeInsert(t) ==
  /\ In(t, "free", "insert")
  /\ LET b == Frame(t).block
         c == size[b]
     IN /\ ~Locked(c)
        /\ IF Len(buckets[c]) < BucketCap /\ total + c <= MaxPooled
             THEN At(t, "push")
             ELSE Continue(t, [Frame(t) EXCEPT !.at = "release", !.out = @ \cup {b}])
  /\ UNCHANGED <<driver, buffers, pending, pool, frees, calls>>

\* ... the block is pushed, counted and indexed, and the bucket unlocked.
FreePush(t) ==
  /\ In(t, "free", "push")
  /\ LET b == Frame(t).block
         c == size[b]
         k == [block |-> b, tick |-> tick]
     IN /\ buckets' = [buckets EXCEPT ![c] = Append(@, k)]
        /\ total' = total + c /\ lru' = lru \cup {Entry(c, k)}
  /\ tick' = tick + 1
  /\ At(t, "release")
  /\ UNCHANGED <<driver, buffers, pending, frees, calls>>

\* What was evicted goes to the driver; every so many calls the total is counted
\* again.
FreeRelease(t) ==
  /\ In(t, "free", "release")
  /\ DriverFree(Frame(t).out)
  /\ frees' = (frees + 1) % ReconcileEvery
  /\ IF frees' = 0 THEN Continue(t, [Frame(t) EXCEPT !.at = "count", !.out = {}, !.todo = Classes])
     ELSE Return(t)
  /\ UNCHANGED <<busy, unwaited, buffers, pending, pool, calls>>

\* reconcile_total_bytes: bucket by bucket, then the sum is stored.
ReconcileBucket(t, c) ==
  /\ In(t, "free", "count") /\ c \in Frame(t).todo /\ ~Locked(c)
  /\ Continue(t, [Frame(t) EXCEPT !.todo = @ \ {c}, !.sum = @ + c * Len(buckets[c])])
  /\ UNCHANGED <<driver, buffers, pending, pool, frees, calls>>

ReconcileStore(t) ==
  /\ In(t, "free", "count") /\ Frame(t).todo = {}
  /\ total' = Frame(t).sum /\ Return(t)
  /\ UNCHANGED <<driver, buffers, pending, buckets, lru, tick, frees, calls>>

-----------------------------------------------------------------------------
(***************************************************************************)
(* Deferred frees.  An entry of the list is a block, the streams its       *)
(* events were recorded on, and how often a sweep found one not ready.     *)
(***************************************************************************)
\* Mutant of Done: some event is complete.
DoneSome(x) == ~(x.events \subseteq busy[x.block])

\* event_query on each event: all are complete.
Done(x) == x.events \cap busy[x.block] = {}

SweepTake(t) ==
  /\ In(t, "sweep", "take")
  /\ pending' = {}
  /\ IF pending = {} THEN Return(t)
     ELSE Continue(t, [Frame(t) EXCEPT !.at = "each", !.todo = pending])
  /\ UNCHANGED <<driver, buffers, pool, frees, calls>>

\* Every event of x is ready: its block is freed.
SweepReady(t, x) ==
  /\ In(t, "sweep", "each") /\ x \in Frame(t).todo /\ Done(x)
  /\ stack' = [stack EXCEPT ![t] = Front(@) \o <<[Frame(t) EXCEPT !.todo = @ \ {x}]>> \o Free(x.block)]
  /\ UNCHANGED <<driver, buffers, pending, pool, frees, calls>>

\* One is not, or its query fails: x is kept for a later sweep, or waited for.
SweepNotReady(t, x) ==
  /\ In(t, "sweep", "each") /\ x \in Frame(t).todo
  /\ LET f == [Frame(t) EXCEPT !.todo = @ \ {x}]
         y == [x EXCEPT !.sweeps = @ + 1]
     IN IF y.sweeps >= MaxSweeps
          THEN stack' = [stack EXCEPT ![t] = Front(@) \o <<f, [op |-> "reclaim", at |-> "wait", entry |-> y]>>]
          ELSE Continue(t, [f EXCEPT !.still = @ \cup {y}])
  /\ UNCHANGED <<driver, buffers, pending, pool, frees, calls>>

\* The waits for the work of ss on b are over: it is done, or some wait failed.
Waited(b, ss) == unwaited' = [unwaited EXCEPT ![b] = @ \cup (ss \cap busy[b])]

\* force_reclaim_pending: event_synchronize on every event, errors ignored, then
\* to the driver.
Reclaim(t) ==
  /\ In(t, "reclaim", "wait")
  /\ Waited(Frame(t).entry.block, Frame(t).entry.events)
  /\ DriverFree({Frame(t).entry.block}) /\ Return(t)
  /\ UNCHANGED <<busy, buffers, pending, pool, frees, calls>>

SweepPark(t) ==
  /\ In(t, "sweep", "each") /\ Frame(t).todo = {}
  /\ pending' = pending \cup Frame(t).still
  /\ Return(t)
  /\ UNCHANGED <<driver, buffers, pool, frees, calls>>

-----------------------------------------------------------------------------
(***************************************************************************)
(* GpuBuffer.                                                              *)
(***************************************************************************)
\* Work on the block is enqueued on s: mark_stream_use.  (Once per stream and
\* buffer: the set does not count.)
Use(b, s) ==
  /\ b \in owned /\ s \notin marked[b]
  /\ marked' = [marked EXCEPT ![b] = @ \cup {s}]
  /\ busy' = [busy EXCEPT ![b] = @ \cup {s}] /\ unwaited' = [unwaited EXCEPT ![b] = @ \ {s}]
  /\ UNCHANGED <<size, owned, pending, pool, frees, calls, stack>>

\* Blocks on their way into the pool.
Returning == {b \in Blocks : size[b] # 0} \ (owned \cup {k.block : k \in UNION {ToSet(buckets[c]) : c \in Classes}})

\* Drop of a buffer: no stream used it, or events are recorded on each that did.
Drop(t, b) ==
  /\ b \in owned /\ tick + Cardinality(Returning) < MaxTick
  /\ Start(t, IF marked[b] = {} THEN Free(b) ELSE <<[op |-> "drop", at |-> "query", block |-> b]>>)
  /\ owned' = owned \ {b}
  /\ UNCHANGED <<driver, marked, pending, pool, frees>>

\* real_drop_reclaim: every event is complete, and the block is freed, ...
DropReady(t) ==
  /\ In(t, "drop", "query") /\ marked[Frame(t).block] \cap busy[Frame(t).block] = {}
  /\ stack' = [stack EXCEPT ![t] = Front(@) \o Free(Frame(t).block)]
  /\ UNCHANGED <<driver, buffers, pending, pool, frees, calls>>

\* ... or one is not, and defer_free parks the block, ...
DropDefer(t) ==
  /\ In(t, "drop", "query")
  /\ pending' = pending \cup {[block |-> Frame(t).block, events |-> marked[Frame(t).block], sweeps |-> 0]}
  /\ Return(t)
  /\ UNCHANGED <<driver, buffers, pool, frees, calls>>

\* ... or an event could not be recorded: every stream is waited for.
DropFence(t) ==
  /\ In(t, "drop", "query")
  /\ At(t, "fence")
  /\ UNCHANGED <<driver, buffers, pending, pool, frees, calls>>

\* fence_all_streams returns, also when a stream and then the whole context could
\* not be waited for, and the block is freed.
DropFenced(t) ==
  /\ In(t, "drop", "fence")
  /\ Waited(Frame(t).block, marked[Frame(t).block])
  /\ stack' = [stack EXCEPT ![t] = Front(@) \o Free(Frame(t).block)]
  /\ UNCHANGED <<size, busy, buffers, pending, pool, frees, calls>>

-----------------------------------------------------------------------------
(***************************************************************************)
(* drain, when a context is dropped, while other threads go on.            *)
(***************************************************************************)
DrainStart(t) ==
  /\ Start(t, <<Drain>>)
  /\ UNCHANGED <<driver, buffers, pending, pool, frees>>

DrainTake(t) ==
  /\ In(t, "drain", "take")
  /\ pending' = {}
  /\ Continue(t, [Frame(t) EXCEPT !.at = "each", !.todo = pending])
  /\ UNCHANGED <<driver, buffers, pool, frees, calls>>

DrainEach(t, x) ==
  /\ In(t, "drain", "each") /\ x \in Frame(t).todo
  /\ stack' = [stack EXCEPT ![t] = Front(@) \o <<[Frame(t) EXCEPT !.todo = @ \ {x}],
                                                 [op |-> "reclaim", at |-> "wait", entry |-> x]>>]
  /\ UNCHANGED <<driver, buffers, pending, pool, frees, calls>>

\* drain_all_into: bucket by bucket, ...
DrainBucket(t, c) ==
  /\ In(t, "drain", "each") /\ Frame(t).todo = {} /\ c \in Frame(t).left /\ ~Locked(c)
  /\ buckets' = [buckets EXCEPT ![c] = <<>>]
  /\ Continue(t, [Frame(t) EXCEPT !.left = @ \ {c},
                                  !.out = @ \cup {k.block : k \in ToSet(buckets[c])}])
  /\ UNCHANGED <<driver, buffers, pending, lru, total, tick, frees, calls>>

\* ... then the map is cleared, with whatever was put there meanwhile.
DrainClear(t) ==
  /\ In(t, "drain", "each") /\ Frame(t).todo = {} /\ Frame(t).left = {} /\ \A c \in Classes : ~Locked(c)
  /\ buckets' = [c \in Classes |-> <<>>]
  /\ At(t, "zero")
  /\ UNCHANGED <<driver, buffers, pending, lru, total, tick, frees, calls>>

DrainZero(t) ==
  /\ In(t, "drain", "zero")
  /\ total' = 0 /\ At(t, "unlist")
  /\ UNCHANGED <<driver, buffers, pending, buckets, lru, tick, frees, calls>>

DrainUnlist(t) ==
  /\ In(t, "drain", "unlist")
  /\ lru' = {} /\ At(t, "release")
  /\ UNCHANGED <<driver, buffers, pending, buckets, total, tick, frees, calls>>

DrainRelease(t) ==
  /\ In(t, "drain", "release")
  /\ DriverFree(Frame(t).out) /\ Return(t)
  /\ UNCHANGED <<busy, unwaited, buffers, pending, pool, frees, calls>>

-----------------------------------------------------------------------------
\* What thread t does next inside the call it is in.
Step(t) ==
  \/ AllocPop(t) \/ HitSubtract(t) \/ HitReturn(t) \/ AllocError(t)
  \/ RecoverTrim(t) \/ RecoverEvict(t) \/ RecoverRelease(t) \/ RecoverFails(t)
  \/ EvictPeek(t) \/ EvictShard(t) \/ EvictBucket(t) \/ TakenSubtract(t) \/ TakenUnlist(t)
  \/ ScanTry(t) \/ ScanFails(t) \/ TrimTest(t) \/ TrimRelease(t)
  \/ FreeRoom(t) \/ FreeInsert(t) \/ FreePush(t) \/ FreeRelease(t)
  \/ ReconcileStore(t) \/ SweepTake(t) \/ Reclaim(t) \/ SweepPark(t)
  \/ DropReady(t) \/ DropDefer(t) \/ DropFence(t) \/ DropFenced(t)
  \/ DrainTake(t) \/ DrainClear(t) \/ DrainZero(t) \/ DrainUnlist(t) \/ DrainRelease(t)
  \/ \E b \in Blocks : AllocDriver(t, b)
  \/ \E c \in Classes : ScanLook(t, c) \/ ReconcileBucket(t, c) \/ DrainBucket(t, c)
  \/ stack[t] # <<>> /\ Frame(t).op \in {"sweep", "drain"} /\ Frame(t).at = "each"
       /\ \E x \in Frame(t).todo : SweepReady(t, x) \/ SweepNotReady(t, x) \/ DrainEach(t, x)

\* What its client asks of it.
Request(t) ==
  \/ \E c \in Classes : AllocStart(t, c)
  \/ \E b \in Blocks : Drop(t, b)
  \/ Watch(t) \/ DrainStart(t)

Next ==
  \/ \E t \in Threads : Step(t) \/ Request(t)
  \/ \E b \in Blocks, s \in Streams : Use(b, s) \/ Finish(b, s)

Spec == Init /\ [][Next]_vars

-----------------------------------------------------------------------------
Entries == [block : Blocks, events : SUBSET Streams, sweeps : 0 .. MaxSweeps]

TypeOK ==
  /\ size \in [Blocks -> Classes \cup {0}] /\ busy \in [Blocks -> SUBSET Streams]
  /\ \A b \in Blocks : unwaited[b] \subseteq busy[b]
  /\ owned \subseteq Blocks /\ marked \in [Blocks -> SUBSET Streams]
  /\ pending \subseteq Entries
  /\ \A c \in Classes :
       buckets[c] \in Seq([block : Blocks, tick : 0 .. MaxTick - 1]) /\ Len(buckets[c]) <= BucketCap
  /\ lru \subseteq [class : Classes, block : Blocks, tick : 0 .. MaxTick - 1]
  /\ total \in Nat /\ tick \in 0 .. MaxTick

BlocksOf(es) == {x.block : x \in es}

\* Blocks that wait for their events in call f.
Awaited(f) ==
  CASE f.op = "sweep" -> BlocksOf(f.todo \cup f.still)
    [] f.op = "drain" -> BlocksOf(f.todo)
    [] f.op = "reclaim" -> {f.entry.block}
    [] f.op = "drop" -> {f.block}
    [] OTHER -> {}

\* Blocks that call f has in its hands besides.
Held(f) ==
  CASE f.op \in {"hit", "taken"} -> {f.block.block}
    [] f.op = "free" -> f.out \cup IF f.at \in {"release", "count"} THEN {} ELSE {f.block}
    [] f.op \in {"alloc", "trim", "drain"} -> f.out
    [] OTHER -> {}

Pooled == {<<c, i>> \in Classes \X (1 .. BucketCap) : i \in DOMAIN buckets[c]}

Calls == UNION {{<<t, i>> : i \in DOMAIN stack[t]} : t \in Threads}

\* How many places have block b.
Copies(b) ==
  Cardinality({b} \cap owned) + Cardinality({x \in pending : x.block = b})
    + Cardinality({p \in Pooled : buckets[p[1]][p[2]].block = b})
    + Cardinality({p \in Calls : b \in Awaited(stack[p[1]][p[2]]) \cup Held(stack[p[1]][p[2]])})

\* A block is in one place at a time: it is never handed out while it is pooled,
\* parked or in the hands of another call, and never given back to the driver
\* twice, whichever alloc, free, sweep, eviction and drain race for it.
OneOwner == \A b \in Blocks : Copies(b) <= 1 /\ (size[b] = 0 => Copies(b) = 0)

\* "A block can re-enter the allocatable pool ONLY after every recorded stream
\* drains past its event": a block with unfinished work belongs to the buffer
\* that started the work, or waits for its events.  The one exception is work
\* whose wait the driver refused: the block is then "recycled despite an unfenced
\* stream".
NoPrematureReuse ==
  \A b \in Blocks : LET unfinished == busy[b] \ unwaited[b] IN
    unfinished # {} =>
      \/ b \in owned /\ unfinished \subseteq marked[b]
      \/ b \in BlocksOf(pending)
      \/ \E p \in Calls : b \in Awaited(stack[p[1]][p[2]])

\* recover_from_oom gives up only when the "pool is empty": every block that is
\* pooled then was freed after the last search for one began.
GivesUpOnlyWhenEmpty ==
  \A t \in Threads : In(t, "alloc", "empty") =>
    \A p \in Pooled : buckets[p[1]][p[2]].tick >= Frame(t).since
=============================================================================
