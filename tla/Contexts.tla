------------------------------ MODULE Contexts ------------------------------
(***************************************************************************)
(* The life of the CUDA context an Engine owns, and the process-wide       *)
(* caches of things that live in a context: pooled device blocks, pooled   *)
(* streams, loaded modules, captured sort graphs and the page-locked       *)
(* scratch of a thread (cuda/cuda_sys.rs, cuda/mem_pool.rs ctx_binder and  *)
(* pool_watcher, cuda/stream_pool.rs, exec/module_cache.rs,                *)
(* exec/partition_offsets.rs, the permit of exec/engine.rs).  Engines are  *)
(* built, used and dropped one after another by several threads; a worker  *)
(* thread without a context drops buffers, and the pool watcher re-binds   *)
(* the recorded context at every poll.                                     *)
(*                                                                         *)
(* A context is its serial number: the order of its creation.  The code    *)
(* only ever sees its CUcontext handle, and the driver may give the handle *)
(* of a destroyed context to a later one, so every comparison the code     *)
(* makes is one of handles.  A block, stream, module, graph or scratch is  *)
(* the serial of the context it was made in; 0 stands for none.            *)
(***************************************************************************)
EXTENDS Naturals

CONSTANTS
  Threads,      \* the threads that build, use and drop engines
  Handles,      \* the CUcontext handles of the driver
  MaxContexts,  \* bound: contexts created
  Outliving     \* may a buffer that was lent out outlive its engine?

\* What the theorems assume of the constants: the watcher and the worker are
\* threads of their own, and the null context is no handle.
ContextsAssumption ==
  /\ MaxContexts \in Nat /\ Outliving \in BOOLEAN
  /\ Threads \cap {"watcher", "worker", "nobody"} = {} /\ "none" \notin Handles

VARIABLES
  permit,    \* ACTIVE_ENGINE
  handle,    \* the handle of each context created so far
  alive,     \* the contexts that cuCtxDestroy has not destroyed
  bound,     \* the context bound to each thread
  engine,    \* the engine of each thread: its context and where it stands
  owning,    \* OWNING_CTX
  epoch,     \* the invalidation epoch of ctx_binder
  guard,     \* who holds the guard of ctx_binder
  blocks,    \* the contexts that blocks in the memory pool were made in
  pending,   \* deferred frees: a block and the stream that still uses it
  streams,   \* STREAM_POOL: the stream and its tag
  destroyed, \* streams that cuStreamDestroy has destroyed
  modules,   \* the module caches: by spec and, below it, by PTX text
  graphs,    \* GRAPH_CACHE: the graph and the handle in its key
  scratch,   \* PINNED_SCRATCH of each thread: the buffer and its epoch
  pinEpoch,  \* CONTEXT_EPOCH
  use,       \* what the statement running on each thread holds
  loan,      \* the block of the buffer the worker thread is to drop
  watcher    \* the pool watcher: off, or where its poll stands

vars == <<permit, handle, alive, bound, engine, owning, epoch, guard, blocks,
          pending, streams, destroyed, modules, graphs, scratch, pinEpoch,
          use, loan, watcher>>

teardownVars == <<permit, handle, alive, engine, owning, epoch>>
cacheVars == <<blocks, pending, streams, destroyed, modules, graphs, scratch,
               pinEpoch>>

Contexts == 1..MaxContexts
Serials == 0..MaxContexts
Watcher == "watcher"
Worker == "worker"
Procs == Threads \cup {Watcher, Worker}
NoHandle == "none"

\* Where an engine stands: being built, ready, or at a step of its teardown.
Stages == {"none", "build", "register", "ready", "pool", "streams", "modules",
           "scratch", "invalidate", "destroy", "permit"}

Created == {c \in Contexts : handle[c] # NoHandle}

\* What cuCtxGetCurrent answers on thread p: a handle, or null.
Current(p) == IF bound[p] = 0 THEN NoHandle ELSE handle[bound[p]]

Idle == [stream |-> 0, block |-> 0, module |-> 0, graph |-> 0, scratch |-> 0]

Init ==
  /\ permit = FALSE
  /\ handle = [c \in Contexts |-> NoHandle]
  /\ alive = {}
  /\ bound = [p \in Procs |-> 0]
  /\ engine = [t \in Threads |-> [ctx |-> 0, at |-> "none", seen |-> 0]]
  /\ owning = 0 /\ epoch = 0 /\ guard = "nobody"
  /\ blocks = {} /\ pending = {}
  /\ streams = {} /\ destroyed = {}
  /\ modules = [spec |-> 0, ptx |-> 0]
  /\ graphs = {}
  /\ scratch = [t \in Threads |-> [of |-> 0, epoch |-> 0]]
  /\ pinEpoch = 0
  /\ use = [t \in Threads |-> Idle]
  /\ loan = 0
  /\ watcher = "off"

At(t, at) == engine[t].at = at
Goto(t, at) == engine' = [engine EXCEPT ![t].at = at]

-----------------------------------------------------------------------------
(***************************************************************************)
(* Building an engine.                                                     *)
(***************************************************************************)

\* The driver's cuCtxCreate: a new context with a handle no live context has,
\* bound to the calling thread.
CtxCreate(t, h) ==
  \E c \in Contexts \ Created :
    /\ \A d \in Contexts \ Created : c <= d
    /\ h \notin {handle[d] : d \in alive}
    /\ handle' = [handle EXCEPT ![c] = h]
    /\ alive' = alive \cup {c}
    /\ bound' = [bound EXCEPT ![t] = c]

\* EngineBuilder::build up to the context: one engine per process.  A second
\* builder fails, which changes nothing.
TakePermit(t) ==
  /\ At(t, "none") /\ ~permit
  /\ permit' = TRUE
  /\ Goto(t, "build")
  /\ UNCHANGED <<handle, alive, bound, owning, epoch, guard, cacheVars, use,
                 loan, watcher>>

\* No device, or the context cannot be created: the permit is dropped.
BuildFails(t) ==
  /\ At(t, "build")
  /\ permit' = FALSE
  /\ Goto(t, "none")
  /\ UNCHANGED <<handle, alive, bound, owning, epoch, guard, cacheVars, use,
                 loan, watcher>>

\* CudaContext::new up to the epoch it reads before registering.
NewContext(t, h) ==
  /\ At(t, "build")
  /\ CtxCreate(t, h)
  /\ engine' = [engine EXCEPT ![t] =
       [ctx |-> CHOOSE c \in alive' : c \notin alive, at |-> "register",
        seen |-> epoch]]
  /\ UNCHANGED <<permit, owning, epoch, guard, cacheVars, use, loan, watcher>>

\* ctx_binder::capture_owning_ctx under its guard: a context invalidated
\* since `seen` was read is not recorded.
CaptureOwning(c, seen) ==
  /\ guard = "nobody"
  /\ owning' = IF c # 0 /\ epoch = seen THEN c ELSE owning

Register(t) ==
  /\ At(t, "register")
  /\ CaptureOwning(engine[t].ctx, engine[t].seen)
  /\ Goto(t, "ready")
  /\ UNCHANGED <<permit, handle, alive, bound, epoch, guard, cacheVars, use,
                 loan, watcher>>

\* pool_watcher::ensure_started, at the first use of the pool: captures the
\* context current on this thread and starts the watcher.
EnsureStarted(t) ==
  /\ At(t, "ready") /\ watcher = "off"
  /\ CaptureOwning(bound[t], epoch)
  /\ watcher' = "idle"
  /\ UNCHANGED <<permit, handle, alive, bound, engine, epoch, guard,
                 cacheVars, use, loan>>

-----------------------------------------------------------------------------
(***************************************************************************)
(* A statement takes what it needs from the caches.                        *)
(***************************************************************************)

Running(t) == At(t, "ready")
Hold(t, what, of) == use' = [use EXCEPT ![t][what] = of]

\* stream_pool::acquire: only a stream with the tag of the active context.
Acquirable(t) == {e \in streams : e.tag = Current(t)}

\* CudaStream::null_or_default and new: a pooled stream, or a new one in the
\* active context.
AcquireStream(t) ==
  /\ Running(t) /\ use[t].stream = 0
  /\ \/ \E e \in Acquirable(t) :
          Hold(t, "stream", e.of) /\ streams' = streams \ {e}
     \/ Acquirable(t) = {} /\ Hold(t, "stream", bound[t]) /\ UNCHANGED streams
  /\ UNCHANGED <<teardownVars, bound, guard, blocks, pending, destroyed,
                 modules, graphs, scratch, pinEpoch, loan, watcher>>

\* DeviceMemPool::alloc: a pooled block, whatever context it is of, or a new
\* one.
Alloc(t) ==
  /\ Running(t) /\ use[t].block = 0
  /\ \/ \E b \in blocks : Hold(t, "block", b) /\ blocks' = blocks \ {b}
     \/ blocks = {} /\ Hold(t, "block", bound[t]) /\ UNCHANGED blocks
  /\ UNCHANGED <<teardownVars, bound, guard, pending, streams, destroyed,
                 modules, graphs, scratch, pinEpoch, loan, watcher>>

\* get_or_build_module over CudaModule::from_ptx: the caches are keyed by the
\* spec and the device, and by the PTX text, not by the context.
GetModule(t) ==
  LET m == CASE modules.spec # 0 -> modules.spec
             [] modules.spec = 0 /\ modules.ptx # 0 -> modules.ptx
             [] OTHER -> bound[t]
  IN /\ Running(t) /\ use[t].module = 0
     /\ Hold(t, "module", m)
     /\ modules' = [spec |-> m,
                    ptx |-> IF modules.ptx # 0 \/ modules.spec # 0
                              THEN modules.ptx ELSE m]
     /\ UNCHANGED <<teardownVars, bound, guard, blocks, pending, streams,
                    destroyed, graphs, scratch, pinEpoch, loan, watcher>>

\* Either cache drops its entry when other specs fill it.
EvictModule(t, cache) ==
  /\ Running(t) /\ modules[cache] # 0
  /\ modules' = [modules EXCEPT ![cache] = 0]
  /\ UNCHANGED <<teardownVars, bound, guard, blocks, pending, streams,
                 destroyed, graphs, scratch, pinEpoch, use, loan, watcher>>

\* The graph of a bitonic sort: found by the handle of the active context in
\* its key, or captured and stored with that handle.
SortGraph(t) ==
  LET found == {g \in graphs : g.tag = Current(t)}
  IN /\ Running(t) /\ use[t].graph = 0
     /\ \/ \E g \in found : Hold(t, "graph", g.of) /\ UNCHANGED graphs
        \/ /\ found = {}
           /\ Hold(t, "graph", bound[t])
           /\ graphs' = graphs \cup {[of |-> bound[t], tag |-> Current(t)]}
     /\ UNCHANGED <<teardownVars, bound, guard, blocks, pending, streams,
                    destroyed, modules, scratch, pinEpoch, loan, watcher>>

\* with_pinned_scratch: a buffer of an older epoch is forgotten.
PinScratch(t) ==
  LET slot == IF scratch[t].of # 0 /\ scratch[t].epoch = pinEpoch
                THEN scratch[t] ELSE [of |-> bound[t], epoch |-> pinEpoch]
  IN /\ Running(t) /\ use[t].scratch = 0
     /\ scratch' = [scratch EXCEPT ![t] = slot]
     /\ Hold(t, "scratch", slot.of)
     /\ UNCHANGED <<teardownVars, bound, guard, blocks, pending, streams,
                    destroyed, modules, graphs, pinEpoch, loan, watcher>>

\* A buffer is handed to the worker thread, which will drop it.
Lend(t) ==
  /\ Running(t) /\ loan = 0 /\ use[t].block # 0
  /\ loan' = use[t].block
  /\ Hold(t, "block", 0)
  /\ UNCHANGED <<teardownVars, bound, guard, cacheVars, watcher>>

\* The end of a statement: CudaStream::drop releases the stream under the tag
\* of the active context, and the buffer's drop frees its block at once or
\* defers it behind the stream.
Finish(t) ==
  LET u == use[t]
      tagged == IF u.stream = 0 THEN {}
                ELSE {[of |-> u.stream, tag |-> Current(t)]}
  IN /\ Running(t) /\ u # Idle
     /\ streams' = streams \cup tagged
     /\ \/ blocks' = blocks \cup ({u.block} \ {0}) /\ UNCHANGED pending
        \/ /\ u.block # 0 /\ u.stream # 0
           /\ pending' = pending \cup {[block |-> u.block, stream |-> u.stream]}
           /\ UNCHANGED blocks
     /\ use' = [use EXCEPT ![t] = Idle]
     /\ UNCHANGED <<teardownVars, bound, guard, destroyed, modules, graphs,
                    scratch, pinEpoch, loan, watcher>>

\* sweep_pending: a deferred block whose event has fired enters the pool.
SweepPending(t) ==
  \E f \in pending :
    /\ Running(t)
    /\ pending' = pending \ {f}
    /\ blocks' = blocks \cup {f.block}
    /\ UNCHANGED <<teardownVars, bound, guard, streams, destroyed, modules,
                   graphs, scratch, pinEpoch, use, loan, watcher>>

-----------------------------------------------------------------------------
(***************************************************************************)
(* Dropping an engine: Drop of CudaContext, in its order, then the permit. *)
(***************************************************************************)

\* The engine's own buffers are gone by then: _ctx is dropped after them.
DropEngine(t) ==
  /\ At(t, "ready") /\ use[t] = Idle
  /\ Outliving \/ loan = 0
  /\ Goto(t, "pool")
  /\ UNCHANGED <<permit, handle, alive, bound, owning, epoch, guard,
                 cacheVars, use, loan, watcher>>

\* A drain that forgets the deferred frees.
DropBucketsOnly(t) ==
  /\ At(t, "pool")
  /\ blocks' = {}
  /\ Goto(t, "streams")
  /\ UNCHANGED <<permit, handle, alive, bound, owning, epoch, guard, pending,
                 streams, destroyed, modules, graphs, scratch, pinEpoch, use,
                 loan, watcher>>

\* POOL.drain: waits for the events of the deferred frees and empties both.
DropPool(t) ==
  /\ At(t, "pool")
  /\ pending' = {} /\ blocks' = {}
  /\ Goto(t, "streams")
  /\ UNCHANGED <<permit, handle, alive, bound, owning, epoch, guard, streams,
                 destroyed, modules, graphs, scratch, pinEpoch, use, loan,
                 watcher>>

\* stream_pool::drain: destroys the streams with the active context's tag.
DropStreams(t) ==
  LET mine == {e \in streams : e.tag = Current(t)}
  IN /\ At(t, "streams")
     /\ streams' = streams \ mine
     /\ destroyed' = destroyed \cup {e.of : e \in mine}
     /\ Goto(t, "modules")
     /\ UNCHANGED <<permit, handle, alive, bound, owning, epoch, guard, blocks,
                    pending, modules, graphs, scratch, pinEpoch, use, loan,
                    watcher>>

\* What clear_all_caches leaves: nothing of either module cache.
ClearedSpecsOnly == [spec |-> 0, ptx |-> modules.ptx]
ClearedModules == [spec |-> 0, ptx |-> 0]

\* clear_all_caches with invalidate_graph_cache_on_context_teardown.
DropModules(t) ==
  /\ At(t, "modules")
  /\ modules' = ClearedModules
  /\ graphs' = {g \in graphs : g.tag # Current(t)}
  /\ Goto(t, "scratch")
  /\ UNCHANGED <<permit, handle, alive, bound, owning, epoch, guard, blocks,
                 pending, streams, destroyed, scratch, pinEpoch, use, loan,
                 watcher>>

\* invalidate_pinned_scratch_on_context_teardown.
DropScratch(t) ==
  /\ At(t, "scratch")
  /\ scratch' = [scratch EXCEPT ![t] = [of |-> 0, epoch |-> 0]]
  /\ pinEpoch' = pinEpoch + 1
  /\ Goto(t, "invalidate")
  /\ UNCHANGED <<permit, handle, alive, bound, owning, epoch, guard, blocks,
                 pending, streams, destroyed, modules, graphs, use, loan,
                 watcher>>

\* The same without waiting for the guard.
InvalidateUnguarded(t) ==
  /\ epoch' = epoch + 1
  /\ owning' = IF owning # 0 /\ handle[owning] = handle[engine[t].ctx]
                 THEN 0 ELSE owning

\* ctx_binder::invalidate_owning_ctx, once nobody holds the guard.
InvalidateOwning(t) ==
  /\ guard = "nobody"
  /\ epoch' = epoch + 1
  /\ owning' = IF owning # 0 /\ handle[owning] = handle[engine[t].ctx]
                 THEN 0 ELSE owning

DropOwning(t) ==
  /\ At(t, "invalidate")
  /\ InvalidateOwning(t)
  /\ Goto(t, "destroy")
  /\ UNCHANGED <<permit, handle, alive, bound, guard, cacheVars, use, loan,
                 watcher>>

\* cuCtxDestroy: also unbinds the context from the calling thread, and only
\* from it.
DropContext(t) ==
  /\ At(t, "destroy")
  /\ alive' = alive \ {engine[t].ctx}
  /\ bound' = [bound EXCEPT ![t] = 0]
  /\ Goto(t, "permit")
  /\ UNCHANGED <<permit, handle, owning, epoch, guard, cacheVars, use, loan,
                 watcher>>

\* Drop of ActiveEnginePermit, the engine's last field.
DropPermit(t) ==
  /\ At(t, "permit")
  /\ permit' = FALSE
  /\ engine' = [engine EXCEPT ![t] = [ctx |-> 0, at |-> "none", seen |-> 0]]
  /\ UNCHANGED <<handle, alive, bound, owning, epoch, guard, cacheVars, use,
                 loan, watcher>>

-----------------------------------------------------------------------------
(***************************************************************************)
(* The worker thread, which has no context, drops the buffer it was lent.  *)
(***************************************************************************)

\* DeviceMemPool::free takes the block back.
WorkerPools ==
  /\ loan # 0 /\ guard # Worker
  /\ blocks' = blocks \cup {loan}
  /\ loan' = 0
  /\ UNCHANGED <<teardownVars, bound, guard, pending, streams, destroyed,
                 modules, graphs, scratch, pinEpoch, use, watcher>>

\* The pool is full and driver_free_default_backend finds no context recorded:
\* the block is leaked.
WorkerLeaks ==
  /\ loan # 0 /\ guard = "nobody" /\ owning = 0
  /\ loan' = 0
  /\ UNCHANGED <<teardownVars, bound, guard, cacheVars, use, watcher>>

\* Or it binds the recorded context, under the guard,
WorkerBinds ==
  /\ loan # 0 /\ guard = "nobody" /\ owning # 0
  /\ guard' = Worker
  /\ bound' = [bound EXCEPT ![Worker] = owning]
  /\ UNCHANGED <<teardownVars, cacheVars, use, loan, watcher>>

\* frees the block and unbinds it.
WorkerFrees ==
  /\ guard = Worker
  /\ guard' = "nobody"
  /\ bound' = [bound EXCEPT ![Worker] = 0]
  /\ loan' = 0
  /\ UNCHANGED <<teardownVars, cacheVars, use, watcher>>

-----------------------------------------------------------------------------
(***************************************************************************)
(* A poll of the watcher.                                                  *)
(***************************************************************************)

\* real_ctx_attach binds the recorded context, if any, under the guard.
WatcherBinds ==
  /\ watcher = "idle" /\ guard = "nobody"
  /\ \/ /\ owning # 0
        /\ guard' = Watcher
        /\ bound' = [bound EXCEPT ![Watcher] = owning]
     \/ owning = 0 /\ UNCHANGED <<guard, bound>>
  /\ watcher' = "bound"
  /\ UNCHANGED <<teardownVars, cacheVars, use, loan>>

WatcherReleases ==
  /\ watcher = "bound" /\ guard = Watcher
  /\ guard' = "nobody"
  /\ UNCHANGED <<teardownVars, bound, cacheVars, use, loan, watcher>>

\* real_mem_info, with the context bound at this or an earlier poll: it fails
\* in a dead context.  When memory is low blocks are evicted, otherwise the
\* poll is over.
WatcherPolls ==
  /\ watcher = "bound" /\ guard # Watcher
  /\ \/ watcher' = "idle"
     \/ bound[Watcher] \in alive /\ watcher' = "evict"
  /\ UNCHANGED <<teardownVars, bound, guard, cacheVars, use, loan>>

\* DeviceMemPool::evict_one: the context may be gone by now, and then
\* cuMemFree fails and the block is leaked.
WatcherEvicts ==
  /\ watcher = "evict"
  /\ \/ \E b \in blocks : blocks' = blocks \ {b} /\ UNCHANGED watcher
     \/ watcher' = "idle" /\ UNCHANGED blocks
  /\ UNCHANGED <<teardownVars, bound, guard, pending, streams, destroyed,
                 modules, graphs, scratch, pinEpoch, use, loan>>

-----------------------------------------------------------------------------
Next ==
  \/ \E t \in Threads :
       \/ TakePermit(t) \/ BuildFails(t) \/ Register(t) \/ EnsureStarted(t)
       \/ \E h \in Handles : NewContext(t, h)
       \/ AcquireStream(t) \/ Alloc(t) \/ GetModule(t) \/ SortGraph(t)
       \/ \E cache \in {"spec", "ptx"} : EvictModule(t, cache)
       \/ PinScratch(t) \/ Lend(t) \/ Finish(t) \/ SweepPending(t)
       \/ DropEngine(t) \/ DropPool(t) \/ DropStreams(t) \/ DropModules(t)
       \/ DropScratch(t) \/ DropOwning(t) \/ DropContext(t) \/ DropPermit(t)
  \/ WorkerPools \/ WorkerLeaks \/ WorkerBinds \/ WorkerFrees
  \/ WatcherBinds \/ WatcherReleases \/ WatcherPolls \/ WatcherEvicts

Spec == Init /\ [][Next]_vars

-----------------------------------------------------------------------------
(***************************************************************************)
(* Properties.                                                             *)
(***************************************************************************)

\* The variables have their types.
TypeEngines ==
  /\ permit \in BOOLEAN
  /\ handle \in [Contexts -> Handles \cup {NoHandle}]
  /\ alive \subseteq Created
  /\ bound \in [Procs -> Serials]
  /\ engine \in [Threads -> [ctx : Serials, seen : Nat, at : Stages]]
  /\ owning \in Serials /\ epoch \in Nat
  /\ guard \in {"nobody", Watcher, Worker}
  /\ watcher \in {"off", "idle", "bound", "evict"}

TypeCaches ==
  /\ blocks \subseteq Contexts
  /\ pending \subseteq [block : Contexts, stream : Contexts]
  /\ streams \subseteq [of : Contexts, tag : Handles]
  /\ destroyed \subseteq Contexts
  /\ modules \in [spec : Serials, ptx : Serials]
  /\ graphs \subseteq [of : Contexts, tag : Handles]
  /\ scratch \in [Threads -> [of : Serials, epoch : Nat]]
  /\ pinEpoch \in Nat
  /\ use \in [Threads -> [stream : Serials, block : Serials,
       module : Serials, graph : Serials, scratch : Serials]]
  /\ loan \in Serials

TypeOK == TypeEngines /\ TypeCaches

\* A context that the watcher or a context-less free has bound under the guard
\* is alive until the guard is released: the teardown of its engine
\* invalidates the record under the same guard before cuCtxDestroy
\* (ctx_binder, real_ctx_attach, driver_free_default_backend).
BindsLive ==
  guard # "nobody" => bound[guard] \in alive

\* Whatever a statement holds was made in the context of its engine, though
\* the caches are process-wide, most are not keyed by context, and a new
\* context may have the handle of a destroyed one: the teardown of the
\* previous engine left nothing behind (Drop of CudaContext).
HandlesOfOwnContext ==
  \A t \in Threads : \A h \in DOMAIN use[t] :
    use[t][h] \in {0, engine[t].ctx}

\* The streams that deferred frees wait for, and the stream of a running
\* statement, have not been destroyed, nor has their context: POOL.drain
\* waits for the events before stream_pool::drain destroys the streams, and
\* cuCtxDestroy comes last.
WaitedStreamsLive ==
  /\ \A f \in pending : f.stream \in alive \ destroyed
  /\ \A t \in Threads :
       use[t].stream # 0 => use[t].stream \in alive \ destroyed
=============================================================================
