-------------------------- MODULE Contexts_proofs --------------------------
(***************************************************************************)
(* The safety of a process's contexts for any number of threads, handles   *)
(* and contexts.  The permit makes the engines take turns, so at any time  *)
(* at most one context is alive; each cache may hold things of that        *)
(* context only, and only until the step of the teardown that empties it.  *)
(* A context leaves the stages in the order of Drop of CudaContext, which  *)
(* is what the stage sets below follow.                                    *)
(***************************************************************************)
EXTENDS Contexts, TLAPS

\* The stages at which an engine's pool, streams, modules and graphs, scratch,
\* recorded context and context are still there.
PoolStages == {"ready", "pool"}
StreamStages == PoolStages \cup {"streams"}
ModuleStages == StreamStages \cup {"modules"}
ScratchStages == ModuleStages \cup {"scratch"}
RecordStages == ScratchStages \cup {"invalidate"}
ContextStages == RecordStages \cup {"register", "destroy"}

\* c is the context of an engine at one of the stages.
OwnedAt(c, stages) ==
  \E t \in Threads : engine[t].ctx = c /\ engine[t].at \in stages

\* Engines take turns, and the one with a context has it alive and bound.
EnginesInv ==
  /\ \A t \in Threads : engine[t].at # "none" => permit
  /\ \A t, u \in Threads :
       engine[t].at # "none" /\ engine[u].at # "none" => t = u
  /\ \A t \in Threads : engine[t].at \in ContextStages =>
       engine[t].ctx \in alive /\ bound[t] = engine[t].ctx
  /\ \A c \in alive : OwnedAt(c, ContextStages)

\* The recorded context is the engine's until the teardown invalidates it,
\* and whoever holds the guard has bound the recorded context.
RecordInv ==
  /\ owning # 0 => OwnedAt(owning, RecordStages)
  /\ guard # "nobody" => owning # 0 /\ bound[guard] = owning

\* What the pool, the lent buffer and the deferred frees hold.
PoolInv ==
  /\ \A b \in blocks : OwnedAt(b, PoolStages)
  /\ \A f \in pending :
       OwnedAt(f.block, PoolStages) /\ OwnedAt(f.stream, PoolStages)
  /\ loan # 0 => OwnedAt(loan, {"ready"})

\* What the other caches hold, and which streams are gone.
CachesInv ==
  /\ \A e \in streams :
       OwnedAt(e.of, StreamStages) /\ e.tag = handle[e.of]
  /\ \A g \in graphs :
       OwnedAt(g.of, ModuleStages) /\ g.tag = handle[g.of]
  /\ \A cache \in {"spec", "ptx"} :
       modules[cache] # 0 => OwnedAt(modules[cache], ModuleStages)
  /\ \A t \in Threads :
       /\ scratch[t].epoch <= pinEpoch
       /\ scratch[t].of # 0 /\ scratch[t].epoch = pinEpoch =>
            OwnedAt(scratch[t].of, ScratchStages)
  /\ destroyed \subseteq Created
  /\ \A c \in destroyed : ~OwnedAt(c, StreamStages \cup {"register"})

\* A statement runs on a ready engine and holds things of its context.
UseInv ==
  \A t \in Threads :
    /\ engine[t].at # "ready" => use[t] = Idle
    /\ \A h \in DOMAIN Idle : use[t][h] \in {0, engine[t].ctx}

\* Inductive whatever outlives an engine.
BaseInv == TypeOK /\ EnginesInv /\ RecordInv

IInv == BaseInv /\ PoolInv /\ CachesInv /\ UseInv

-----------------------------------------------------------------------------
(***************************************************************************)
(* Facts about one state.                                                  *)
(***************************************************************************)

\* The one engine there is owns whatever is owned.
LEMMA OwnerIsUnique ==
  ASSUME EnginesInv, NEW t \in Threads, engine[t].at # "none",
         NEW c, NEW stages, "none" \notin stages, OwnedAt(c, stages)
  PROVE  c = engine[t].ctx /\ engine[t].at \in stages
BY Zenon DEF EnginesInv, OwnedAt

\* An engine with a context has it created, alive and current.
LEMMA OwnContext ==
  ASSUME ContextsAssumption, TypeEngines, EnginesInv,
         NEW t \in Threads, engine[t].at \in ContextStages
  PROVE  /\ engine[t].ctx \in Contexts /\ engine[t].ctx \in alive
         /\ bound[t] = engine[t].ctx /\ bound[t] # 0
         /\ Current(t) = handle[engine[t].ctx] /\ Current(t) \in Handles
<1>1. engine[t].ctx \in alive /\ bound[t] = engine[t].ctx
  BY Zenon DEF EnginesInv
<1>2. engine[t].ctx \in Contexts /\ handle[engine[t].ctx] # NoHandle
  BY <1>1, Zenon DEF TypeEngines, Created
<1>3. bound[t] # 0 /\ handle[engine[t].ctx] \in Handles
  BY <1>1, <1>2 DEF TypeEngines, Contexts, ContextsAssumption
<1> QED BY <1>1, <1>2, <1>3, Zenon DEF Current

\* A ready engine has a context.
LEMMA ReadyOwns ==
  ASSUME NEW t \in Threads, Running(t)
  PROVE  engine[t].at \in ContextStages /\ engine[t].at \in PoolStages
BY Zenon DEF Running, At, PoolStages, StreamStages, ModuleStages, ScratchStages,
       RecordStages, ContextStages

-----------------------------------------------------------------------------
(***************************************************************************)
(* Engines, the recorded context and the guard, whatever outlives an       *)
(* engine.                                                                 *)
(***************************************************************************)

LEMMA BaseInit ==
  ASSUME ContextsAssumption, Init
  PROVE  BaseInv
<1>1. TypeEngines
  <2>1. permit \in BOOLEAN
    BY Zenon DEF Init
  <2>2. handle \in [Contexts -> Handles \cup {NoHandle}]
    BY Zenon DEF Init
  <2>3. alive \subseteq Created
    BY Zenon DEF Init
  <2>4. bound \in [Procs -> Serials]
    BY DEF Init, Serials, ContextsAssumption
  <2>5. engine \in [Threads -> [ctx : Serials, seen : Nat, at : Stages]]
    BY DEF Init, Serials, ContextsAssumption, Stages
  <2>6. owning \in Serials /\ epoch \in Nat
    BY DEF Init, Serials, ContextsAssumption, Stages
  <2> QED BY <2>1, <2>2, <2>3, <2>4, <2>5, <2>6, Zenon DEF Init, TypeEngines
<1>2. TypeCaches
  BY DEF Init, TypeCaches, ContextsAssumption, Serials, Idle
<1>3. EnginesInv /\ RecordInv
  BY Zenon DEF Init, EnginesInv, RecordInv, PoolStages, StreamStages, ModuleStages,
         ScratchStages, RecordStages, ContextStages
<1> QED BY <1>1, <1>2, <1>3, Zenon DEF BaseInv, TypeOK

\* A statement's steps leave the engines, the record and the guard alone.
LEMMA StatementBase ==
  ASSUME BaseInv, UNCHANGED <<teardownVars, bound, guard, watcher>>
  PROVE  TypeEngines' /\ EnginesInv' /\ RecordInv'
<1>1. TypeEngines'
  BY Zenon DEF BaseInv, TypeOK, TypeEngines, Created, teardownVars
<1>2. EnginesInv' /\ RecordInv'
  BY Zenon DEF BaseInv, EnginesInv, RecordInv, OwnedAt, teardownVars
<1> QED BY <1>1, <1>2, Zenon

\* The steps of an engine leave the caches alone.
LEMMA EngineCaches ==
  ASSUME TypeCaches, UNCHANGED <<cacheVars, use, loan>>
  PROVE  TypeCaches'
BY Zenon DEF TypeCaches, cacheVars

\* A teardown moves from stage to stage with its context and its record.
LEMMA StageBase ==
  ASSUME BaseInv, NEW t \in Threads, NEW stage \in RecordStages,
         engine[t].at \in RecordStages, Goto(t, stage),
         UNCHANGED <<permit, handle, alive, bound, owning, epoch, guard, watcher>>
  PROVE  TypeEngines' /\ EnginesInv' /\ RecordInv'
<1> USE DEF PoolStages, StreamStages, ModuleStages, ScratchStages, RecordStages
<1>1. engine \in [Threads -> [ctx : Serials, seen : Nat, at : Stages]]
  BY Zenon DEF BaseInv, TypeOK, TypeEngines
<1>2. /\ engine' \in [Threads -> [ctx : Serials, seen : Nat, at : Stages]]
      /\ \A u \in Threads : engine'[u].ctx = engine[u].ctx
      /\ \A u \in Threads : u # t => engine'[u] = engine[u]
      /\ engine'[t].at = stage
  BY <1>1, Zenon DEF Goto, Stages
<1>3. TypeEngines'
  BY <1>2, Zenon DEF BaseInv, TypeOK, TypeEngines, Created
<1>4. ASSUME NEW c, OwnedAt(c, ContextStages) PROVE OwnedAt(c, ContextStages)'
  BY <1>2, <1>4, Zenon DEF OwnedAt, ContextStages
<1>5. ASSUME NEW c, OwnedAt(c, RecordStages) PROVE OwnedAt(c, RecordStages)'
  BY <1>2, <1>5, Zenon DEF OwnedAt
<1>6. EnginesInv'
  BY <1>2, <1>4 DEF BaseInv, EnginesInv, ContextStages
<1>7. RecordInv'
  BY <1>5, Zenon DEF BaseInv, RecordInv
<1> QED BY <1>3, <1>6, <1>7, Zenon

\* Between taking the permit and giving it back an engine has no context yet,
\* or none any more.
NoContextStages == {"none", "build", "permit"}

\* An engine that is being built or is gone: its stage changes, and nothing
\* else that an engine with a context depends on.
LEMMA OutsideBase ==
  ASSUME BaseInv, NEW t \in Threads, engine[t].at \in NoContextStages,
         engine' \in [Threads -> [ctx : Serials, seen : Nat, at : Stages]],
         engine'[t].at \in NoContextStages,
         \A u \in Threads \ {t} : engine'[u] = engine[u],
         permit' \in BOOLEAN, engine'[t].at # "none" => permit',
         \A u \in Threads \ {t} : engine[u].at = "none",
         UNCHANGED <<handle, alive, bound, owning, epoch, guard, watcher>>
  PROVE  TypeEngines' /\ EnginesInv' /\ RecordInv'
<1>1. TypeEngines'
  BY Zenon DEF BaseInv, TypeOK, TypeEngines, Created
<1>2. ASSUME NEW c PROVE ~OwnedAt(c, ContextStages)
  BY Zenon DEF OwnedAt, NoContextStages, ContextStages, PoolStages, StreamStages,
         ModuleStages, ScratchStages, RecordStages
<1>3. owning = 0 /\ alive = {} /\ guard = "nobody"
  BY <1>2, ZenonT(40) DEF BaseInv, EnginesInv, RecordInv, OwnedAt, ContextStages
<1>4. EnginesInv'
  BY <1>3 DEF EnginesInv, NoContextStages, ContextStages, PoolStages,
              StreamStages, ModuleStages, ScratchStages, RecordStages
<1>5. RecordInv'
  BY <1>3, Zenon DEF RecordInv
<1> QED BY <1>1, <1>4, <1>5, Zenon

LEMMA TakePermitBase ==
  ASSUME ContextsAssumption, BaseInv, NEW t \in Threads, TakePermit(t)
  PROVE  BaseInv'
<1>1. TypeCaches'
  BY EngineCaches, Zenon DEF TakePermit, BaseInv, TypeOK
<1>2. \A u \in Threads : engine[u].at = "none"
  BY Zenon DEF TakePermit, BaseInv, EnginesInv
<1>3. engine' \in [Threads -> [ctx : Serials, seen : Nat, at : Stages]]
  BY Zenon DEF TakePermit, Goto, Stages, BaseInv, TypeOK, TypeEngines
<1>4. engine'[t].at = "build" /\ \A u \in Threads \ {t} : engine'[u] = engine[u]
  BY Zenon DEF TakePermit, Goto, BaseInv, TypeOK, TypeEngines
<1>5. permit' = TRUE /\ UNCHANGED <<handle, alive, bound, owning, epoch, guard, watcher>>
  BY Zenon DEF TakePermit
<1>6. TypeEngines' /\ EnginesInv' /\ RecordInv'
  BY <1>2, <1>3, <1>4, <1>5, OutsideBase, Zenon DEF NoContextStages
<1> QED BY <1>1, <1>6, Zenon DEF BaseInv, TypeOK

LEMMA BuildFailsBase ==
  ASSUME ContextsAssumption, BaseInv, NEW t \in Threads, BuildFails(t)
  PROVE  BaseInv'
<1>1. TypeCaches'
  BY EngineCaches, Zenon DEF BuildFails, BaseInv, TypeOK
<1>2. engine[t].at = "build" /\ \A u \in Threads \ {t} : engine[u].at = "none"
  BY Zenon DEF BuildFails, At, BaseInv, EnginesInv
<1>3. engine' \in [Threads -> [ctx : Serials, seen : Nat, at : Stages]]
  BY Zenon DEF BuildFails, Goto, Stages, BaseInv, TypeOK, TypeEngines
<1>4. engine'[t].at = "none" /\ \A u \in Threads \ {t} : engine'[u] = engine[u]
  BY Zenon DEF BuildFails, Goto, BaseInv, TypeOK, TypeEngines
<1>5. permit' = FALSE /\ UNCHANGED <<handle, alive, bound, owning, epoch, guard, watcher>>
  BY Zenon DEF BuildFails
<1>6. TypeEngines' /\ EnginesInv' /\ RecordInv'
  BY <1>2, <1>3, <1>4, <1>5, OutsideBase, Zenon DEF NoContextStages
<1> QED BY <1>1, <1>6, Zenon DEF BaseInv, TypeOK

LEMMA DropPermitBase ==
  ASSUME ContextsAssumption, BaseInv, NEW t \in Threads, DropPermit(t)
  PROVE  BaseInv'
<1>1. TypeCaches'
  BY EngineCaches, Zenon DEF DropPermit, BaseInv, TypeOK
<1>2. engine[t].at = "permit" /\ \A u \in Threads \ {t} : engine[u].at = "none"
  BY Zenon DEF DropPermit, At, BaseInv, EnginesInv
<1>3. engine' \in [Threads -> [ctx : Serials, seen : Nat, at : Stages]]
  BY DEF DropPermit, Stages, Serials, ContextsAssumption, BaseInv, TypeOK, TypeEngines
<1>4. engine'[t].at = "none" /\ \A u \in Threads \ {t} : engine'[u] = engine[u]
  BY Zenon DEF DropPermit, BaseInv, TypeOK, TypeEngines
<1>5. permit' = FALSE /\ UNCHANGED <<handle, alive, bound, owning, epoch, guard, watcher>>
  BY Zenon DEF DropPermit
<1>6. TypeEngines' /\ EnginesInv' /\ RecordInv'
  BY <1>2, <1>3, <1>4, <1>5, OutsideBase, Zenon DEF NoContextStages
<1> QED BY <1>1, <1>6, Zenon DEF BaseInv, TypeOK

\* NewContext picks the first serial not used, and the engine gets it.
LEMMA NewContextFacts ==
  ASSUME ContextsAssumption, BaseInv, NEW t \in Threads, NEW h \in Handles,
         NewContext(t, h)
  PROVE  \E c \in Contexts \ Created :
           /\ handle' = [handle EXCEPT ![c] = h] /\ alive' = alive \cup {c}
           /\ bound' = [bound EXCEPT ![t] = c]
           /\ engine' = [engine EXCEPT ![t] =
                [ctx |-> c, at |-> "register", seen |-> epoch]]
<1>1. PICK c \in Contexts \ Created :
        /\ handle' = [handle EXCEPT ![c] = h] /\ alive' = alive \cup {c}
        /\ bound' = [bound EXCEPT ![t] = c]
  BY Zenon DEF NewContext, CtxCreate
<1>2. c \notin alive
  BY Zenon DEF BaseInv, TypeOK, TypeEngines
<1>3. \A x : x \in alive' /\ x \notin alive <=> x = c
  BY <1>1, <1>2, Zenon
<1>4. (CHOOSE x \in alive' : x \notin alive) = c
  BY <1>3, Zenon
<1>5. engine' = [engine EXCEPT ![t] =
        [ctx |-> c, at |-> "register", seen |-> epoch]]
  BY <1>4, Zenon DEF NewContext
<1> QED BY <1>1, <1>5, Zenon

LEMMA NewContextBase ==
  ASSUME ContextsAssumption, BaseInv, NEW t \in Threads, NEW h \in Handles,
         NewContext(t, h)
  PROVE  BaseInv'
<1>1. TypeCaches'
  BY EngineCaches, Zenon DEF NewContext, BaseInv, TypeOK
<1>2. PICK c \in Contexts \ Created :
        /\ handle' = [handle EXCEPT ![c] = h] /\ alive' = alive \cup {c}
        /\ bound' = [bound EXCEPT ![t] = c]
        /\ engine' = [engine EXCEPT ![t] =
             [ctx |-> c, at |-> "register", seen |-> epoch]]
  BY NewContextFacts, Zenon
<1>3. engine[t].at = "build" /\ permit /\ \A u \in Threads \ {t} : engine[u].at = "none"
  BY Zenon DEF NewContext, At, BaseInv, EnginesInv
<1>4. \A d : ~OwnedAt(d, ContextStages)
  BY <1>3, Zenon DEF OwnedAt, ContextStages, PoolStages, StreamStages,
         ModuleStages, ScratchStages, RecordStages
<1>5. owning = 0 /\ alive = {} /\ guard = "nobody"
  BY <1>4, Zenon DEF BaseInv, EnginesInv, RecordInv, OwnedAt, ContextStages
<1>6. /\ engine' \in [Threads -> [ctx : Serials, seen : Nat, at : Stages]]
      /\ engine'[t].ctx = c /\ engine'[t].at = "register"
      /\ \A u \in Threads \ {t} : engine'[u] = engine[u]
  BY <1>2 DEF Contexts, Serials, Stages, BaseInv, TypeOK, TypeEngines
<1>7. /\ handle' \in [Contexts -> Handles \cup {NoHandle}]
      /\ handle'[c] = h /\ h # NoHandle
      /\ bound' \in [Procs -> Serials] /\ bound'[t] = c
  BY <1>2 DEF Contexts, Serials, Procs, NoHandle, ContextsAssumption, BaseInv,
              TypeOK, TypeEngines
<1>8. UNCHANGED <<permit, owning, epoch, guard, watcher>>
  BY Zenon DEF NewContext
<1>9. TypeEngines'
  BY <1>2, <1>5, <1>6, <1>7, <1>8, Zenon DEF BaseInv, TypeOK, TypeEngines, Created
<1>10. EnginesInv'
  BY <1>2, <1>3, <1>5, <1>6, <1>7, <1>8, Zenon DEF EnginesInv, OwnedAt, ContextStages,
         PoolStages, StreamStages, ModuleStages, ScratchStages, RecordStages
<1>11. RecordInv'
  BY <1>5, <1>8, Zenon DEF RecordInv
<1> QED BY <1>1, <1>9, <1>10, <1>11, Zenon DEF BaseInv, TypeOK

LEMMA RegisterBase ==
  ASSUME ContextsAssumption, BaseInv, NEW t \in Threads, Register(t)
  PROVE  BaseInv'
<1>1. TypeCaches'
  BY EngineCaches, Zenon DEF Register, BaseInv, TypeOK
<1>2. engine[t].at = "register" /\ engine[t].at \in ContextStages
  BY Zenon DEF Register, At, ContextStages
<1>3. /\ engine' \in [Threads -> [ctx : Serials, seen : Nat, at : Stages]]
      /\ engine'[t].at = "ready"
      /\ \A u \in Threads : engine'[u].ctx = engine[u].ctx
      /\ \A u \in Threads \ {t} : engine'[u] = engine[u]
  BY Zenon DEF Register, Goto, Stages, BaseInv, TypeOK, TypeEngines
<1>4. ASSUME NEW c, OwnedAt(c, ContextStages) PROVE OwnedAt(c, ContextStages)'
  BY <1>3, <1>4, Zenon DEF OwnedAt, ContextStages, PoolStages, StreamStages,
         ModuleStages, ScratchStages, RecordStages
<1>5. ~OwnedAt(owning, RecordStages)
  BY <1>2, OwnerIsUnique DEF BaseInv, PoolStages, StreamStages,
         ModuleStages, ScratchStages, RecordStages
<1>6. owning = 0 /\ guard = "nobody"
  BY <1>5, Zenon DEF BaseInv, RecordInv
<1>7. UNCHANGED <<permit, handle, alive, bound, epoch, guard, watcher>>
  BY Zenon DEF Register
<1>8. owning' \in {0, engine[t].ctx} /\ owning' \in Serials
  BY <1>6, Zenon DEF Register, CaptureOwning, BaseInv, TypeOK, TypeEngines
<1>9. TypeEngines'
  BY <1>3, <1>7, <1>8, Zenon DEF BaseInv, TypeOK, TypeEngines, Created
<1>10. EnginesInv'
  BY <1>2, <1>3, <1>4, <1>7 DEF BaseInv, EnginesInv
<1>11. RecordInv'
  BY <1>3, <1>6, <1>7, <1>8, Zenon DEF RecordInv, OwnedAt, PoolStages, StreamStages,
         ModuleStages, ScratchStages, RecordStages
<1> QED BY <1>1, <1>9, <1>10, <1>11, Zenon DEF BaseInv, TypeOK

LEMMA EnsureStartedBase ==
  ASSUME ContextsAssumption, BaseInv, NEW t \in Threads, EnsureStarted(t)
  PROVE  BaseInv'
<1>1. TypeCaches'
  BY EngineCaches, Zenon DEF EnsureStarted, BaseInv, TypeOK
<1>2. engine[t].at \in RecordStages /\ engine[t].at \in ContextStages
  BY Zenon DEF EnsureStarted, At, PoolStages, StreamStages, ModuleStages,
         ScratchStages, RecordStages, ContextStages
<1>3. bound[t] = engine[t].ctx /\ bound[t] # 0 /\ bound[t] \in Contexts
  BY <1>2, OwnContext, Zenon DEF BaseInv, TypeOK
<1>4. owning' = engine[t].ctx /\ owning' \in Serials /\ guard = "nobody"
  BY <1>3 DEF EnsureStarted, CaptureOwning, Contexts, Serials
<1>5. UNCHANGED <<permit, handle, alive, bound, engine, epoch, guard>> /\ watcher' = "idle"
  BY Zenon DEF EnsureStarted
<1>6. TypeEngines'
  BY <1>4, <1>5, Zenon DEF BaseInv, TypeOK, TypeEngines, Created
<1>7. EnginesInv'
  BY <1>5, Zenon DEF BaseInv, EnginesInv, OwnedAt
<1>8. RecordInv'
  BY <1>2, <1>4, <1>5, Zenon DEF RecordInv, OwnedAt
<1> QED BY <1>1, <1>6, <1>7, <1>8, Zenon DEF BaseInv, TypeOK

LEMMA DropOwningBase ==
  ASSUME ContextsAssumption, BaseInv, NEW t \in Threads, DropOwning(t)
  PROVE  BaseInv' /\ owning' = 0
<1>1. TypeCaches'
  BY EngineCaches, Zenon DEF DropOwning, BaseInv, TypeOK
<1>2. engine[t].at = "invalidate"
  BY Zenon DEF DropOwning, At
<1>3. /\ engine' \in [Threads -> [ctx : Serials, seen : Nat, at : Stages]]
      /\ engine'[t].at = "destroy"
      /\ \A u \in Threads : engine'[u].ctx = engine[u].ctx
      /\ \A u \in Threads \ {t} : engine'[u] = engine[u]
  BY Zenon DEF DropOwning, Goto, Stages, BaseInv, TypeOK, TypeEngines
<1>4. ASSUME NEW c, OwnedAt(c, ContextStages) PROVE OwnedAt(c, ContextStages)'
  BY <1>3, <1>4, Zenon DEF OwnedAt, ContextStages
<1>5. owning # 0 => owning = engine[t].ctx
  BY <1>2, OwnerIsUnique, Zenon DEF BaseInv, RecordInv, PoolStages, StreamStages,
         ModuleStages, ScratchStages, RecordStages
<1>6. owning' = 0 /\ epoch' = epoch + 1 /\ guard = "nobody"
  BY <1>5, Zenon DEF DropOwning, InvalidateOwning
<1>7. UNCHANGED <<permit, handle, alive, bound, guard, watcher>>
  BY Zenon DEF DropOwning
<1>8. TypeEngines'
  <2>1. owning' \in Serials /\ epoch' \in Nat
    BY <1>6 DEF BaseInv, TypeOK, TypeEngines, Serials, ContextsAssumption
  <2> QED BY <1>3, <1>7, <2>1, Zenon DEF BaseInv, TypeOK, TypeEngines, Created
<1>9. EnginesInv'
  <2>1. engine[t].at \in ContextStages /\ engine'[t].at \in ContextStages
    BY <1>2, <1>3, Zenon DEF ContextStages, RecordStages
  <2> QED BY <1>2, <1>3, <1>4, <1>7, <2>1 DEF BaseInv, EnginesInv
<1>10. RecordInv'
  BY <1>6, <1>7, Zenon DEF RecordInv
<1> QED BY <1>1, <1>6, <1>8, <1>9, <1>10, Zenon DEF BaseInv, TypeOK

\* cuCtxDestroy comes when the record is gone, so that nobody has the context
\* bound under the guard.
LEMMA DropContextBase ==
  ASSUME ContextsAssumption, BaseInv, NEW t \in Threads, DropContext(t)
  PROVE  BaseInv'
<1>1. TypeCaches'
  BY EngineCaches, Zenon DEF DropContext, BaseInv, TypeOK
<1>2. engine[t].at = "destroy" /\ engine[t].at \in ContextStages
  BY Zenon DEF DropContext, At, ContextStages
<1>3. /\ engine' \in [Threads -> [ctx : Serials, seen : Nat, at : Stages]]
      /\ engine'[t].at = "permit"
      /\ \A u \in Threads \ {t} : engine'[u] = engine[u]
  BY Zenon DEF DropContext, Goto, Stages, BaseInv, TypeOK, TypeEngines
<1>4. \A u \in Threads \ {t} : engine[u].at = "none"
  BY <1>2, Zenon DEF BaseInv, EnginesInv
<1>5. ~OwnedAt(owning, RecordStages)
  BY <1>2, OwnerIsUnique DEF BaseInv, PoolStages, StreamStages,
         ModuleStages, ScratchStages, RecordStages
<1>6. owning = 0 /\ guard = "nobody"
  BY <1>5, Zenon DEF BaseInv, RecordInv
<1>7. \A c \in alive : c = engine[t].ctx
  BY <1>2, OwnerIsUnique DEF BaseInv, EnginesInv, PoolStages, StreamStages,
         ModuleStages, ScratchStages, RecordStages, ContextStages
<1>8. /\ alive' = {} /\ bound' \in [Procs -> Serials]
      /\ UNCHANGED <<permit, handle, owning, epoch, guard, watcher>>
  <2>1. alive' = {} /\ UNCHANGED <<permit, handle, owning, epoch, guard, watcher>>
    BY <1>7, Zenon DEF DropContext
  <2>2. 0 \in Serials
    BY DEF Serials, ContextsAssumption
  <2>3. bound' \in [Procs -> Serials]
    BY <2>2, Zenon DEF DropContext, BaseInv, TypeOK, TypeEngines
  <2> QED BY <2>1, <2>3, Zenon
<1>9. TypeEngines'
  BY <1>3, <1>8, Zenon DEF BaseInv, TypeOK, TypeEngines
<1>10. EnginesInv'
  <2>1. engine'[t].at \notin ContextStages /\ "none" \notin ContextStages
    BY <1>3, Zenon DEF PoolStages, StreamStages, ModuleStages, ScratchStages,
         RecordStages, ContextStages
  <2>2. permit'
    BY <1>2, <1>8, Zenon DEF BaseInv, EnginesInv
  <2> QED BY <1>3, <1>4, <1>8, <2>1, <2>2 DEF EnginesInv
<1>11. RecordInv'
  BY <1>6, <1>8, Zenon DEF RecordInv
<1> QED BY <1>1, <1>9, <1>10, <1>11, Zenon DEF BaseInv, TypeOK

\* The steps of the teardown that empty a cache.
LEMMA DropCachesBase ==
  ASSUME ContextsAssumption, BaseInv, NEW t \in Threads,
         \/ DropEngine(t) \/ DropPool(t) \/ DropStreams(t) \/ DropModules(t)
         \/ DropScratch(t)
  PROVE  BaseInv'
<1> USE DEF PoolStages, StreamStages, ModuleStages, ScratchStages, RecordStages
<1>1. PICK stage \in RecordStages :
        /\ engine[t].at \in RecordStages /\ Goto(t, stage)
        /\ UNCHANGED <<permit, handle, alive, bound, owning, epoch, guard, watcher>>
  BY Zenon DEF DropEngine, DropPool, DropStreams, DropModules, DropScratch, At
<1>2. TypeEngines' /\ EnginesInv' /\ RecordInv'
  BY <1>1, StageBase, Zenon
<1>3. TypeCaches /\ TypeEngines
  BY Zenon DEF BaseInv, TypeOK
<1>4. TypeCaches'
  <2>1. CASE DropEngine(t)
    BY <2>1, <1>3, EngineCaches, Zenon DEF DropEngine
  <2>2. CASE DropPool(t)
    BY <2>2, <1>3, Zenon DEF DropPool, TypeCaches
  <2>3. CASE DropStreams(t)
    BY <2>3, <1>3 DEF DropStreams, TypeCaches
  <2>4. CASE DropModules(t)
    BY <2>4, <1>3 DEF DropModules, ClearedModules, TypeCaches, Serials, ContextsAssumption
  <2>5. CASE DropScratch(t)
    BY <2>5, <1>3 DEF DropScratch, TypeCaches, Serials, ContextsAssumption
  <2> QED BY <2>1, <2>2, <2>3, <2>4, <2>5, Zenon
<1> QED BY <1>2, <1>4, Zenon DEF BaseInv, TypeOK

\* The steps of a running statement.
Statement(t) ==
  \/ AcquireStream(t) \/ Alloc(t) \/ GetModule(t) \/ SortGraph(t)
  \/ \E cache \in {"spec", "ptx"} : EvictModule(t, cache)
  \/ PinScratch(t) \/ Lend(t) \/ Finish(t) \/ SweepPending(t)

LEMMA StatementFrame ==
  ASSUME NEW t \in Threads, Statement(t)
  PROVE  Running(t) /\ UNCHANGED <<teardownVars, bound, guard, watcher>>
BY Zenon DEF Statement, AcquireStream, Alloc, GetModule, SortGraph, EvictModule,
       PinScratch, Lend, Finish, SweepPending

\* What a statement takes into its hands has a serial.
UseType == [Threads -> [stream : Serials, block : Serials, module : Serials,
                        graph : Serials, scratch : Serials]]

LEMMA HoldType ==
  ASSUME use \in UseType, NEW t \in Threads, NEW what \in DOMAIN Idle,
         NEW of \in Serials, Hold(t, what, of)
  PROVE  use' \in UseType
BY Zenon DEF Hold, UseType, Idle

LEMMA StatementTypes ==
  ASSUME ContextsAssumption, BaseInv, NEW t \in Threads, Statement(t)
  PROVE  TypeCaches'
<1>1. engine[t].at \in ContextStages
  BY StatementFrame, ReadyOwns, Zenon
<1>2. TypeCaches /\ TypeEngines /\ EnginesInv
  BY Zenon DEF BaseInv, TypeOK
<1>3. bound[t] \in Contexts /\ bound[t] # 0 /\ Current(t) \in Handles
  BY <1>1, <1>2, OwnContext, Zenon
<1>4. Contexts \subseteq Serials /\ 0 \in Serials /\ Contexts = Serials \ {0}
  BY DEF Contexts, Serials, ContextsAssumption
<1>a. "stream" \in DOMAIN Idle /\ "block" \in DOMAIN Idle /\ "graph" \in DOMAIN Idle
  BY Zenon DEF Idle
<1>5. CASE AcquireStream(t)
  <2>1. PICK of \in Serials : Hold(t, "stream", of)
    BY <1>2, <1>3, <1>4, <1>5, Zenon DEF AcquireStream, Acquirable, TypeCaches
  <2>2. use' \in UseType
    BY <1>2, <1>a, <2>1, HoldType, Zenon DEF TypeCaches, UseType
  <2> QED BY <1>2, <1>5, <2>2, Zenon DEF AcquireStream, TypeCaches, UseType
<1>6. CASE Alloc(t)
  <2>1. PICK of \in Serials : Hold(t, "block", of)
    BY <1>2, <1>3, <1>4, <1>6, Zenon DEF Alloc, TypeCaches
  <2>2. use' \in UseType
    BY <1>2, <1>a, <2>1, HoldType, Zenon DEF TypeCaches, UseType
  <2> QED BY <1>2, <1>6, <2>2, Zenon DEF Alloc, TypeCaches, UseType
<1>7. CASE GetModule(t)
  BY <1>2, <1>3, <1>4, <1>7 DEF GetModule, Hold, TypeCaches
<1>8. CASE SortGraph(t)
  <2>1. PICK of \in Serials : Hold(t, "graph", of)
    BY <1>2, <1>3, <1>4, <1>8, Zenon DEF SortGraph, TypeCaches
  <2>2. use' \in UseType
    BY <1>2, <1>a, <2>1, HoldType, Zenon DEF TypeCaches, UseType
  <2>3. graphs' \subseteq [of : Contexts, tag : Handles]
    BY <1>2, <1>3, <1>8 DEF SortGraph, TypeCaches
  <2> QED BY <1>2, <1>8, <2>2, <2>3, Zenon DEF SortGraph, TypeCaches, UseType
<1>9. ASSUME NEW cache \in {"spec", "ptx"}, EvictModule(t, cache) PROVE TypeCaches'
  BY <1>2, <1>4, <1>9, Zenon DEF EvictModule, TypeCaches
<1>10. CASE PinScratch(t)
  BY <1>2, <1>3, <1>4, <1>10, SMTT(30) DEF PinScratch, Hold, TypeCaches
<1>11. CASE Lend(t)
  BY <1>2, <1>4, <1>11 DEF Lend, Hold, TypeCaches, cacheVars
<1>12. CASE Finish(t)
  BY <1>2, <1>3, <1>4, <1>12 DEF Finish, Idle, TypeCaches
<1>13. CASE SweepPending(t)
  BY <1>2, <1>13, Zenon DEF SweepPending, TypeCaches
<1> QED BY <1>5, <1>6, <1>7, <1>8, <1>9, <1>10, <1>11, <1>12, <1>13, Zenon DEF Statement

\* The worker and the watcher.
Background ==
  \/ WorkerPools \/ WorkerLeaks \/ WorkerBinds \/ WorkerFrees
  \/ WatcherBinds \/ WatcherReleases \/ WatcherPolls \/ WatcherEvicts

LEMMA BackgroundBase ==
  ASSUME ContextsAssumption, BaseInv, Background
  PROVE  BaseInv'
<1>1. TypeEngines /\ TypeCaches /\ EnginesInv /\ RecordInv
  BY Zenon DEF BaseInv, TypeOK
<1>2. /\ UNCHANGED <<permit, handle, alive, engine, owning, epoch>>
      /\ \A t \in Threads : bound'[t] = bound[t]
  <2>1. UNCHANGED teardownVars
    BY Zenon DEF Background, WorkerPools, WorkerLeaks, WorkerBinds, WorkerFrees,
           WatcherBinds, WatcherReleases, WatcherPolls, WatcherEvicts
  <2>2. \/ UNCHANGED bound
        \/ \E p \in {Watcher, Worker} : \E c : bound' = [bound EXCEPT ![p] = c]
    BY Zenon DEF Background, WorkerPools, WorkerLeaks, WorkerBinds, WorkerFrees,
           WatcherBinds, WatcherReleases, WatcherPolls, WatcherEvicts
  <2>3. Watcher \notin Threads /\ Worker \notin Threads /\ Threads \subseteq Procs
    BY Zenon DEF ContextsAssumption, Watcher, Worker, Procs
  <2> QED BY <1>1, <2>1, <2>2, <2>3, Zenon DEF teardownVars, TypeEngines
<1>3. EnginesInv'
  BY <1>1, <1>2, Zenon DEF EnginesInv, OwnedAt
<1>4. owning' # 0 => OwnedAt(owning, RecordStages)'
  BY <1>1, <1>2, Zenon DEF RecordInv, OwnedAt
<1>5. 0 \in Serials /\ Watcher \in Procs /\ Worker \in Procs /\ Watcher # Worker
  BY DEF Serials, Procs, Watcher, Worker, ContextsAssumption
<1>6. /\ bound' \in [Procs -> Serials] /\ guard' \in {"nobody", Watcher, Worker}
      /\ guard' # "nobody" => owning' # 0 /\ bound'[guard'] = owning'
  <2>1. CASE UNCHANGED <<bound, guard>>
    BY <1>1, <1>2, <2>1, Zenon DEF TypeEngines, RecordInv
  <2>2. CASE WorkerBinds
    BY <1>1, <1>2, <1>5, <2>2, Zenon DEF WorkerBinds, TypeEngines
  <2>3. CASE WorkerFrees
    BY <1>1, <1>5, <2>3, Zenon DEF WorkerFrees, TypeEngines
  <2>4. CASE WatcherBinds
    BY <1>1, <1>2, <1>5, <2>4, Zenon DEF WatcherBinds, TypeEngines, RecordInv
  <2>5. CASE WatcherReleases
    BY <1>1, <2>5, Zenon DEF WatcherReleases, TypeEngines
  <2>6. WorkerPools \/ WorkerLeaks \/ WatcherPolls \/ WatcherEvicts => UNCHANGED <<bound, guard>>
    BY Zenon DEF WorkerPools, WorkerLeaks, WatcherPolls, WatcherEvicts
  <2> QED BY <2>1, <2>2, <2>3, <2>4, <2>5, <2>6, Zenon DEF Background
<1>7. watcher' \in {"off", "idle", "bound", "evict"}
  BY <1>1, Zenon DEF Background, WorkerPools, WorkerLeaks, WorkerBinds, WorkerFrees,
       WatcherBinds, WatcherReleases, WatcherPolls, WatcherEvicts, TypeEngines
<1>8. TypeEngines'
  BY <1>1, <1>2, <1>6, <1>7, Zenon DEF TypeEngines, Created
<1>9. TypeCaches'
  <2>1. /\ UNCHANGED <<pending, streams, destroyed, modules, graphs, scratch, pinEpoch, use>>
        /\ loan' \in {0, loan} /\ blocks' \subseteq blocks \cup ({loan} \ {0})
    BY Zenon DEF Background, WorkerPools, WorkerLeaks, WorkerBinds, WorkerFrees,
       WatcherBinds, WatcherReleases, WatcherPolls, WatcherEvicts, cacheVars
  <2>2. blocks' \subseteq Contexts /\ loan' \in Serials
    BY <1>1, <1>5, <2>1 DEF TypeCaches, Contexts, Serials, ContextsAssumption
  <2> QED BY <1>1, <2>1, <2>2, Zenon DEF TypeCaches
<1> QED BY <1>3, <1>4, <1>6, <1>8, <1>9, Zenon DEF BaseInv, TypeOK, RecordInv

LEMMA BaseStep ==
  ASSUME ContextsAssumption, BaseInv, [Next]_vars
  PROVE  BaseInv'
<1>1. ASSUME NEW t \in Threads, Statement(t) PROVE BaseInv'
  BY <1>1, StatementFrame, StatementTypes, StatementBase, Zenon DEF BaseInv, TypeOK
<1>2. CASE Background
  BY <1>2, BackgroundBase, Zenon
<1>3. CASE UNCHANGED vars
  <2>1. TypeCaches'
    BY <1>3, EngineCaches, Zenon DEF vars, cacheVars, BaseInv, TypeOK
  <2>2. UNCHANGED <<teardownVars, bound, guard, watcher>>
    BY <1>3, Zenon DEF vars, teardownVars
  <2> QED BY <2>1, <2>2, StatementBase, Zenon DEF BaseInv, TypeOK
<1> QED
  BY <1>1, <1>2, <1>3, TakePermitBase, BuildFailsBase, RegisterBase, EnsureStartedBase,
     NewContextBase, DropCachesBase, DropOwningBase, DropContextBase, DropPermitBase, Zenon
     DEF Next, Statement, Background

\* Types, the turns the engines take and the record of the context hold in
\* every state, buffers that outlive their engine or not.
THEOREM EnginesTakeTurns ==
  ASSUME ContextsAssumption
  PROVE  Spec => []BaseInv
<1>1. Init => BaseInv
  BY BaseInit, Zenon
<1>2. BaseInv /\ [Next]_vars => BaseInv'
  BY BaseStep, Zenon
<1> QED BY <1>1, <1>2, PTL DEF Spec

\* The watcher and a worker that drops a buffer never have a dead context
\* bound under the guard of ctx_binder, with any number of threads, contexts
\* and handles, and even if a lent buffer outlives its engine.
THEOREM GuardedContextsLive ==
  ASSUME ContextsAssumption
  PROVE  Spec => []BindsLive
<1>1. ASSUME BaseInv PROVE BindsLive
  <2>1. guard # "nobody" => OwnedAt(bound[guard], RecordStages)
    BY <1>1, Zenon DEF BaseInv, RecordInv
  <2>2. guard # "nobody" => OwnedAt(bound[guard], ContextStages)
    BY <2>1, Zenon DEF OwnedAt, ContextStages
  <2> QED BY <1>1, <2>2, Zenon DEF BaseInv, EnginesInv, OwnedAt, BindsLive
<1> QED BY <1>1, EnginesTakeTurns, PTL

-----------------------------------------------------------------------------
(***************************************************************************)
(* The caches, when no buffer outlives its engine.                         *)
(***************************************************************************)

\* Between statements a thread holds nothing.
LEMMA IdleHoldsNothing ==
  /\ DOMAIN Idle = {"stream", "block", "module", "graph", "scratch"}
  /\ \A h \in DOMAIN Idle : Idle[h] = 0
BY DEF Idle

LEMMA CachesInit ==
  ASSUME Init
  PROVE  PoolInv /\ CachesInv /\ UseInv
<1>1. PoolInv
  BY Zenon DEF Init, PoolInv
<1>2. CachesInv
  <2>1. \A cache \in {"spec", "ptx"} : modules[cache] = 0
    BY DEF Init
  <2>2. \A t \in Threads : scratch[t].of = 0 /\ scratch[t].epoch = 0
    BY Zenon DEF Init
  <2> QED BY <2>1, <2>2 DEF Init, CachesInv
<1>3. UseInv
  <2>1. \A t \in Threads : use[t] = Idle
    BY Zenon DEF Init
  <2> QED BY <2>1, IdleHoldsNothing, Zenon DEF UseInv
<1> QED BY <1>1, <1>2, <1>3, Zenon

\* Outside the stages of a cache there is nothing in it.
LEMMA EmptyCaches ==
  ASSUME TypeCaches, PoolInv, CachesInv
  PROVE  /\ (\A c : ~OwnedAt(c, {"ready"})) => loan = 0
         /\ (\A c : ~OwnedAt(c, PoolStages)) => blocks = {} /\ pending = {}
         /\ (\A c : ~OwnedAt(c, StreamStages)) => streams = {}
         /\ (\A c : ~OwnedAt(c, ModuleStages)) =>
              graphs = {} /\ modules.spec = 0 /\ modules.ptx = 0
         /\ (\A c : ~OwnedAt(c, ScratchStages)) =>
              \A t \in Threads : scratch[t].of # 0 => scratch[t].epoch # pinEpoch
<1>1. (\A c : ~OwnedAt(c, {"ready"})) => loan = 0
  BY Zenon DEF PoolInv
<1>2. (\A c : ~OwnedAt(c, PoolStages)) => blocks = {} /\ pending = {}
  BY Zenon DEF PoolInv
<1>3. (\A c : ~OwnedAt(c, StreamStages)) => streams = {}
  BY Zenon DEF CachesInv
<1>4. (\A c : ~OwnedAt(c, ModuleStages)) =>
        graphs = {} /\ modules.spec = 0 /\ modules.ptx = 0
  BY Zenon DEF CachesInv, TypeCaches
<1>5. (\A c : ~OwnedAt(c, ScratchStages)) =>
        \A t \in Threads : scratch[t].of # 0 => scratch[t].epoch # pinEpoch
  BY Zenon DEF CachesInv
<1> QED BY <1>1, <1>2, <1>3, <1>4, <1>5, Zenon

\* While no engine has a context that was registered, the caches are empty:
\* whatever an engine does outside these stages keeps them so.
LEMMA EmptyStep ==
  ASSUME IInv, NEW t \in Threads, engine[t].at \in NoContextStages \cup {"register", "destroy"},
         \A u \in Threads \ {t} : engine[u].at = "none" /\ engine'[u] = engine[u],
         UNCHANGED <<cacheVars, use, loan>>, Created \subseteq Created',
         engine'[t].at \in Stages,
         engine'[t].at = "register" => engine'[t].ctx \notin Created,
         engine'[t].at = "ready" => engine[t].at = "register" /\ engine'[t].ctx = engine[t].ctx,
         engine'[t].at \in NoContextStages \cup {"register", "ready", "destroy"}
  PROVE  PoolInv' /\ CachesInv' /\ UseInv'
<1> USE DEF PoolStages, StreamStages, ModuleStages, ScratchStages, NoContextStages
<1>1. \A c : ~OwnedAt(c, ScratchStages)
  BY Zenon DEF OwnedAt
<1>2. /\ \A c : ~OwnedAt(c, {"ready"}) /\ ~OwnedAt(c, PoolStages)
      /\ \A c : ~OwnedAt(c, StreamStages) /\ ~OwnedAt(c, ModuleStages)
  BY Zenon DEF OwnedAt
<1>3. /\ loan = 0 /\ blocks = {} /\ pending = {} /\ streams = {}
      /\ graphs = {} /\ modules.spec = 0 /\ modules.ptx = 0
      /\ \A u \in Threads : scratch[u].of # 0 => scratch[u].epoch # pinEpoch
  BY <1>1, <1>2, EmptyCaches, Zenon DEF IInv, BaseInv, TypeOK
<1>4. \A u \in Threads : use[u] = Idle
  BY Zenon DEF IInv, UseInv
<1>5. PoolInv'
  BY <1>3, Zenon DEF PoolInv, cacheVars
<1>6. UseInv'
  BY <1>4, IdleHoldsNothing, Zenon DEF UseInv
<1>7. ASSUME NEW c \in destroyed
      PROVE  ~OwnedAt(c, StreamStages \cup {"register"})'
  <2>1. c \in Created /\ ~OwnedAt(c, StreamStages \cup {"register"})
    BY Zenon DEF IInv, CachesInv
  <2> QED BY <2>1, Zenon DEF OwnedAt
<1>8. CachesInv'
  <2>1. \A u \in Threads : scratch[u].epoch <= pinEpoch
    BY Zenon DEF IInv, CachesInv
  <2>2. destroyed \subseteq Created
    BY Zenon DEF IInv, CachesInv
  <2> QED BY <1>3, <1>7, <2>1, <2>2, Zenon DEF CachesInv, cacheVars
<1> QED BY <1>5, <1>6, <1>8, Zenon

\* What an engine owns it owns at its next stage, as far as that stage allows.
LEMMA StageOwned ==
  ASSUME TypeEngines, EnginesInv, NEW t \in Threads, NEW stage \in Stages \ {"none"},
         engine[t].at # "none", Goto(t, stage)
  PROVE  /\ engine'[t].at = stage /\ engine'[t].ctx = engine[t].ctx
         /\ \A u \in Threads \ {t} : engine'[u] = engine[u] /\ engine[u].at = "none"
         /\ \A c, stages : "none" \notin stages /\ stage \in stages /\ OwnedAt(c, stages)
              => OwnedAt(c, stages)'
         /\ \A c, stages : "none" \notin stages /\ OwnedAt(c, stages)' =>
              stage \in stages /\ c = engine[t].ctx
<1>1. /\ engine'[t].at = stage /\ engine'[t].ctx = engine[t].ctx
      /\ \A u \in Threads \ {t} : engine'[u] = engine[u]
  BY Zenon DEF TypeEngines, Goto
<1>2. \A u \in Threads \ {t} : engine[u].at = "none"
  BY Zenon DEF EnginesInv
<1>3. ASSUME NEW c, NEW stages, "none" \notin stages, stage \in stages,
             OwnedAt(c, stages)
      PROVE  OwnedAt(c, stages)'
  BY <1>1, <1>3, Zenon DEF OwnedAt
<1>4. ASSUME NEW c, NEW stages, "none" \notin stages, OwnedAt(c, stages)'
      PROVE  stage \in stages /\ c = engine[t].ctx
  BY <1>1, <1>2, <1>4, Zenon DEF OwnedAt
<1> QED BY <1>1, <1>2, <1>3, <1>4, Zenon

\* Each step of the teardown empties its cache and takes the engine out of the
\* stages in which the cache may be filled.
LEMMA TeardownStep ==
  ASSUME ContextsAssumption, ~Outliving, IInv, NEW t \in Threads,
         \/ DropEngine(t) \/ DropPool(t) \/ DropStreams(t) \/ DropModules(t)
         \/ DropScratch(t)
  PROVE  PoolInv' /\ CachesInv' /\ UseInv'
<1> USE DEF PoolStages, StreamStages, ModuleStages, ScratchStages
<1>1. TypeEngines /\ TypeCaches /\ EnginesInv /\ PoolInv /\ CachesInv /\ UseInv
  BY Zenon DEF IInv, BaseInv, TypeOK
<1>2. UseInv'
  <2>1. PICK stage \in Stages \ {"none", "ready"} : Goto(t, stage)
    BY Zenon DEF DropEngine, DropPool, DropStreams, DropModules, DropScratch, Stages
  <2>2. engine[t].at # "none" /\ UNCHANGED use /\ use[t] = Idle
    BY <1>1, Zenon DEF DropEngine, DropPool, DropStreams, DropModules, DropScratch, At, UseInv
  <2> QED BY <1>1, <2>1, <2>2, StageOwned, IdleHoldsNothing DEF UseInv
<1>3. Created' = Created
  BY Zenon DEF DropEngine, DropPool, DropStreams, DropModules, DropScratch, Created
<1>4. CASE DropEngine(t)
  <2>1. engine[t].at = "ready" /\ loan = 0 /\ Goto(t, "pool") /\ "pool" \in Stages
    BY <1>4, Zenon DEF DropEngine, At, Stages
  <2>2. UNCHANGED <<handle, blocks, pending, streams, destroyed, modules, graphs,
                    scratch, pinEpoch, loan>>
    BY <1>4, Zenon DEF DropEngine, cacheVars
  <2>3. PoolInv'
    BY <1>1, <2>1, <2>2, StageOwned DEF PoolInv
  <2>4. \A c \in destroyed : ~OwnedAt(c, StreamStages \cup {"register"})'
    BY <1>1, <2>1, StageOwned DEF CachesInv, OwnedAt
  <2>5. CachesInv'
    BY <1>1, <1>3, <2>1, <2>2, <2>4, StageOwned DEF CachesInv
  <2> QED BY <1>2, <2>3, <2>5, Zenon
<1>5. CASE DropPool(t)
  <2>1. engine[t].at = "pool" /\ Goto(t, "streams") /\ "streams" \in Stages
    BY <1>5, Zenon DEF DropPool, At, Stages
  <2>2. /\ UNCHANGED <<handle, streams, destroyed, modules, graphs, scratch, pinEpoch, loan>>
        /\ blocks' = {} /\ pending' = {}
    BY <1>5, Zenon DEF DropPool
  <2>3. loan = 0
    BY <1>1, <2>1, OwnerIsUnique, Zenon DEF PoolInv
  <2>4. PoolInv'
    BY <2>2, <2>3, Zenon DEF PoolInv
  <2>5. \A c \in destroyed : ~OwnedAt(c, StreamStages \cup {"register"})'
    BY <1>1, <2>1, StageOwned DEF CachesInv, OwnedAt
  <2>6. CachesInv'
    BY <1>1, <1>3, <2>1, <2>2, <2>5, StageOwned DEF CachesInv
  <2> QED BY <1>2, <2>4, <2>6, Zenon
<1>6. CASE DropStreams(t)
  <2>1. /\ engine[t].at = "streams" /\ Goto(t, "modules") /\ "modules" \in Stages
        /\ engine[t].at \in ContextStages
    BY <1>6, Zenon DEF DropStreams, At, Stages, ContextStages, RecordStages
  <2>2. /\ UNCHANGED <<handle, blocks, pending, modules, graphs, scratch, pinEpoch, loan>>
        /\ streams' = streams \ {e \in streams : e.tag = Current(t)}
        /\ destroyed' \subseteq destroyed \cup {e.of : e \in streams}
    BY <1>6, Zenon DEF DropStreams
  <2>3. loan = 0 /\ blocks = {} /\ pending = {}
    BY <1>1, <2>1, OwnerIsUnique DEF PoolInv
  <2>4. PoolInv'
    BY <2>2, <2>3, Zenon DEF PoolInv
  <2>5. \A e \in streams : e.of = engine[t].ctx /\ e.tag = Current(t)
    BY <1>1, <2>1, OwnerIsUnique, OwnContext DEF CachesInv
  <2>6. streams' = {} /\ destroyed' \subseteq destroyed \cup {engine[t].ctx}
    BY <2>2, <2>5, Zenon
  <2>7. engine[t].ctx \in Created
    BY <1>1, <2>1, OwnContext, Zenon DEF TypeEngines
  <2>8. \A c : ~OwnedAt(c, StreamStages \cup {"register"})'
    BY <1>1, <2>1, StageOwned
  <2>9. CachesInv'
    BY <1>1, <1>3, <2>1, <2>2, <2>6, <2>7, <2>8, StageOwned DEF CachesInv
  <2> QED BY <1>2, <2>4, <2>9, Zenon
<1>7. CASE DropModules(t)
  <2>1. /\ engine[t].at = "modules" /\ Goto(t, "scratch") /\ "scratch" \in Stages
        /\ engine[t].at \in ContextStages
    BY <1>7, Zenon DEF DropModules, At, Stages, ContextStages, RecordStages
  <2>2. /\ UNCHANGED <<handle, blocks, pending, streams, destroyed, scratch, pinEpoch, loan>>
        /\ graphs' = {g \in graphs : g.tag # Current(t)}
        /\ \A cache \in {"spec", "ptx"} : modules'[cache] = 0
    BY <1>7 DEF DropModules, ClearedModules
  <2>3. loan = 0 /\ blocks = {} /\ pending = {} /\ streams = {}
    BY <1>1, <2>1, OwnerIsUnique DEF PoolInv, CachesInv
  <2>4. PoolInv'
    BY <2>2, <2>3, Zenon DEF PoolInv
  <2>5. \A g \in graphs : g.tag = Current(t)
    BY <1>1, <2>1, OwnerIsUnique, OwnContext DEF CachesInv
  <2>6. \A c : ~OwnedAt(c, StreamStages \cup {"register"})'
    BY <1>1, <2>1, StageOwned
  <2>7. CachesInv'
    BY <1>1, <1>3, <2>1, <2>2, <2>3, <2>5, <2>6, StageOwned DEF CachesInv
  <2> QED BY <1>2, <2>4, <2>7, Zenon
<1>8. CASE DropScratch(t)
  <2>1. engine[t].at = "scratch" /\ Goto(t, "invalidate") /\ "invalidate" \in Stages
    BY <1>8, Zenon DEF DropScratch, At, Stages
  <2>2. /\ UNCHANGED <<handle, blocks, pending, streams, destroyed, modules, graphs, loan>>
        /\ pinEpoch' = pinEpoch + 1
        /\ \A u \in Threads : scratch'[u] \in {scratch[u], [of |-> 0, epoch |-> 0]}
    BY <1>1, <1>8, Zenon DEF DropScratch, TypeCaches
  <2>3. /\ loan = 0 /\ blocks = {} /\ pending = {} /\ streams = {} /\ graphs = {}
        /\ \A cache \in {"spec", "ptx"} : modules[cache] = 0
    BY <1>1, <2>1, OwnerIsUnique DEF PoolInv, CachesInv
  <2>4. PoolInv'
    BY <2>2, <2>3, Zenon DEF PoolInv
  <2>5. \A u \in Threads : scratch'[u].epoch < pinEpoch'
    BY <1>1, <2>2 DEF CachesInv, TypeCaches
  <2>6. \A c : ~OwnedAt(c, StreamStages \cup {"register"})'
    BY <1>1, <2>1, StageOwned
  <2>7. pinEpoch' \in Nat /\ \A u \in Threads : scratch'[u].epoch \in Nat
    BY <1>1, <2>2 DEF TypeCaches
  <2>8. CachesInv'
    BY <1>1, <1>3, <2>2, <2>3, <2>5, <2>6, <2>7 DEF CachesInv
  <2> QED BY <1>2, <2>4, <2>8, Zenon
<1> QED BY <1>4, <1>5, <1>6, <1>7, <1>8, Zenon

\* A statement takes only things of its engine's context, new or cached, and
\* puts back only such things.
LEMMA StatementStep ==
  ASSUME ContextsAssumption, IInv, NEW t \in Threads, Statement(t)
  PROVE  PoolInv' /\ CachesInv' /\ UseInv'
<1> DEFINE ctx == engine[t].ctx
<1> USE DEF PoolStages, StreamStages, ModuleStages, ScratchStages
<1>1. TypeEngines /\ TypeCaches /\ EnginesInv /\ PoolInv /\ CachesInv /\ UseInv
  BY Zenon DEF IInv, BaseInv, TypeOK
<1>2. /\ engine[t].at = "ready" /\ engine[t].at \in ContextStages
      /\ UNCHANGED <<engine, handle, bound>>
  BY StatementFrame, ReadyOwns, Zenon DEF Running, At, teardownVars
<1>3. /\ bound[t] = ctx /\ ctx # 0 /\ ctx \in Contexts
      /\ Current(t) = handle[ctx]
  BY <1>1, <1>2, OwnContext, Zenon
<1>4. /\ OwnedAt(ctx, {"ready"}) /\ OwnedAt(ctx, PoolStages) /\ OwnedAt(ctx, StreamStages)
      /\ OwnedAt(ctx, ModuleStages) /\ OwnedAt(ctx, ScratchStages)
  BY <1>2, Zenon DEF OwnedAt
<1>5. \A c, stages : "none" \notin stages => (OwnedAt(c, stages)' <=> OwnedAt(c, stages))
  BY <1>2, Zenon DEF OwnedAt
<1>6. /\ \A b \in blocks : b = ctx
      /\ \A f \in pending : f.block = ctx /\ f.stream = ctx
      /\ loan \in {0, ctx}
      /\ \A e \in streams : e.of = ctx
      /\ \A g \in graphs : g.of = ctx
      /\ \A cache \in {"spec", "ptx"} : modules[cache] \in {0, ctx}
      /\ scratch[t].of # 0 /\ scratch[t].epoch = pinEpoch => scratch[t].of = ctx
  BY <1>1, <1>2, OwnerIsUnique DEF PoolInv, CachesInv
<1>7. \A h \in DOMAIN Idle : use[t][h] \in {0, ctx}
  BY <1>1, Zenon DEF UseInv
<1>8. use \in UseType /\ Created' = Created
  BY <1>1, <1>2, Zenon DEF TypeCaches, UseType, Created
<1>9. ASSUME NEW what \in DOMAIN Idle, NEW of \in {0, ctx}, Hold(t, what, of)
      PROVE  UseInv'
  <2>1. /\ \A u \in Threads \ {t} : use'[u] = use[u]
        /\ \A h \in DOMAIN Idle : use'[t][h] \in {0, ctx}
    BY <1>7, <1>8, <1>9, IdleHoldsNothing, Zenon DEF Hold, UseType
  <2> QED BY <1>1, <1>2, <2>1, Zenon DEF UseInv
<1>10. ASSUME UNCHANGED use PROVE UseInv'
  BY <1>1, <1>2, <1>10, Zenon DEF UseInv
<1>11. ASSUME UNCHANGED <<blocks, pending, loan>> PROVE PoolInv'
  BY <1>1, <1>5, <1>11, Zenon DEF PoolInv
<1>12. ASSUME UNCHANGED <<streams, graphs, modules, scratch, pinEpoch, destroyed>> PROVE CachesInv'
  BY <1>1, <1>2, <1>5, <1>8, <1>12, Zenon DEF CachesInv
<1> HIDE DEF ctx
<1>13. CASE AcquireStream(t)
  <2>1. PICK of \in {0, ctx} : Hold(t, "stream", of)
    BY <1>3, <1>6, <1>13, Zenon DEF AcquireStream, Acquirable
  <2>2. UseInv'
    BY <1>9, <2>1, IdleHoldsNothing, Zenon
  <2>3. /\ UNCHANGED <<blocks, pending, loan, graphs, modules, scratch, pinEpoch, destroyed>>
        /\ streams' \subseteq streams
    BY <1>13, Zenon DEF AcquireStream
  <2>4. CachesInv'
    BY <1>1, <1>2, <1>5, <1>8, <2>3, Zenon DEF CachesInv
  <2> QED BY <1>11, <2>2, <2>3, <2>4, Zenon
<1>14. CASE Alloc(t)
  <2>1. PICK of \in {0, ctx} : Hold(t, "block", of)
    BY <1>3, <1>6, <1>14, Zenon DEF Alloc
  <2>2. UseInv'
    BY <1>9, <2>1, IdleHoldsNothing, Zenon
  <2>3. /\ UNCHANGED <<pending, loan, streams, graphs, modules, scratch, pinEpoch, destroyed>>
        /\ blocks' \subseteq blocks
    BY <1>14, Zenon DEF Alloc
  <2>4. PoolInv'
    BY <1>1, <1>5, <2>3, Zenon DEF PoolInv
  <2> QED BY <1>12, <2>2, <2>3, <2>4, Zenon
<1>15. CASE GetModule(t)
  <2>1. PICK m \in {0, ctx} : Hold(t, "module", m) /\ modules' \in [spec : {0, ctx}, ptx : {0, ctx}]
    BY <1>3, <1>6, <1>15, Zenon DEF GetModule
  <2>2. UseInv'
    BY <1>9, <2>1, IdleHoldsNothing, Zenon
  <2>3. UNCHANGED <<blocks, pending, loan, streams, graphs, scratch, pinEpoch, destroyed>>
    BY <1>15, Zenon DEF GetModule
  <2>4. \A cache \in {"spec", "ptx"} : modules'[cache] \in {0, ctx}
    BY <2>1, Zenon
  <2>5. CachesInv'
    BY <1>1, <1>2, <1>4, <1>5, <1>8, <2>3, <2>4, Zenon DEF CachesInv
  <2> QED BY <1>11, <2>2, <2>3, <2>5, Zenon
<1>16. CASE SortGraph(t)
  <2>1. PICK of \in {0, ctx} : Hold(t, "graph", of)
    BY <1>3, <1>6, <1>16, Zenon DEF SortGraph
  <2>2. UseInv'
    BY <1>9, <2>1, IdleHoldsNothing, Zenon
  <2>3. /\ UNCHANGED <<blocks, pending, loan, streams, modules, scratch, pinEpoch, destroyed>>
        /\ graphs' \subseteq graphs \cup {[of |-> ctx, tag |-> handle[ctx]]}
    BY <1>3, <1>16, Zenon DEF SortGraph
  <2>4. CachesInv'
    BY <1>1, <1>2, <1>4, <1>5, <1>8, <2>3 DEF CachesInv
  <2> QED BY <1>11, <2>2, <2>3, <2>4, Zenon
<1>17. ASSUME NEW cache \in {"spec", "ptx"}, EvictModule(t, cache)
       PROVE  PoolInv' /\ CachesInv' /\ UseInv'
  <2>1. UNCHANGED <<blocks, pending, loan, streams, graphs, scratch, pinEpoch, destroyed, use>>
    BY <1>17, Zenon DEF EvictModule
  <2>2. \A other \in {"spec", "ptx"} : modules'[other] \in {0, modules[other]}
    BY <1>1, <1>17, Zenon DEF EvictModule, TypeCaches
  <2>3. CachesInv'
    BY <1>1, <1>2, <1>5, <1>8, <2>1, <2>2 DEF CachesInv
  <2> QED BY <1>10, <1>11, <2>1, <2>3, Zenon
<1>18. CASE PinScratch(t)
  <2> DEFINE slot == IF scratch[t].of # 0 /\ scratch[t].epoch = pinEpoch
                       THEN scratch[t] ELSE [of |-> bound[t], epoch |-> pinEpoch]
  <2>1. slot.of = ctx /\ slot.epoch = pinEpoch
    BY <1>3, <1>6, Zenon
  <2>2. /\ UNCHANGED <<blocks, pending, loan, streams, graphs, modules, pinEpoch, destroyed>>
        /\ scratch' = [scratch EXCEPT ![t] = slot] /\ Hold(t, "scratch", slot.of)
    BY <1>18, Zenon DEF PinScratch
  <2> HIDE DEF slot
  <2>3. UseInv'
    BY <1>9, <2>1, <2>2, IdleHoldsNothing, Zenon
  <2>4. /\ scratch'[t] = slot /\ pinEpoch \in Nat
        /\ \A u \in Threads \ {t} : scratch'[u] = scratch[u]
    BY <1>1, <2>2, Zenon DEF TypeCaches
  <2>5. CachesInv'
    BY <1>1, <1>2, <1>4, <1>5, <1>8, <2>1, <2>2, <2>4 DEF CachesInv
  <2> QED BY <1>11, <2>2, <2>3, <2>5, Zenon
<1>19. CASE Lend(t)
  <2>1. /\ UNCHANGED <<blocks, pending, streams, graphs, modules, scratch, pinEpoch, destroyed>>
        /\ loan' = use[t].block /\ Hold(t, "block", 0)
    BY <1>19, Zenon DEF Lend, cacheVars
  <2>2. UseInv'
    BY <1>9, <2>1, IdleHoldsNothing, Zenon
  <2>3. loan' \in {0, ctx}
    BY <1>7, <2>1, IdleHoldsNothing, Zenon
  <2>4. PoolInv'
    BY <1>1, <1>4, <1>5, <2>1, <2>3, Zenon DEF PoolInv
  <2> QED BY <1>12, <2>1, <2>2, <2>4, Zenon
<1>20. CASE Finish(t)
  <2>1. use[t].stream \in {0, ctx} /\ use[t].block \in {0, ctx}
    BY <1>7, IdleHoldsNothing, Zenon
  <2>2. /\ UNCHANGED <<loan, graphs, modules, scratch, pinEpoch, destroyed>>
        /\ use' = [use EXCEPT ![t] = Idle]
        /\ streams' \subseteq streams \cup {[of |-> ctx, tag |-> handle[ctx]]}
        /\ blocks' \subseteq blocks \cup {ctx}
        /\ pending' \subseteq pending \cup {[block |-> ctx, stream |-> ctx]}
    BY <1>3, <1>20, <2>1, Zenon DEF Finish
  <2>3. UseInv'
    BY <1>1, <1>2, <1>8, <2>2, IdleHoldsNothing, Zenon DEF UseInv, UseType
  <2>4. PoolInv'
    BY <1>1, <1>4, <1>5, <2>2, SMTT(30) DEF PoolInv
  <2>5. CachesInv'
    BY <1>1, <1>2, <1>4, <1>5, <1>8, <2>2 DEF CachesInv
  <2> QED BY <2>3, <2>4, <2>5, Zenon
<1>21. CASE SweepPending(t)
  <2>1. /\ UNCHANGED <<loan, use, streams, graphs, modules, scratch, pinEpoch, destroyed>>
        /\ pending' \subseteq pending /\ blocks' \subseteq blocks \cup {f.block : f \in pending}
    BY <1>21, Zenon DEF SweepPending
  <2>2. PoolInv'
    BY <1>1, <1>5, <2>1, Zenon DEF PoolInv
  <2> QED BY <1>10, <1>12, <2>1, <2>2, Zenon
<1> QED
  BY <1>13, <1>14, <1>15, <1>16, <1>17, <1>18, <1>19, <1>20, <1>21, Zenon DEF Statement

\* The worker returns the lent block to the pool of the engine it came from,
\* which is still ready; the watcher only takes blocks out.
LEMMA BackgroundStep ==
  ASSUME IInv, Background
  PROVE  PoolInv' /\ CachesInv' /\ UseInv'
<1>1. /\ UNCHANGED <<teardownVars, pending, streams, destroyed, modules, graphs, scratch, pinEpoch, use>>
      /\ loan' \in {0, loan} /\ blocks' \subseteq blocks \cup ({loan} \ {0})
  BY Zenon DEF Background, WorkerPools, WorkerLeaks, WorkerBinds, WorkerFrees,
     WatcherBinds, WatcherReleases, WatcherPolls, WatcherEvicts, cacheVars
<1>2. \A c, stages : OwnedAt(c, stages)' <=> OwnedAt(c, stages)
  BY <1>1, Zenon DEF OwnedAt, teardownVars
<1>3. loan # 0 => OwnedAt(loan, PoolStages)
  BY Zenon DEF IInv, PoolInv, OwnedAt, PoolStages
<1>4. PoolInv'
  BY <1>1, <1>2, <1>3, Zenon DEF IInv, PoolInv
<1>5. CachesInv'
  BY <1>1, <1>2, Zenon DEF IInv, CachesInv, Created, teardownVars
<1>6. UseInv'
  BY <1>1, Zenon DEF IInv, UseInv, teardownVars
<1> QED BY <1>4, <1>5, <1>6, Zenon

\* The steps of an engine that touch no cache.
LEMMA EngineStep ==
  ASSUME ContextsAssumption, IInv, NEW t \in Threads,
         \/ TakePermit(t) \/ BuildFails(t) \/ Register(t) \/ DropContext(t)
         \/ DropPermit(t) \/ \E h \in Handles : NewContext(t, h)
  PROVE  PoolInv' /\ CachesInv' /\ UseInv'
<1>1. BaseInv /\ TypeEngines /\ EnginesInv
  BY Zenon DEF IInv, BaseInv, TypeOK
<1>2. UNCHANGED <<cacheVars, use, loan>>
  BY Zenon DEF TakePermit, BuildFails, Register, DropContext, DropPermit, NewContext
<1>3. /\ engine[t].at \in NoContextStages \cup {"register", "destroy"}
      /\ \A u \in Threads \ {t} : engine[u].at = "none"
  BY <1>1, Zenon DEF TakePermit, BuildFails, Register, DropContext, DropPermit, NewContext,
     At, NoContextStages, EnginesInv
<1>4. CASE \E h \in Handles : NewContext(t, h)
  <2>1. PICK h \in Handles : NewContext(t, h)
    BY <1>4, Zenon
  <2>2. PICK c \in Contexts \ Created :
          /\ handle' = [handle EXCEPT ![c] = h]
          /\ engine' = [engine EXCEPT ![t] =
               [ctx |-> c, at |-> "register", seen |-> epoch]]
    BY <1>1, <2>1, NewContextFacts
  <2>3. /\ engine'[t].at = "register" /\ engine'[t].ctx = c
        /\ \A u \in Threads \ {t} : engine'[u] = engine[u]
    BY <1>1, <2>2, Zenon DEF TypeEngines
  <2>4. Created \subseteq Created'
    BY <1>1, <2>2, Zenon DEF TypeEngines, Created, NoHandle, ContextsAssumption
  <2> QED BY <1>2, <1>3, <2>3, <2>4, EmptyStep, Zenon DEF Stages
<1>5. CASE TakePermit(t) \/ BuildFails(t) \/ Register(t) \/ DropContext(t) \/ DropPermit(t)
  <2>1. /\ engine'[t].at \in NoContextStages \/ Register(t)
        /\ \A u \in Threads \ {t} : engine'[u] = engine[u]
    BY <1>1, <1>5 DEF TakePermit, BuildFails, Register, DropContext, DropPermit, Goto,
       TypeEngines, NoContextStages
  <2>2. Register(t) => /\ engine[t].at = "register" /\ engine'[t].at = "ready"
                       /\ engine'[t].ctx = engine[t].ctx
    BY <1>1 DEF Register, At, Goto, TypeEngines
  <2>3. Created' = Created
    BY <1>5, Zenon DEF TakePermit, BuildFails, Register, DropContext, DropPermit, Created
  <2> QED BY <1>2, <1>3, <2>1, <2>2, <2>3, EmptyStep, Zenon DEF Stages, NoContextStages
<1> QED BY <1>4, <1>5, Zenon

\* Nor do the start of the watcher and the invalidation of the record.
LEMMA RecordStep ==
  ASSUME ContextsAssumption, IInv, NEW t \in Threads,
         EnsureStarted(t) \/ DropOwning(t)
  PROVE  PoolInv' /\ CachesInv' /\ UseInv'
<1>1. TypeEngines /\ EnginesInv /\ PoolInv /\ CachesInv /\ UseInv
  BY Zenon DEF IInv, BaseInv, TypeOK
<1>2. UNCHANGED <<handle, cacheVars, use, loan>>
  BY Zenon DEF EnsureStarted, DropOwning
<1>3. CASE EnsureStarted(t)
  <2>1. engine' = engine /\ Created' = Created
    BY <1>3, Zenon DEF EnsureStarted, Created
  <2>2. \A c, stages : OwnedAt(c, stages)' <=> OwnedAt(c, stages)
    BY <2>1, Zenon DEF OwnedAt
  <2> QED BY <1>1, <1>2, <2>1, <2>2, Zenon DEF PoolInv, CachesInv, UseInv, cacheVars
<1>4. CASE DropOwning(t)
  <2> USE DEF PoolStages, StreamStages, ModuleStages, ScratchStages
  <2>1. engine[t].at = "invalidate" /\ Goto(t, "destroy") /\ "destroy" \in Stages
    BY <1>4, Zenon DEF DropOwning, At, Stages
  <2>2. engine'[t].at = "destroy" /\ \A u \in Threads \ {t} : engine'[u] = engine[u]
    BY <1>1, <2>1, StageOwned, Zenon
  <2>3. \A c, stages : stages \subseteq ScratchStages \cup {"register"} =>
          (OwnedAt(c, stages)' <=> OwnedAt(c, stages))
    BY <2>1, <2>2, Zenon DEF OwnedAt
  <2>4. PoolInv'
    BY <1>1, <1>2, <2>3, Zenon DEF PoolInv, cacheVars
  <2>5. CachesInv'
    BY <1>1, <1>2, <2>3, Zenon DEF CachesInv, Created, cacheVars
  <2>6. UseInv'
    BY <1>1, <1>2, <2>1, <2>2, IdleHoldsNothing, ZenonT(40) DEF UseInv
  <2> QED BY <2>4, <2>5, <2>6, Zenon
<1> QED BY <1>3, <1>4, Zenon

LEMMA CachesStep ==
  ASSUME ContextsAssumption, ~Outliving, IInv, [Next]_vars
  PROVE  IInv'
<1>1. BaseInv'
  BY BaseStep, Zenon DEF IInv
<1>2. ASSUME UNCHANGED vars PROVE PoolInv' /\ CachesInv' /\ UseInv'
  BY <1>2 DEF vars, IInv, PoolInv, CachesInv, UseInv, OwnedAt, Created
<1>3. PoolInv' /\ CachesInv' /\ UseInv'
  BY <1>2, EngineStep, RecordStep, TeardownStep, StatementStep, BackgroundStep, Zenon
     DEF Next, Statement, Background
<1> QED BY <1>1, <1>3, Zenon DEF IInv

\* The caches are the running engine's, stage by stage of its teardown.
THEOREM CachesOfOneContext ==
  ASSUME ContextsAssumption, ~Outliving
  PROVE  Spec => []IInv
<1>1. Init => IInv
  BY BaseInit, CachesInit, Zenon DEF IInv
<1>2. IInv /\ [Next]_vars => IInv'
  BY CachesStep, Zenon
<1> QED BY <1>1, <1>2, PTL DEF Spec

\* Whatever a statement holds was made in its own engine's context, however
\* often the driver gives an old handle to a new context: Drop of CudaContext
\* leaves nothing behind in a process-wide cache.
THEOREM NothingInherited ==
  ASSUME ContextsAssumption, ~Outliving
  PROVE  Spec => []HandlesOfOwnContext
<1>1. ASSUME IInv PROVE HandlesOfOwnContext
  <2>1. \A t \in Threads : DOMAIN use[t] = DOMAIN Idle
    BY <1>1, IdleHoldsNothing, Zenon DEF IInv, BaseInv, TypeOK, TypeCaches
  <2> QED BY <1>1, <2>1, Zenon DEF IInv, UseInv, HandlesOfOwnContext
<1> QED BY <1>1, CachesOfOneContext, PTL

\* The teardown destroys no stream that a deferred free or a statement still
\* needs: POOL.drain comes before stream_pool::drain and cuCtxDestroy last.
THEOREM StreamsOutliveTheirUsers ==
  ASSUME ContextsAssumption, ~Outliving
  PROVE  Spec => []WaitedStreamsLive
<1>1. ASSUME IInv PROVE WaitedStreamsLive
  <2> USE DEF PoolStages, StreamStages, ModuleStages, ScratchStages, RecordStages,
              ContextStages
  <2>1. EnginesInv /\ PoolInv /\ CachesInv /\ UseInv
    BY <1>1, Zenon DEF IInv, BaseInv
  <2>2. ASSUME NEW c, OwnedAt(c, PoolStages) PROVE c \in alive \ destroyed
    BY <2>1, <2>2 DEF OwnedAt, EnginesInv, CachesInv
  <2>3. \A f \in pending : f.stream \in alive \ destroyed
    BY <2>1, <2>2, Zenon DEF PoolInv
  <2>4. ASSUME NEW t \in Threads, use[t].stream # 0
        PROVE  use[t].stream \in alive \ destroyed
    <3>1. engine[t].at = "ready"
      BY <2>1, <2>4, IdleHoldsNothing, Zenon DEF UseInv
    <3>2. use[t].stream = engine[t].ctx
      BY <2>1, <2>4, IdleHoldsNothing, Zenon DEF UseInv
    <3> QED BY <2>2, <3>1, <3>2, Zenon DEF OwnedAt
  <2> QED BY <2>3, <2>4, Zenon DEF WaitedStreamsLive
<1> QED BY <1>1, CachesOfOneContext, PTL
=============================================================================
