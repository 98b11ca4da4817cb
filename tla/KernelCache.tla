----------------------------- MODULE KernelCache -----------------------------
(***************************************************************************)
(* The caches of compiled kernels: the engine's own map (exec/engine.rs),  *)
(* the spec caches of the process (exec/module_cache.rs), the cache of     *)
(* loaded modules by PTX text (jit/jit_compiler.rs), and the directory of  *)
(* PTX files several processes share (jit/disk_cache.rs).                  *)
(*                                                                         *)
(* A step of a thread is what it does under one lock, or one call to the   *)
(* file system or to the driver.  A text is named by the spec and by the   *)
(* version of the code generator it comes from; a module by its text.  A   *)
(* hash is modelled by which of its arguments it confuses.  The files have *)
(* one size, so the byte limit is the limit on entries; temporary files,   *)
(* which nothing reads, are left out.                                      *)
(***************************************************************************)
EXTENDS Naturals, FiniteSets, Sequences, Functions

CONSTANTS Threads, Processes, Specs, None,
          Modes,       \* what varies from one deployment to another: see ModeType
          SpecCap,     \* capacity of a spec cache
          PtxCap,      \* capacity of the cache by PTX text
          MaxEntries,  \* CRATON_BOLT_PTX_CACHE_MAX_ENTRIES
          MaxCalls,    \* bound: calls of all threads
          MaxFaults    \* bound: crashes, teardowns and failed steps

\* Where threads run, the binary of each process, which hashes collide, whether
\* the family of kernels is cached per engine as well, and whether a directory
\* is configured.
ModeType ==
  [process : [Threads -> Processes], version : [Processes -> {1, 2}],
   specs_collide : BOOLEAN, texts_collide : BOOLEAN,
   per_engine : BOOLEAN, disk : BOOLEAN]

ASSUME KernelCacheAssumption ==
  /\ Modes \subseteq ModeType /\ IsFiniteSet(Threads)
  /\ None \notin [spec : Specs, version : {1, 2}]
  /\ SpecCap \in Nat \ {0} /\ PtxCap \in Nat \ {0} /\ MaxEntries \in Nat \ {0}
  /\ MaxCalls \in Nat /\ MaxFaults \in Nat

VARIABLES mode,
          engine_cache,  \* Engine::module_cache of each process
          spec_cache,    \* SpecCache, in the order of insertion
          ptx_cache,     \* PtxCache: entries with their place in the order of use
          ready,         \* the cells of it that hold a module
          opened,        \* processes whose disk_cache() is memoised
          files,         \* the directory: <key>.ptx
          clock,         \* of the file system
          missed,        \* history: a listing since the last complete one missed files
          thread, calls, faults

memory == <<engine_cache, spec_cache, ptx_cache, ready>>
disk == <<opened, files, clock>>
bounds == <<calls, faults, missed>>
vars == <<mode, memory, disk, thread, bounds>>

P(t) == mode.process[t]
SpecOf(t) == thread[t].spec
Text(p, s) == [spec |-> s, version |-> mode.version[p]]
Key(s) == IF mode.specs_collide THEN "key" ELSE s
TextKey(x) == IF mode.texts_collide THEN "key" ELSE x
Keys == {Key(s) : s \in Specs}

\* Mutant of DiskKey: without the salt.
DiskKeyUnsalted(p, s) == <<1, Key(s)>>

\* codegen_salt before the hash of the spec.
DiskKey(p, s) == <<mode.version[p], Key(s)>>

DiskKeys == {1, 2} \X Keys

Idle == [pc |-> "idle", spec |-> None, text |-> None, cell |-> None,
         mtime |-> None, listed |-> <<>>, count |-> 0]

NoMemory(p) ==
  /\ engine_cache' = [engine_cache EXCEPT ![p] = [k \in Keys |-> None]]
  /\ spec_cache' = [spec_cache EXCEPT ![p] = <<>>]
  /\ ptx_cache' = [ptx_cache EXCEPT ![p] = {}]
  /\ ready' = [ready EXCEPT ![p] = {}]

Init ==
  /\ mode \in Modes
  /\ engine_cache = [p \in Processes |-> [k \in Keys |-> None]]
  /\ spec_cache = [p \in Processes |-> <<>>]
  /\ ptx_cache = [p \in Processes |-> {}]
  /\ ready = [p \in Processes |-> {}]
  /\ opened = {} /\ files = [k \in DiskKeys |-> None] /\ clock = 0
  /\ thread = [t \in Threads |-> Idle] /\ calls = 0 /\ faults = 0 /\ missed = FALSE

At(t, pc) == thread[t].pc = pc
Goto(t, pc) == thread' = [thread EXCEPT ![t].pc = pc]
Took(t, pc, text) == thread' = [thread EXCEPT ![t].pc = pc, ![t].text = text]
Fails == faults < MaxFaults /\ faults' = faults + 1 /\ UNCHANGED calls
Fault == Fails /\ UNCHANGED missed

\* The call returns an error.
Error(t) == thread' = [thread EXCEPT ![t] = Idle]

-----------------------------------------------------------------------------
(***************************************************************************)
(* The map of the engine and the spec cache.                               *)
(***************************************************************************)
Call(t, s) ==
  /\ At(t, "idle") /\ calls < MaxCalls /\ calls' = calls + 1
  /\ thread' = [thread EXCEPT ![t] =
       [Idle EXCEPT !.pc = IF mode.per_engine THEN "engine" ELSE "spec", !.spec = s]]
  /\ UNCHANGED <<mode, memory, disk, faults, missed>>

\* Engine::get_or_build_module, its fast path.
EngineLookup(t) ==
  LET module == engine_cache[P(t)][Key(SpecOf(t))]
  IN /\ At(t, "engine")
     /\ IF module # None THEN Took(t, "return", module) ELSE Goto(t, "spec")
     /\ UNCHANGED <<mode, memory, disk, bounds>>

\* Mutant of Entry: the key material is not compared.
EntryByKey(t) == {e \in Range(spec_cache[P(t)]) : e.key = Key(SpecOf(t))}

\* SpecCache::get, which compares the whole spec on a hit.
Entry(t) == {e \in Range(spec_cache[P(t)]) : e.key = Key(SpecOf(t)) /\ e.material = SpecOf(t)}

SpecLookup(t) ==
  LET found == Entry(t)
  IN /\ At(t, "spec")
     /\ \/ \E e \in found : Took(t, IF mode.per_engine THEN "seed" ELSE "return", e.text)
        \/ found = {} /\ Goto(t, IF mode.disk THEN "disk" ELSE "codegen_only")
     /\ UNCHANGED <<mode, memory, disk, bounds>>

\* Room for one more: the oldest go.
Trimmed(cache) == IF Len(cache) >= SpecCap THEN SubSeq(cache, Len(cache) - SpecCap + 2, Len(cache)) ELSE cache

\* SpecCache::insert: the incumbent stays.
InsertSpec(t) ==
  LET p == P(t)
      e == [key |-> Key(SpecOf(t)), material |-> SpecOf(t), text |-> thread[t].text]
      cache == spec_cache[p]
  IN /\ At(t, "insert")
     /\ spec_cache' = IF \E i \in DOMAIN cache : cache[i].key = e.key THEN spec_cache
                      ELSE [spec_cache EXCEPT ![p] = Append(Trimmed(cache), e)]
     /\ Goto(t, IF mode.per_engine THEN "seed" ELSE "return")
     /\ UNCHANGED <<mode, engine_cache, ptx_cache, ready, disk, bounds>>

\* entry(key).or_insert(module): what is there already is returned.
Seed(t) ==
  LET p == P(t)
      k == Key(SpecOf(t))
      module == IF engine_cache[p][k] # None THEN engine_cache[p][k] ELSE thread[t].text
  IN /\ At(t, "seed")
     /\ engine_cache' = [engine_cache EXCEPT ![p][k] = module]
     /\ Took(t, "return", module)
     /\ UNCHANGED <<mode, spec_cache, ptx_cache, ready, disk, bounds>>

Return(t) ==
  /\ At(t, "return")
  /\ thread' = [thread EXCEPT ![t] = Idle]
  /\ UNCHANGED <<mode, memory, disk, bounds>>

-----------------------------------------------------------------------------
(***************************************************************************)
(* The directory.                                                          *)
(***************************************************************************)
Listed == {k \in DiskKeys : files[k] # None}

\* The entries listed, the oldest first.
ByAge(entries) ==
  CHOOSE s \in [1 .. Cardinality(entries) -> entries] :
    \A i, j \in DOMAIN s : i < j => s[i] # s[j] /\ files[s[i]].mtime <= files[s[j]].mtime

\* enforce_bounds lists the entries: none of them if read_dir fails, and not those
\* whose metadata cannot be read.
Lists(entries) ==
  \/ entries = Listed /\ missed' = FALSE /\ UNCHANGED <<calls, faults>>
  \/ entries # Listed /\ missed' = TRUE /\ Fails

\* It has to remove some, or is done.
Exceeds(t, entries, then) ==
  LET count == Cardinality(entries)
  IN thread' = [thread EXCEPT ![t] =
       IF count <= MaxEntries THEN [@ EXCEPT !.pc = then, !.mtime = None]
       ELSE [@ EXCEPT !.pc = "sweep", !.listed = ByAge(entries), !.count = count]]

\* disk_cache(): the first call opens the directory, under the lock of the
\* handle until its sweep is done.
Opening(p) == {t \in Threads : P(t) = p /\ At(t, "sweep") /\ p \notin opened}

AfterSweep(t) == IF P(t) \in opened THEN "load" ELSE "disk"

DiskOpen(t) ==
  /\ At(t, "disk") /\ P(t) \notin opened /\ Opening(P(t)) = {}
  /\ \E entries \in SUBSET Listed :
       /\ Lists(entries)
       /\ Exceeds(t, entries, "disk")
       /\ opened' = IF Cardinality(entries) <= MaxEntries THEN opened \cup {P(t)} ELSE opened
  /\ UNCHANGED <<mode, memory, files, clock>>

\* The directory cannot be made: this call does without it, the next one tries
\* again.
DiskOpenFails(t) ==
  /\ At(t, "disk") /\ P(t) \notin opened /\ Opening(P(t)) = {} /\ Fault
  /\ Goto(t, "codegen_only")
  /\ UNCHANGED <<mode, memory, disk>>

\* The sweep is done, or goes on with the rest of its list.
Swept(t, count, rest) ==
  IF count <= MaxEntries \/ rest = <<>>
    THEN /\ thread' = [thread EXCEPT ![t].pc = AfterSweep(t), ![t].mtime = None,
                                     ![t].listed = <<>>, ![t].count = 0]
         /\ opened' = opened \cup {P(t)}
    ELSE /\ thread' = [thread EXCEPT ![t].listed = rest, ![t].count = count]
         /\ UNCHANGED opened

\* Mutant of SweepOne: tries the same file until it is removed.
SweepOneAgain(t) ==
  LET me == thread[t]
      k == Head(me.listed)
  IN /\ At(t, "sweep")
     /\ files' = [files EXCEPT ![k] = None]
     /\ IF files[k] # None THEN Swept(t, me.count - 1, Tail(me.listed)) ELSE UNCHANGED <<thread, opened>>
     /\ UNCHANGED <<mode, memory, clock, bounds>>

\* One entry of the list.  A file another sweep has removed is not counted.
SweepOne(t) ==
  LET me == thread[t]
      k == Head(me.listed)
  IN /\ At(t, "sweep")
     /\ files' = [files EXCEPT ![k] = None]
     /\ Swept(t, IF files[k] # None THEN me.count - 1 ELSE me.count, Tail(me.listed))
     /\ UNCHANGED <<mode, memory, clock, bounds>>

\* Mutant of SweepFails: counts the file as removed.
SweepFailsCounted(t) ==
  /\ At(t, "sweep") /\ Fault
  /\ Swept(t, thread[t].count - 1, Tail(thread[t].listed))
  /\ UNCHANGED <<mode, memory, files, clock>>

\* A file that cannot be removed is not counted either, so that a later one goes
\* in its place.
SweepFails(t) ==
  /\ At(t, "sweep") /\ Fault
  /\ Swept(t, thread[t].count, Tail(thread[t].listed))
  /\ UNCHANGED <<mode, memory, files, clock>>

\* body_digest, bound to the key.
Digest(k, body) == <<k, body>>

\* Mutant of Valid: the digest is not compared.
ValidIfPresent(k) == files[k] # None

\* The digest in the header is the one of the body under this key.
Valid(k) == files[k] # None /\ files[k].digest = Digest(k, files[k].body)

Lookup(t) ==
  LET k == DiskKey(P(t), SpecOf(t))
  IN /\ At(t, "disk") /\ P(t) \in opened
     /\ IF Valid(k) THEN Took(t, "load", files[k].body) ELSE Goto(t, "codegen")
     /\ UNCHANGED <<mode, memory, disk, bounds>>

Codegen(t) ==
  /\ thread[t].pc \in {"codegen", "codegen_only"}
  /\ Took(t, IF At(t, "codegen") THEN "write" ELSE "load", Text(P(t), SpecOf(t)))
  /\ UNCHANGED <<mode, memory, disk, bounds>>

CodegenFails(t) ==
  /\ thread[t].pc \in {"codegen", "codegen_only"} /\ Fault
  /\ Error(t)
  /\ UNCHANGED <<mode, memory, disk>>

\* store: the temporary file, whose time of modification the rename keeps.
WriteTemp(t) ==
  /\ At(t, "write")
  /\ clock' = clock + 1
  /\ thread' = [thread EXCEPT ![t].pc = "rename", ![t].mtime = clock + 1]
  /\ UNCHANGED <<mode, memory, opened, files, bounds>>

\* The entry is in place; the sweep is the next step.
Rename(t) ==
  /\ At(t, "rename")
  /\ files' = [files EXCEPT ![DiskKey(P(t), SpecOf(t))] =
                 [digest |-> Digest(DiskKey(P(t), SpecOf(t)), thread[t].text),
                  body |-> thread[t].text, mtime |-> thread[t].mtime]]
  /\ thread' = [thread EXCEPT ![t].pc = "bounds"]
  /\ UNCHANGED <<mode, memory, opened, clock, bounds>>

\* A store that fails is ignored.
StoreFails(t) ==
  /\ thread[t].pc \in {"write", "rename"} /\ Fault
  /\ thread' = [thread EXCEPT ![t].pc = "load", ![t].mtime = None]
  /\ UNCHANGED <<mode, memory, disk>>

\* Mutant of Bounds: no sweep after a store.
BoundsOnOpenOnly(t) ==
  /\ At(t, "bounds")
  /\ thread' = [thread EXCEPT ![t].pc = "load", ![t].mtime = None]
  /\ UNCHANGED <<mode, memory, disk, bounds>>

Bounds(t) ==
  /\ At(t, "bounds")
  /\ \E entries \in SUBSET Listed : Lists(entries) /\ Exceeds(t, entries, "load")
  /\ UNCHANGED <<mode, memory, disk>>

-----------------------------------------------------------------------------
(***************************************************************************)
(* CudaModule::from_ptx: the cell of a text, filled outside the lock.      *)
(***************************************************************************)
\* The cells the cache or a thread of p holds.
Held(p, cache) ==
  {e.cell : e \in cache} \cup {thread[t].cell : t \in {u \in Threads : P(u) = p}}

\* A cell that nothing holds.
NewCell(held) == CHOOSE c \in 1 .. (Cardinality(held) + 1) : c \notin held

\* The entries from the most recently used one, at age 0.
Aged(cache) == {[e EXCEPT !.age = Cardinality({f \in cache : f.age < @})] : e \in cache}

\* push_front
PushFront(cache, text, cell) ==
  Aged({[text |-> text, cell |-> cell, age |-> 0]} \cup {[e EXCEPT !.age = @ + 1] : e \in cache})

\* Mutant of Evictable: any entry, the least recently used one first.
EvictableAlways(p, e) == TRUE

\* evict_lru_ready: an entry whose cell is empty is being compiled.
Evictable(p, e) == e.cell \in ready[p]

\* insert_empty makes room: evicts from the tail until there is some or nothing
\* is left to evict.
Evicted(p) ==
  LET cache == ptx_cache[p]
      earlier(e) == {f \in cache : f.age > e.age /\ Evictable(p, f)}
  IN {e \in cache : Evictable(p, e) => Cardinality(earlier(e)) + PtxCap > Cardinality(cache)}

\* The lookup, and the insertion of an empty cell, under one lock.  A text with
\* the hash of another one is loaded without the cache.
FindCell(t) ==
  LET p == P(t)
      text == thread[t].text
      at == {e \in ptx_cache[p] : TextKey(e.text) = TextKey(text)}
      enter(cache, cell) ==
        /\ ptx_cache' = [ptx_cache EXCEPT ![p] = PushFront(cache, text, cell)]
        /\ thread' = [thread EXCEPT ![t].pc = "init", ![t].cell = cell]
  IN /\ At(t, "load")
     /\ \/ /\ at = {}
           /\ enter(Evicted(p), NewCell(Held(p, Evicted(p))))
           /\ ready' = [ready EXCEPT ![p] = @ \cap Held(p, Evicted(p))]
        \/ \E e \in at : e.text = text /\ enter(ptx_cache[p] \ {e}, e.cell) /\ UNCHANGED ready
        \/ \E e \in at : e.text # text /\ Goto(t, "uncached") /\ UNCHANGED <<ptx_cache, ready>>
     /\ UNCHANGED <<mode, engine_cache, spec_cache, disk, bounds>>

Loading(p, cell) == {t \in Threads : P(t) = p /\ At(t, "loading") /\ thread[t].cell = cell}

\* get_or_try_init: takes what is there, waits for the thread that loads, or
\* loads.
InitCell(t) ==
  LET cell == thread[t].cell
  IN /\ At(t, "init") /\ Loading(P(t), cell) = {}
     /\ thread' = [thread EXCEPT ![t] = IF cell \in ready[P(t)]
                     THEN [@ EXCEPT !.pc = "insert", !.cell = None]
                     ELSE [@ EXCEPT !.pc = "loading"]]
     /\ UNCHANGED <<mode, memory, disk, bounds>>

\* load_uncached, in the cell or, after a collision, for this call only.
Load(t) ==
  LET p == P(t)
      cell == thread[t].cell
  IN /\ thread[t].pc \in {"loading", "uncached"}
     /\ ready' = [ready EXCEPT ![p] = @ \cup ({cell} \ {None})]
     /\ thread' = [thread EXCEPT ![t].pc = "insert", ![t].cell = None]
     /\ UNCHANGED <<mode, engine_cache, spec_cache, ptx_cache, disk, bounds>>

\* The driver refuses the text: the cell stays empty.
LoadFails(t) ==
  /\ thread[t].pc \in {"loading", "uncached"} /\ Fault
  /\ Error(t)
  /\ UNCHANGED <<mode, memory, disk>>

-----------------------------------------------------------------------------
\* clear_all_caches, when the engine of a process is dropped.
Clear(p) ==
  /\ \A t \in Threads : P(t) = p => At(t, "idle")
  /\ Fault
  /\ NoMemory(p)
  /\ UNCHANGED <<mode, disk, thread>>

\* A process ends anywhere, and starts again.
Crash(p) ==
  /\ Fault
  /\ NoMemory(p)
  /\ opened' = opened \ {p}
  /\ thread' = [t \in Threads |-> IF P(t) = p THEN Idle ELSE thread[t]]
  /\ UNCHANGED <<mode, files, clock>>

\* The machine stops: the body of a file that was renamed but not synced is lost.
PowerLoss ==
  /\ Fault
  /\ engine_cache' = [p \in Processes |-> [k \in Keys |-> None]]
  /\ spec_cache' = [p \in Processes |-> <<>>]
  /\ ptx_cache' = [p \in Processes |-> {}]
  /\ ready' = [p \in Processes |-> {}]
  /\ opened' = {}
  /\ \E lost \in SUBSET Listed :
       files' = [k \in DiskKeys |-> IF k \in lost THEN [files[k] EXCEPT !.body = None] ELSE files[k]]
  /\ thread' = [t \in Threads |-> Idle]
  /\ UNCHANGED <<mode, clock>>

\* What a thread does next in its call.
Step(t) ==
  \/ EngineLookup(t) \/ SpecLookup(t) \/ InsertSpec(t) \/ Seed(t) \/ Return(t)
  \/ DiskOpen(t) \/ DiskOpenFails(t) \/ SweepOne(t) \/ SweepFails(t) \/ Lookup(t) \/ Codegen(t) \/ CodegenFails(t)
  \/ WriteTemp(t) \/ Rename(t) \/ StoreFails(t) \/ Bounds(t)
  \/ FindCell(t) \/ InitCell(t) \/ Load(t) \/ LoadFails(t)

Next ==
  \/ \E t \in Threads : Step(t) \/ \E s \in Specs : Call(t, s)
  \/ \E p \in Processes : Clear(p) \/ Crash(p)
  \/ PowerLoss

Spec == Init /\ [][Next]_vars

\* Threads are scheduled, and the driver and the file system answer.
FairSpec == Spec /\ \A t \in Threads : WF_vars(Step(t))

-----------------------------------------------------------------------------
(***************************************************************************)
(* Properties.                                                             *)
(***************************************************************************)
TextType == [spec : Specs, version : {1, 2}]
MaybeText == TextType \cup {None}

\* The caches, the directory and the threads have their types.
TypeOK ==
  /\ mode \in Modes
  /\ engine_cache \in [Processes -> [Keys -> MaybeText]]
  /\ \A p \in Processes :
       /\ Len(spec_cache[p]) <= SpecCap
       /\ \A i \in DOMAIN spec_cache[p] :
            spec_cache[p][i] \in [key : Keys, material : Specs, text : TextType]
       /\ ptx_cache[p] \subseteq [text : TextType, cell : Nat, age : Nat]
       /\ ready[p] \subseteq Nat
  /\ opened \subseteq Processes /\ missed \in BOOLEAN
  /\ files \in [DiskKeys -> {None} \cup
                  [digest : DiskKeys \X TextType, body : MaybeText, mtime : 1 .. clock]]
  /\ \A t \in Threads : /\ thread[t].spec \in Specs \cup {None} /\ thread[t].text \in MaybeText
                        /\ thread[t].cell \in Nat \cup {None} /\ thread[t].count \in Nat

\* What a call returns is the kernel of its spec, from the code generator of its
\* own binary.
Right(t) == At(t, "return") => thread[t].text = Text(P(t), SpecOf(t))

\* Whatever mix of caches served it, after evictions, colliding hashes, failed
\* stores, crashes that tear a file, and next to a process of another version
\* that writes to the same directory, a call returns the kernel of its own spec:
\* unless two specs have one hash and a directory or the map of the engine, which
\* know specs by their hash alone, is in use.
RightKernel ==
  ~(mode.specs_collide /\ (mode.disk \/ mode.per_engine)) => \A t \in Threads : Right(t)

\* evict_lru_ready, "the cache's compile-once contract": two threads of a process
\* never load the same text for its cell at the same time.  The loads of a text
\* that lost its place to another one with the same hash go through no cell
\* ("uncached"), and may be many at a time.
LoadedOnce ==
  \A t, u \in Threads :
    t # u /\ P(t) = P(u) /\ At(t, "loading") /\ At(u, "loading") => thread[t].text # thread[u].text

\* store and open sweep the directory, "and a failed sweep only means we retry the
\* bound on the next store/open": when none is under way, or was cut off by a crash
\* and is due at the next open, and the last listing missed nothing, the directory
\* holds MaxEntries files at most, or as many as could not be removed: also when
\* earlier listings failed, and when the sweeps of two processes removed files from
\* under each other.
DirectoryBounded ==
  ~missed /\ (\A t \in Threads : P(t) \in opened /\ thread[t].pc \notin {"bounds", "sweep"})
  => Cardinality(Listed) <= MaxEntries \/ Cardinality(Listed) <= faults

\* get_or_try_init: every call returns, those that wait for another thread's load
\* included, also when that load fails.
Returns == \A t \in Threads : ~At(t, "idle") ~> At(t, "idle")

(***************************************************************************)
(* Three that the documentation states and that do not hold (README).      *)
(***************************************************************************)
\* evict_lru_ready: "When all entries are in flight, callers temporarily allow
\* the cache to exceed its configured cap": an insertion goes over the capacity
\* only when a thread is compiling each of the entries already there.
OverCapOnlyInFlight ==
  [][\A p \in Processes :
       LET after == Cardinality(ptx_cache'[p]) IN
       after > PtxCap /\ after > Cardinality(ptx_cache[p]) =>
         \A e \in ptx_cache[p] : \E t \in Threads : P(t) = p /\ thread[t].cell = e.cell]_vars

\* get_or_build_with_disk: the material is compared "so we never serve the wrong
\* kernel", whatever is configured.
NeverTheWrongKernel == \A t \in Threads : Right(t)

\* store: "the freshly-written entry stays" when its sweep is done.
OwnEntryStays ==
  [][\A t \in Threads :
       LET k == DiskKey(P(t), SpecOf(t)) IN
       At(t, "sweep") /\ P(t) \in opened /\ thread'[t].listed # thread[t].listed
         => ~(files[k] # None /\ files'[k] = None /\ files[k].mtime = thread[t].mtime)]_vars
=============================================================================
