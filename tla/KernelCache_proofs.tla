------------------------- MODULE KernelCache_proofs -------------------------
(***************************************************************************)
(* The caches of kernels for any number of threads, processes, specs,      *)
(* calls and faults.  What a thread carries through a call is the text of  *)
(* its own spec, because each cache either knows entries by more than a    *)
(* hash or is used only with hashes that tell specs apart; and a cell that *)
(* is still to be filled keeps its entry.                                  *)
(***************************************************************************)
EXTENDS KernelCache, FiniteSetTheorems, SequenceTheorems, TLAPS

Pcs == {"idle", "engine", "spec", "seed", "return", "disk", "sweep", "codegen", "codegen_only",
        "write", "rename", "bounds", "load", "init", "loading", "uncached", "insert"}

\* A thread; L is whatever its sweep has listed and counted.
ThreadType(L) ==
  [pc : Pcs, spec : Specs \cup {None}, text : MaybeText, cell : Nat \cup {None},
   mtime : Nat \cup {None}, listed : L, count : L]

FileType == [digest : DiskKeys \X MaybeText, body : MaybeText, mtime : Nat \cup {None}]

TypeInv ==
  /\ mode \in Modes /\ \E L : thread \in [Threads -> ThreadType(L)]
  /\ engine_cache \in [Processes -> [Keys -> MaybeText]]
  /\ spec_cache \in [Processes -> Seq([key : Keys, material : Specs, text : MaybeText])]
  /\ ptx_cache \in [Processes -> SUBSET [text : MaybeText, cell : Nat, age : Nat]]
  /\ ready \in [Processes -> SUBSET Nat]
  /\ files \in [DiskKeys -> {None} \cup FileType] /\ clock \in Nat

\* The hash of a spec is compared alone only where it tells specs apart.
Distinct == ~(mode.specs_collide /\ (mode.disk \/ mode.per_engine))

\* A thread that has got hold of a text.
Carries(t, r, open) ==
  \/ r.pc \in {"seed", "return", "load", "init", "loading", "uncached", "insert", "write", "rename",
               "bounds"}
  \/ r.pc = "sweep" /\ P(t) \in open

\* What t may be like, when the processes open have opened the directory.
Fits(t, r, open) ==
  /\ r.pc # "idle" => r.spec \in Specs
  /\ r.pc \in {"disk", "sweep", "codegen", "write", "rename", "bounds"} => mode.disk
  /\ r.pc \in {"engine", "seed"} => mode.per_engine
  /\ r.pc \in {"codegen", "write", "rename", "bounds"} => P(t) \in open
  /\ IF r.pc \in {"init", "loading"} THEN r.cell \in Nat ELSE r.cell = None
  /\ Distinct /\ Carries(t, r, open) => r.text = Text(P(t), r.spec)

\* One thread of a process opens the directory.
OneOpener ==
  \A t, u \in Threads : t # u /\ P(t) = P(u) /\ At(t, "sweep") /\ At(u, "sweep") => P(t) \in opened

ThreadInv == (\A t \in Threads : Fits(t, thread[t], opened)) /\ OneOpener

\* What the caches and the directory hold.
MemoryInv ==
  Distinct =>
    \A p \in Processes :
      /\ \A e \in Range(spec_cache[p]) : e.text = Text(p, e.material)
      /\ \A s \in Specs :
           /\ mode.per_engine => engine_cache[p][Key(s)] \in {None, Text(p, s)}
           /\ mode.disk /\ files[DiskKey(p, s)] # None
                => files[DiskKey(p, s)].digest = Digest(DiskKey(p, s), Text(p, s))

\* A thread that holds an empty cell holds the one of the entry of its text.
HasEntry(t) ==
  \E e \in ptx_cache[P(t)] : e.text = thread[t].text /\ e.cell = thread[t].cell

LoadInv ==
  /\ \A p \in Processes :
       /\ IsFiniteSet(ptx_cache[p])
       /\ \A e, f \in ptx_cache[p] : e.text = f.text => e = f
  /\ \A t \in Threads :
       /\ thread[t].pc \in {"init", "loading"} /\ thread[t].cell \notin ready[P(t)] => HasEntry(t)
       /\ At(t, "loading") => thread[t].cell \notin ready[P(t)]
  /\ \A t, u \in Threads :
       t # u /\ P(t) = P(u) /\ At(t, "loading") /\ At(u, "loading")
         => thread[t].cell # thread[u].cell

Inv == TypeInv /\ ThreadInv /\ MemoryInv /\ LoadInv

-----------------------------------------------------------------------------
(***************************************************************************)
(* Names of kernels.                                                       *)
(***************************************************************************)
LEMMA ModeFacts ==
  ASSUME TypeInv
  PROVE  /\ mode \in ModeType /\ \A t \in Threads : P(t) \in Processes
         /\ \A p \in Processes, s \in Specs : /\ Text(p, s) \in TextType /\ Text(p, s) # None
                                              /\ Key(s) \in Keys /\ DiskKey(p, s) \in DiskKeys
<1>1. mode \in ModeType
  BY KernelCacheAssumption, Zenon DEF TypeInv
<1>2. \A t \in Threads : P(t) \in Processes
  BY <1>1, Zenon DEF P, ModeType
<1>3. ASSUME NEW p \in Processes, NEW s \in Specs
      PROVE  /\ Text(p, s) \in TextType /\ Text(p, s) # None
             /\ Key(s) \in Keys /\ DiskKey(p, s) \in DiskKeys
  <2>1. mode.version[p] \in {1, 2}
    BY <1>1, Zenon DEF ModeType
  <2>2. Text(p, s) \in TextType
    BY <2>1, Zenon DEF Text, TextType
  <2>3. Text(p, s) # None
    BY <2>2, KernelCacheAssumption, Zenon DEF TextType
  <2>4. Key(s) \in Keys
    BY Zenon DEF Keys
  <2>5. DiskKey(p, s) \in DiskKeys
    BY <2>1, <2>4, Zenon DEF DiskKey, DiskKeys
  <2> QED BY <2>2, <2>3, <2>4, <2>5, Zenon
<1> QED BY <1>1, <1>2, <1>3, Zenon

\* With distinct hashes a key stands for one text.
LEMMA KeysTell ==
  ASSUME Distinct
  PROVE  /\ mode.per_engine => \A s, r \in Specs : Key(s) = Key(r) => s = r
         /\ mode.disk => \A p, q \in Processes, s, r \in Specs :
              DiskKey(p, s) = DiskKey(q, r) => Text(p, s) = Text(q, r)
BY Zenon DEF Distinct, Key, DiskKey, Text

-----------------------------------------------------------------------------
(***************************************************************************)
(* A step of one thread, which becomes r.                                  *)
(***************************************************************************)
Moves(t, r) ==
  /\ thread' = [thread EXCEPT ![t] = r] /\ mode' = mode
  /\ \E L : r \in ThreadType(L)
  /\ Fits(t, r, opened')
  /\ \/ opened' = opened
     \/ /\ opened' = opened \cup {P(t)}
        /\ \A u \in Threads : u # t /\ P(u) = P(t) => ~At(u, "sweep")
  /\ r.pc = "sweep" /\ P(t) \notin opened' => \A u \in Threads : u # t /\ P(u) = P(t) => ~At(u, "sweep")

LEMMA MovesTyped ==
  ASSUME TypeInv, NEW t \in Threads, NEW r, Moves(t, r)
  PROVE  \E L : thread' \in [Threads -> ThreadType(L)]
<1>1. PICK L : thread \in [Threads -> ThreadType(L)]
  BY Zenon DEF TypeInv
<1>2. PICK M : r \in ThreadType(M)
  BY Zenon DEF Moves
<1>3. ThreadType(L) \subseteq ThreadType(L \cup M) /\ ThreadType(M) \subseteq ThreadType(L \cup M)
  BY Zenon DEF ThreadType
<1>4. thread' \in [Threads -> ThreadType(L \cup M)]
  BY <1>1, <1>2, <1>3, Zenon DEF Moves
<1> QED BY <1>4, Zenon

LEMMA MovesThreads ==
  ASSUME TypeInv, ThreadInv, NEW t \in Threads, NEW r, Moves(t, r)
  PROVE  ThreadInv'
<1>1. /\ thread'[t] = r /\ \A u \in Threads : u # t => thread'[u] = thread[u]
  BY Zenon DEF TypeInv, Moves
<1>2. \A u : P(u)' = P(u)
  BY Zenon DEF Moves, P
<1>3. ASSUME NEW u \in Threads PROVE Fits(u, thread'[u], opened')
  <2>1. CASE u = t
    BY <1>1, <2>1, Zenon DEF Moves
  <2>2. CASE u # t
    <3>1. Fits(u, thread[u], opened) /\ thread'[u] = thread[u]
      BY <1>1, <2>2, Zenon DEF ThreadInv
    <3>2. opened \subseteq opened'
      BY Zenon DEF Moves
    <3>3. Carries(u, thread[u], opened') => Carries(u, thread[u], opened)
      BY <2>2, Zenon DEF Moves, Carries, At
    <3> QED BY <3>1, <3>2, <3>3, Zenon DEF Fits
  <2> QED BY <2>1, <2>2, Zenon
<1>4. ASSUME NEW u \in Threads PROVE Fits(u, thread[u], opened)'
  BY <1>3, Zenon DEF Fits, Carries, Distinct, P, Text, Moves
<1>5. OneOpener'
  <2> SUFFICES ASSUME NEW u \in Threads, NEW w \in Threads, u # w, P(u) = P(w),
                      thread'[u].pc = "sweep", thread'[w].pc = "sweep", P(u) \notin opened'
               PROVE  FALSE
    BY <1>2, Zenon DEF OneOpener, At
  <2>1. P(u) \notin opened
    BY Zenon DEF Moves
  <2>2. CASE u # t /\ w # t
    BY <1>1, <2>1, <2>2, Zenon DEF ThreadInv, OneOpener, At
  <2>3. CASE u = t
    BY <1>1, <2>3, Zenon DEF Moves, At
  <2>4. CASE w = t
    BY <1>1, <2>4, Zenon DEF Moves, At
  <2> QED BY <2>2, <2>3, <2>4, Zenon
<1> QED BY <1>4, <1>5, Zenon DEF ThreadInv

\* A step that is about no cell.
LEMMA MovesLoads ==
  ASSUME TypeInv, LoadInv, NEW t \in Threads, NEW r, Moves(t, r), UNCHANGED <<ptx_cache, ready>>,
         r.pc \notin {"init", "loading"}
  PROVE  LoadInv'
<1>1. /\ thread'[t] = r /\ \A u \in Threads : u # t => thread'[u] = thread[u]
  BY Zenon DEF TypeInv, Moves
<1>2. \A u : P(u)' = P(u)
  BY Zenon DEF Moves, P
<1>3. ASSUME NEW u \in Threads
      PROVE  /\ thread'[u].pc \in {"init", "loading"} /\ thread'[u].cell \notin ready'[P(u)] => HasEntry(u)'
             /\ thread'[u].pc = "loading" => thread'[u].cell \notin ready'[P(u)]
  BY <1>1, <1>2 DEF LoadInv, HasEntry, At
<1>4. ASSUME NEW u \in Threads, NEW w \in Threads, u # w, P(u) = P(w),
             thread'[u].pc = "loading", thread'[w].pc = "loading"
      PROVE  thread'[u].cell # thread'[w].cell
  BY <1>1, <1>4, Zenon DEF LoadInv, At
<1>5. \A p \in Processes : /\ IsFiniteSet(ptx_cache'[p])
                           /\ \A e, f \in ptx_cache'[p] : e.text = f.text => e = f
  BY Zenon DEF LoadInv
<1> QED BY <1>2, <1>3, <1>4, <1>5, Zenon DEF LoadInv, At

LEMMA MemoryKept ==
  ASSUME MemoryInv, mode' = mode, UNCHANGED <<memory, files>>
  PROVE  MemoryInv'
BY Zenon DEF MemoryInv, memory, Distinct, Text, Key, DiskKey, Digest

LEMMA TypesKept ==
  ASSUME TypeInv, NEW t \in Threads, NEW r, Moves(t, r)
  PROVE  /\ mode' \in Modes /\ \E L : thread' \in [Threads -> ThreadType(L)]
         /\ Keys' = Keys /\ DiskKeys' = DiskKeys /\ FileType' = FileType
<1>1. Keys' = Keys
  BY Zenon DEF Keys, Key, Moves
<1> QED BY <1>1, MovesTyped, Zenon DEF TypeInv, Moves, DiskKeys, FileType

\* A step that changes nothing but the thread, the clock and who has opened the
\* directory.
LEMMA QuietMove ==
  ASSUME Inv, NEW t \in Threads, NEW r, Moves(t, r), UNCHANGED <<memory, files>>, clock' \in Nat,
         r.pc \notin {"init", "loading"}
  PROVE  Inv'
<1>1. TypeInv'
  BY TypesKept, Zenon DEF Inv, TypeInv, memory
<1> QED BY <1>1, MovesThreads, MovesLoads, MemoryKept, Zenon DEF Inv, memory, Moves

LEMMA ThreadFacts ==
  ASSUME Inv, NEW t \in Threads
  PROVE  /\ \E L : thread[t] \in ThreadType(L)
         /\ Fits(t, thread[t], opened) /\ P(t) \in Processes
BY ModeFacts, Zenon DEF Inv, TypeInv, ThreadInv

LEMMA GotoIs ==
  ASSUME Inv, NEW t \in Threads, NEW x \in Pcs, Goto(t, x)
  PROVE  \E r : /\ thread' = [thread EXCEPT ![t] = r] /\ \E L : r \in ThreadType(L)
                /\ r.pc = x /\ r.spec = thread[t].spec /\ r.text = thread[t].text
                /\ r.cell = thread[t].cell
<1>1. PICK L : thread \in [Threads -> ThreadType(L)]
  BY Zenon DEF Inv, TypeInv
<1>2. PICK r : r = [thread[t] EXCEPT !.pc = x]
  BY Zenon
<1>3. /\ r \in ThreadType(L) /\ r.pc = x /\ r.spec = thread[t].spec /\ r.text = thread[t].text
      /\ r.cell = thread[t].cell
  BY <1>1, <1>2, Zenon DEF ThreadType
<1>4. thread' = [thread EXCEPT ![t] = r]
  BY <1>1, <1>2, Zenon DEF Goto
<1> QED BY <1>3, <1>4, Zenon

LEMMA TookIs ==
  ASSUME Inv, NEW t \in Threads, NEW x \in Pcs, NEW text \in MaybeText, Took(t, x, text)
  PROVE  \E r : /\ thread' = [thread EXCEPT ![t] = r] /\ \E L : r \in ThreadType(L)
                /\ r.pc = x /\ r.spec = thread[t].spec /\ r.text = text
                /\ r.cell = thread[t].cell
<1>1. PICK L : thread \in [Threads -> ThreadType(L)]
  BY Zenon DEF Inv, TypeInv
<1>2. PICK r : r = [thread[t] EXCEPT !.pc = x, !.text = text]
  BY Zenon
<1>3. /\ r \in ThreadType(L) /\ r.pc = x /\ r.spec = thread[t].spec /\ r.text = text
      /\ r.cell = thread[t].cell
  BY <1>1, <1>2, Zenon DEF ThreadType
<1>4. thread' = [thread EXCEPT ![t] = r]
  BY <1>1, <1>2, Zenon DEF Took
<1> QED BY <1>3, <1>4, Zenon

LEMMA IdleFits ==
  /\ \E L : Idle \in ThreadType(L)
  /\ Idle.pc = "idle" /\ Idle.cell = None
  /\ \A t, open : Fits(t, Idle, open)
<1>1. Idle \in ThreadType({<<>>, 0})
  BY Zenon DEF Idle, ThreadType, MaybeText, Pcs
<1>2. Idle.pc = "idle" /\ Idle.cell = None
  BY Zenon DEF Idle
<1>3. \A t, open : Fits(t, Idle, open)
  BY <1>2, Zenon DEF Fits, Carries
<1> QED BY <1>1, <1>2, <1>3, Zenon

\* A call that ends.
LEMMA EndsMove ==
  ASSUME NEW t \in Threads, thread' = [thread EXCEPT ![t] = Idle], mode' = mode, opened' = opened
  PROVE  Moves(t, Idle)
BY IdleFits, Zenon DEF Moves

-----------------------------------------------------------------------------
(***************************************************************************)
(* The map of the engine and the spec cache.                               *)
(***************************************************************************)
LEMMA CallKeeps ==
  ASSUME Inv, NEW t \in Threads, NEW s \in Specs, Call(t, s)
  PROVE  Inv'
<1>1. PICK x : x = IF mode.per_engine THEN "engine" ELSE "spec"
  BY Zenon
<1>2. PICK r : r = [Idle EXCEPT !.pc = x, !.spec = s]
  BY Zenon
<1>3. /\ r \in ThreadType({<<>>, 0}) /\ r.pc = x /\ r.spec = s /\ r.cell = None
  BY <1>1, <1>2, Zenon DEF Idle, ThreadType, MaybeText, Pcs
<1>4. x \in {"engine", "spec"} /\ (x = "engine" => mode.per_engine)
  BY <1>1, Zenon
<1>5. thread' = [thread EXCEPT ![t] = r] /\ UNCHANGED <<mode, memory, disk>>
  BY <1>1, <1>2, Zenon DEF Call
<1>6. Fits(t, r, opened')
  BY <1>3, <1>4, Zenon DEF Fits, Carries
<1>7. Moves(t, r)
  BY <1>3, <1>4, <1>5, <1>6, Zenon DEF Moves, disk
<1> QED BY <1>3, <1>4, <1>5, <1>7, QuietMove, Zenon DEF disk, Inv, TypeInv

LEMMA EngineLookupKeeps ==
  ASSUME Inv, NEW t \in Threads, EngineLookup(t)
  PROVE  Inv'
<1>1. /\ At(t, "engine") /\ Fits(t, thread[t], opened) /\ P(t) \in Processes
      /\ UNCHANGED <<mode, memory, disk>>
  BY ThreadFacts, Zenon DEF EngineLookup
<1>2. mode.per_engine /\ SpecOf(t) \in Specs /\ thread[t].cell = None
  BY <1>1, Zenon DEF Fits, At, SpecOf
<1>3. PICK m : m = engine_cache[P(t)][Key(SpecOf(t))]
  BY Zenon
<1>4. m \in MaybeText
  BY <1>1, <1>2, <1>3, ModeFacts, Zenon DEF Inv, TypeInv
<1>5. CASE m # None
  <2>1. PICK r : /\ thread' = [thread EXCEPT ![t] = r] /\ \E L : r \in ThreadType(L)
                 /\ r.pc = "return" /\ r.spec = thread[t].spec /\ r.text = m
                 /\ r.cell = thread[t].cell
    BY <1>3, <1>4, <1>5, TookIs DEF EngineLookup, Pcs
  <2>2. Distinct => m = Text(P(t), SpecOf(t))
    BY <1>1, <1>2, <1>3, <1>5, Zenon DEF Inv, MemoryInv
  <2>3. Moves(t, r)
    BY <1>1, <1>2, <2>1, <2>2, Zenon DEF Moves, Fits, SpecOf, disk
  <2> QED BY <1>1, <2>1, <2>3, QuietMove, Zenon DEF disk, Inv, TypeInv
<1>6. CASE m = None
  <2>1. PICK r : /\ thread' = [thread EXCEPT ![t] = r] /\ \E L : r \in ThreadType(L)
                 /\ r.pc = "spec" /\ r.spec = thread[t].spec /\ r.text = thread[t].text
                 /\ r.cell = thread[t].cell
    BY <1>3, <1>6, GotoIs DEF EngineLookup, Pcs
  <2>2. Moves(t, r)
    BY <1>1, <1>2, <2>1, Zenon DEF Moves, Fits, Carries, SpecOf, disk
  <2> QED BY <1>1, <2>1, <2>2, QuietMove, Zenon DEF disk, Inv, TypeInv
<1> QED BY <1>5, <1>6, Zenon

LEMMA EntryTyped ==
  ASSUME Inv, NEW p \in Processes, NEW e \in Range(spec_cache[p])
  PROVE  e \in [key : Keys, material : Specs, text : MaybeText] /\ e.text \in MaybeText
<1>1. spec_cache[p] \in Seq([key : Keys, material : Specs, text : MaybeText])
  BY Zenon DEF Inv, TypeInv
<1>2. e \in [key : Keys, material : Specs, text : MaybeText]
  BY <1>1, RangeOfSeq, Zenon
<1> QED BY <1>2, Zenon

LEMMA SpecLookupKeeps ==
  ASSUME Inv, NEW t \in Threads, SpecLookup(t)
  PROVE  Inv'
<1>1. /\ At(t, "spec") /\ Fits(t, thread[t], opened) /\ P(t) \in Processes
      /\ UNCHANGED <<mode, memory, disk>>
  BY ThreadFacts, Zenon DEF SpecLookup
<1>2. SpecOf(t) \in Specs /\ thread[t].cell = None
  BY <1>1, Zenon DEF Fits, At, SpecOf
<1>3. CASE \E e \in Entry(t) : Took(t, IF mode.per_engine THEN "seed" ELSE "return", e.text)
  <2>1. PICK e \in Entry(t) : Took(t, IF mode.per_engine THEN "seed" ELSE "return", e.text)
    BY <1>3, Zenon
  <2>2. e \in Range(spec_cache[P(t)]) /\ e.material = SpecOf(t)
    BY <2>1, Zenon DEF Entry
  <2>3. e.text \in MaybeText
    BY <1>1, <2>2, EntryTyped, Zenon
  <2>4. PICK x : x = IF mode.per_engine THEN "seed" ELSE "return"
    BY Zenon
  <2>5. x \in {"seed", "return"} /\ (x = "seed" => mode.per_engine)
    BY <2>4, Zenon
  <2>6. PICK r : /\ thread' = [thread EXCEPT ![t] = r] /\ \E L : r \in ThreadType(L)
                 /\ r.pc = x /\ r.spec = thread[t].spec /\ r.text = e.text
                 /\ r.cell = thread[t].cell
    BY <2>1, <2>3, <2>4, <2>5, TookIs DEF Pcs
  <2>7. Distinct => e.text = Text(P(t), SpecOf(t))
    BY <1>1, <2>2, Zenon DEF Inv, MemoryInv
  <2>8. Moves(t, r)
    BY <1>1, <1>2, <2>5, <2>6, <2>7, Zenon DEF Moves, Fits, SpecOf, disk
  <2> QED BY <1>1, <2>5, <2>6, <2>8, QuietMove, Zenon DEF disk, Inv, TypeInv
<1>4. CASE Goto(t, IF mode.disk THEN "disk" ELSE "codegen_only")
  <2>1. PICK x : x = IF mode.disk THEN "disk" ELSE "codegen_only"
    BY Zenon
  <2>2. x \in {"disk", "codegen_only"} /\ (x = "disk" => mode.disk)
    BY <2>1, Zenon
  <2>3. PICK r : /\ thread' = [thread EXCEPT ![t] = r] /\ \E L : r \in ThreadType(L)
                 /\ r.pc = x /\ r.spec = thread[t].spec /\ r.text = thread[t].text
                 /\ r.cell = thread[t].cell
    BY <1>4, <2>1, <2>2, GotoIs DEF Pcs
  <2>4. Moves(t, r)
    BY <1>1, <1>2, <2>2, <2>3, Zenon DEF Moves, Fits, Carries, SpecOf, disk
  <2> QED BY <1>1, <2>2, <2>3, <2>4, QuietMove, Zenon DEF disk, Inv, TypeInv
<1> QED BY <1>3, <1>4, Zenon DEF SpecLookup

\* A step that changes a cache or the directory.
LEMMA CacheMove ==
  ASSUME Inv, NEW t \in Threads, NEW r, Moves(t, r), UNCHANGED <<ptx_cache, ready>>, clock' \in Nat,
         r.pc \notin {"init", "loading"}, MemoryInv',
         engine_cache' \in [Processes -> [Keys -> MaybeText]],
         spec_cache' \in [Processes -> Seq([key : Keys, material : Specs, text : MaybeText])],
         files' \in [DiskKeys -> {None} \cup FileType]
  PROVE  Inv'
<1>1. TypeInv'
  BY TypesKept, Zenon DEF Inv, TypeInv
<1> QED BY <1>1, MovesThreads, MovesLoads, Zenon DEF Inv, Moves

LEMMA TrimmedKeeps ==
  ASSUME NEW S, NEW cache \in Seq(S), NEW e \in S
  PROVE  /\ Append(Trimmed(cache), e) \in Seq(S)
         /\ \A x \in Range(Append(Trimmed(cache), e)) : x = e \/ x \in Range(cache)
<1>1. PICK m : m = IF Len(cache) >= SpecCap THEN Len(cache) - SpecCap + 2 ELSE 1
  BY Zenon
<1>2. Len(cache) \in Nat /\ DOMAIN cache = 1 .. Len(cache) /\ SpecCap \in Nat \ {0}
  BY LenProperties, KernelCacheAssumption, Zenon
<1>3. m \in Nat \ {0}
  BY <1>1, <1>2
<1>4. PICK c : c = Trimmed(cache)
  BY Zenon
<1>5. c \in Seq(S) /\ \A i \in 1 .. Len(c) : \E j \in DOMAIN cache : c[i] = cache[j]
  <2>1. CASE Len(cache) >= SpecCap
    <3>1. c = SubSeq(cache, m, Len(cache))
      BY <1>1, <1>4, <2>1, Zenon DEF Trimmed
    <3>2. \A i \in m .. Len(cache) : cache[i] \in S
      BY <1>2, <1>3, ElementOfSeq
    <3>3. /\ c \in Seq(S) /\ Len(c) = IF m <= Len(cache) THEN Len(cache) - m + 1 ELSE 0
          /\ \A i \in 1 .. Len(cache) - m + 1 : c[i] = cache[m + i - 1]
      BY <1>2, <1>3, <3>1, <3>2, SubSeqProperties
    <3>4. ASSUME NEW i \in 1 .. Len(c) PROVE c[i] = cache[m + i - 1] /\ m + i - 1 \in DOMAIN cache
      BY <1>2, <1>3, <3>3
    <3> QED BY <3>3, <3>4, Zenon
  <2>2. CASE ~(Len(cache) >= SpecCap)
    BY <1>2, <1>4, <2>2, Zenon DEF Trimmed
  <2> QED BY <2>1, <2>2, Zenon
<1>6. PICK a : a = Append(c, e)
  BY Zenon
<1>7. /\ a \in Seq(S) /\ Len(a) = Len(c) + 1 /\ \A i \in 1 .. Len(c) : a[i] = c[i]
      /\ a[Len(c) + 1] = e
  BY <1>5, <1>6, AppendProperties
<1>8. Len(c) \in Nat /\ DOMAIN a = 1 .. Len(a)
  BY <1>5, <1>7, LenProperties, Zenon
<1>9. ASSUME NEW i \in DOMAIN a PROVE a[i] = e \/ a[i] \in Range(cache)
  <2>1. CASE i = Len(c) + 1
    BY <1>7, <2>1, Zenon
  <2>2. CASE i # Len(c) + 1
    <3>1. i \in 1 .. Len(c)
      BY <1>7, <1>8, <2>2
    <3> QED BY <1>5, <1>7, <3>1, Zenon DEF Range
  <2> QED BY <2>1, <2>2, Zenon
<1> QED BY <1>4, <1>6, <1>7, <1>9, Zenon DEF Range

LEMMA InsertSpecKeeps ==
  ASSUME Inv, NEW t \in Threads, InsertSpec(t)
  PROVE  Inv'
<1>1. /\ At(t, "insert") /\ Fits(t, thread[t], opened) /\ P(t) \in Processes
      /\ UNCHANGED <<mode, engine_cache, ptx_cache, ready, disk>>
  BY ThreadFacts, Zenon DEF InsertSpec
<1>2. /\ SpecOf(t) \in Specs /\ thread[t].cell = None
      /\ Distinct => thread[t].text = Text(P(t), SpecOf(t))
  BY <1>1, Zenon DEF Fits, Carries, At, SpecOf
<1>3. PICK x : x = IF mode.per_engine THEN "seed" ELSE "return"
  BY Zenon
<1>4. x \in {"seed", "return"} /\ (x = "seed" => mode.per_engine)
  BY <1>3, Zenon
<1>5. PICK r : /\ thread' = [thread EXCEPT ![t] = r] /\ \E L : r \in ThreadType(L)
               /\ r.pc = x /\ r.spec = thread[t].spec /\ r.text = thread[t].text
               /\ r.cell = thread[t].cell
  BY <1>3, <1>4, GotoIs DEF InsertSpec, Pcs
<1>6. Moves(t, r)
  BY <1>1, <1>2, <1>4, <1>5, Zenon DEF Moves, Fits, SpecOf, disk
<1>7. PICK e : e = [key |-> Key(SpecOf(t)), material |-> SpecOf(t), text |-> thread[t].text]
  BY Zenon
<1>8. thread[t].text \in MaybeText
  BY Zenon DEF Inv, TypeInv, ThreadType
<1>9. e \in [key : Keys, material : Specs, text : MaybeText] /\ e.material = SpecOf(t)
      /\ e.text = thread[t].text
  BY <1>1, <1>2, <1>7, <1>8, ModeFacts, Zenon DEF Inv
<1>10. PICK c : c = Append(Trimmed(spec_cache[P(t)]), e)
  BY Zenon
<1>11. /\ c \in Seq([key : Keys, material : Specs, text : MaybeText])
       /\ \A y \in Range(c) : y = e \/ y \in Range(spec_cache[P(t)])
  BY <1>1, <1>9, <1>10, TrimmedKeeps, ZenonT(40) DEF Inv, TypeInv
<1>12. spec_cache' = spec_cache \/ spec_cache' = [spec_cache EXCEPT ![P(t)] = c]
  BY <1>7, <1>10, Zenon DEF InsertSpec
<1>13. spec_cache' \in [Processes -> Seq([key : Keys, material : Specs, text : MaybeText])]
  BY <1>11, <1>12, Zenon DEF Inv, TypeInv
<1>14. ASSUME Distinct, NEW p \in Processes, NEW y \in Range(spec_cache'[p])
       PROVE  y.text = Text(p, y.material)
  <2>1. y \in Range(spec_cache[p]) \/ (p = P(t) /\ y = e)
    BY <1>11, <1>12, Zenon DEF Inv, TypeInv
  <2> QED BY <1>2, <1>9, <1>14, <2>1, Zenon DEF Inv, MemoryInv
<1>15. MemoryInv'
  BY <1>1, <1>14 DEF Inv, MemoryInv, disk, Distinct, Text, Key, DiskKey, Digest
<1> QED BY <1>1, <1>4, <1>5, <1>6, <1>13, <1>15, CacheMove, Zenon DEF disk, Inv, TypeInv

LEMMA SeedKeeps ==
  ASSUME Inv, NEW t \in Threads, Seed(t)
  PROVE  Inv'
<1>1. /\ At(t, "seed") /\ Fits(t, thread[t], opened) /\ P(t) \in Processes
      /\ UNCHANGED <<mode, spec_cache, ptx_cache, ready, disk>>
  BY ThreadFacts, Zenon DEF Seed
<1>2. /\ SpecOf(t) \in Specs /\ thread[t].cell = None /\ mode.per_engine
      /\ Distinct => thread[t].text = Text(P(t), SpecOf(t))
  BY <1>1, Zenon DEF Fits, Carries, At, SpecOf
<1>3. PICK k : k = Key(SpecOf(t))
  BY Zenon
<1>4. PICK m : m = IF engine_cache[P(t)][k] # None THEN engine_cache[P(t)][k] ELSE thread[t].text
  BY Zenon
<1>5. k \in Keys
  BY <1>1, <1>2, <1>3, ModeFacts, Zenon DEF Inv
<1>6. m \in MaybeText
  BY <1>1, <1>4, <1>5, Zenon DEF Inv, TypeInv, ThreadType
<1>7. engine_cache' = [engine_cache EXCEPT ![P(t)][k] = m] /\ Took(t, "return", m)
  BY <1>3, <1>4, Zenon DEF Seed
<1>8. Distinct => m = Text(P(t), SpecOf(t))
  BY <1>1, <1>2, <1>3, <1>4, Zenon DEF Inv, MemoryInv
<1>9. PICK r : /\ thread' = [thread EXCEPT ![t] = r] /\ \E L : r \in ThreadType(L)
               /\ r.pc = "return" /\ r.spec = thread[t].spec /\ r.text = m
               /\ r.cell = thread[t].cell
  BY <1>6, <1>7, TookIs DEF Pcs
<1>10. Moves(t, r)
  BY <1>1, <1>2, <1>8, <1>9, Zenon DEF Moves, Fits, SpecOf, disk
<1>11. engine_cache' \in [Processes -> [Keys -> MaybeText]]
  BY <1>1, <1>5, <1>6, <1>7, Zenon DEF Inv, TypeInv
<1>12. ASSUME Distinct, NEW p \in Processes, NEW s \in Specs
       PROVE  engine_cache'[p][Key(s)] \in {None, Text(p, s)}
  <2>1. engine_cache[p][Key(s)] \in {None, Text(p, s)} /\ Key(s) \in Keys
    BY <1>2, <1>12, ModeFacts, Zenon DEF Inv, MemoryInv
  <2>2. CASE p = P(t) /\ Key(s) = k
    <3>1. s = SpecOf(t)
      BY <1>2, <1>3, <1>12, <2>2, KeysTell, Zenon
    <3>2. engine_cache'[p][Key(s)] = m
      BY <1>1, <1>5, <1>7, <2>2, Zenon DEF Inv, TypeInv
    <3> QED BY <1>8, <1>12, <2>2, <3>1, <3>2, Zenon
  <2>3. CASE ~(p = P(t) /\ Key(s) = k)
    <3>1. engine_cache'[p][Key(s)] = engine_cache[p][Key(s)]
      BY <1>1, <1>5, <1>7, <2>1, <2>3, Zenon DEF Inv, TypeInv
    <3> QED BY <2>1, <3>1, Zenon
  <2> QED BY <2>2, <2>3, Zenon
<1>13. MemoryInv'
  BY <1>1, <1>12, Zenon DEF Inv, MemoryInv, disk, Distinct, Text, Key, DiskKey, Digest
<1> QED BY <1>1, <1>9, <1>10, <1>11, <1>13, CacheMove, Zenon DEF disk, Inv, TypeInv

LEMMA EndsKeep ==
  ASSUME Inv, NEW t \in Threads, thread' = [thread EXCEPT ![t] = Idle], UNCHANGED <<mode, memory, disk>>
  PROVE  Inv'
BY EndsMove, IdleFits, QuietMove, Zenon DEF disk, Inv, TypeInv

-----------------------------------------------------------------------------
(***************************************************************************)
(* The directory.                                                          *)
(***************************************************************************)
LEMMA ExceedsIs ==
  ASSUME Inv, NEW t \in Threads, NEW x \in Pcs, NEW entries, Exceeds(t, entries, x)
  PROVE  \E r : /\ thread' = [thread EXCEPT ![t] = r] /\ \E L : r \in ThreadType(L)
                /\ r.pc \in {x, "sweep"} /\ r.spec = thread[t].spec /\ r.text = thread[t].text
                /\ r.cell = thread[t].cell
                /\ Cardinality(entries) <= MaxEntries => r.pc = x
<1>1. PICK L : thread \in [Threads -> ThreadType(L)]
  BY Zenon DEF Inv, TypeInv
<1>2. PICK n : n = Cardinality(entries)
  BY Zenon
<1>3. PICK q : q = ByAge(entries)
  BY Zenon
<1>4. PICK r : r = IF n <= MaxEntries THEN [thread[t] EXCEPT !.pc = x, !.mtime = None]
                   ELSE [thread[t] EXCEPT !.pc = "sweep", !.listed = q, !.count = n]
  BY Zenon
<1>5. thread' = [thread EXCEPT ![t] = r]
  BY <1>1, <1>2, <1>3, <1>4, Zenon DEF Exceeds
<1>6. CASE n <= MaxEntries
  <2>1. r = [thread[t] EXCEPT !.pc = x, !.mtime = None]
    BY <1>4, <1>6, Zenon
  <2>2. /\ r \in ThreadType(L) /\ r.pc = x /\ r.spec = thread[t].spec /\ r.text = thread[t].text
        /\ r.cell = thread[t].cell
    BY <1>1, <2>1, Zenon DEF ThreadType
  <2> QED BY <1>5, <2>2, Zenon
<1>7. CASE ~(n <= MaxEntries)
  <2>1. r = [thread[t] EXCEPT !.pc = "sweep", !.listed = q, !.count = n]
    BY <1>4, <1>7, Zenon
  <2>2. /\ r \in ThreadType(L \cup {q, n}) /\ r.pc = "sweep" /\ r.spec = thread[t].spec
        /\ r.text = thread[t].text /\ r.cell = thread[t].cell
    BY <1>1, <2>1, ZenonT(40) DEF ThreadType, Pcs
  <2> QED BY <1>2, <1>5, <1>7, <2>2, Zenon
<1> QED BY <1>6, <1>7, Zenon

\* Nobody else opens the directory.
LEMMA AloneAtOpening ==
  ASSUME Inv, NEW t \in Threads, P(t) \notin opened
  PROVE  /\ Opening(P(t)) = {} => \A u \in Threads : P(u) = P(t) => ~At(u, "sweep")
         /\ At(t, "sweep") => \A u \in Threads : u # t /\ P(u) = P(t) => ~At(u, "sweep")
BY Zenon DEF Inv, ThreadInv, OneOpener, Opening

LEMMA DiskOpenKeeps ==
  ASSUME Inv, NEW t \in Threads, DiskOpen(t)
  PROVE  Inv'
<1>1. /\ At(t, "disk") /\ Fits(t, thread[t], opened) /\ P(t) \in Processes
      /\ UNCHANGED <<mode, memory, files, clock>> /\ P(t) \notin opened /\ Opening(P(t)) = {}
  BY ThreadFacts, Zenon DEF DiskOpen
<1>2. SpecOf(t) \in Specs /\ thread[t].cell = None /\ mode.disk
  BY <1>1, Zenon DEF Fits, At, SpecOf
<1>3. \A u \in Threads : P(u) = P(t) => ~At(u, "sweep")
  BY <1>1, AloneAtOpening, Zenon
<1>4. PICK entries : /\ Exceeds(t, entries, "disk")
                     /\ opened' = IF Cardinality(entries) <= MaxEntries THEN opened \cup {P(t)}
                                  ELSE opened
  BY Zenon DEF DiskOpen
<1>5. PICK r : /\ thread' = [thread EXCEPT ![t] = r] /\ \E L : r \in ThreadType(L)
               /\ r.pc \in {"disk", "sweep"} /\ r.spec = thread[t].spec
               /\ r.cell = thread[t].cell
               /\ Cardinality(entries) <= MaxEntries => r.pc = "disk"
  BY <1>4, ExceedsIs DEF Pcs
<1>6. \/ opened' = opened
      \/ opened' = opened \cup {P(t)} /\ r.pc = "disk"
  BY <1>4, <1>5, Zenon
<1>7. Fits(t, r, opened')
  BY <1>1, <1>2, <1>5, <1>6, Zenon DEF Fits, Carries, SpecOf
<1>8. Moves(t, r)
  BY <1>1, <1>3, <1>5, <1>6, <1>7, Zenon DEF Moves
<1> QED BY <1>1, <1>5, <1>8, QuietMove, Zenon DEF Inv, TypeInv

LEMMA DiskOpenFailsKeeps ==
  ASSUME Inv, NEW t \in Threads, DiskOpenFails(t)
  PROVE  Inv'
<1>1. At(t, "disk") /\ Fits(t, thread[t], opened) /\ UNCHANGED <<mode, memory, disk>>
  BY ThreadFacts, Zenon DEF DiskOpenFails
<1>2. SpecOf(t) \in Specs /\ thread[t].cell = None
  BY <1>1, Zenon DEF Fits, At, SpecOf
<1>3. PICK r : /\ thread' = [thread EXCEPT ![t] = r] /\ \E L : r \in ThreadType(L)
               /\ r.pc = "codegen_only" /\ r.spec = thread[t].spec /\ r.cell = thread[t].cell
  BY GotoIs DEF DiskOpenFails, Pcs
<1>4. Moves(t, r)
  BY <1>1, <1>2, <1>3, Zenon DEF Moves, Fits, Carries, SpecOf, disk
<1> QED BY <1>1, <1>3, <1>4, QuietMove, Zenon DEF disk, Inv, TypeInv

\* What a step of a sweep does to its thread.
LEMMA SweptMoves ==
  ASSUME Inv, NEW t \in Threads, At(t, "sweep"), NEW n, NEW rest, Swept(t, n, rest), mode' = mode
  PROVE  \E r : Moves(t, r) /\ r.pc \notin {"init", "loading"}
<1>1. PICK L : thread \in [Threads -> ThreadType(L)]
  BY Zenon DEF Inv, TypeInv
<1>2. Fits(t, thread[t], opened)
  BY ThreadFacts, Zenon
<1>3. /\ SpecOf(t) \in Specs /\ thread[t].cell = None /\ mode.disk
      /\ Distinct /\ P(t) \in opened => thread[t].text = Text(P(t), SpecOf(t))
  BY <1>2, Zenon DEF Fits, Carries, At, SpecOf
<1>4. P(t) \notin opened => \A u \in Threads : u # t /\ P(u) = P(t) => ~At(u, "sweep")
  BY AloneAtOpening, Zenon
<1>5. CASE n <= MaxEntries \/ rest = <<>>
  <2>1. PICK x : x = AfterSweep(t)
    BY Zenon
  <2>2. x = IF P(t) \in opened THEN "load" ELSE "disk"
    BY <2>1, Zenon DEF AfterSweep
  <2>3. PICK r : r = [thread[t] EXCEPT !.pc = x, !.mtime = None, !.listed = <<>>, !.count = 0]
    BY Zenon
  <2>4. thread' = [thread EXCEPT ![t] = r] /\ opened' = opened \cup {P(t)}
    BY <1>1, <1>5, <2>1, <2>3, Zenon DEF Swept
  <2>5. /\ r \in ThreadType(L \cup {<<>>, 0}) /\ r.pc = x /\ r.spec = thread[t].spec
        /\ r.text = thread[t].text /\ r.cell = thread[t].cell
    BY <1>1, <2>2, <2>3, ZenonT(40) DEF ThreadType, Pcs
  <2>6. Fits(t, r, opened')
    BY <1>3, <2>2, <2>4, <2>5, Zenon DEF Fits, Carries, SpecOf
  <2>7. opened' = opened \/ \A u \in Threads : u # t /\ P(u) = P(t) => ~At(u, "sweep")
    BY <1>4, <2>4, Zenon
  <2>8. Moves(t, r)
    BY <2>2, <2>4, <2>5, <2>6, <2>7, Zenon DEF Moves
  <2> QED BY <2>2, <2>5, <2>8, Zenon
<1>6. CASE ~(n <= MaxEntries \/ rest = <<>>)
  <2>1. PICK r : r = [thread[t] EXCEPT !.listed = rest, !.count = n]
    BY Zenon
  <2>2. thread' = [thread EXCEPT ![t] = r] /\ opened' = opened
    BY <1>1, <1>6, <2>1, Zenon DEF Swept
  <2>3. /\ r \in ThreadType(L \cup {rest, n}) /\ r.pc = "sweep" /\ r.spec = thread[t].spec
        /\ r.text = thread[t].text /\ r.cell = thread[t].cell
    BY <1>1, <2>1, Zenon DEF ThreadType, At
  <2>4. Fits(t, r, opened')
    BY <1>3, <2>2, <2>3, Zenon DEF Fits, Carries, SpecOf
  <2>5. Moves(t, r)
    BY <1>4, <2>2, <2>3, <2>4, Zenon DEF Moves
  <2> QED BY <2>3, <2>5, Zenon
<1> QED BY <1>5, <1>6, Zenon

LEMMA SweepOneKeeps ==
  ASSUME Inv, NEW t \in Threads, SweepOne(t)
  PROVE  Inv'
<1>1. At(t, "sweep") /\ UNCHANGED <<mode, memory, clock>>
  BY Zenon DEF SweepOne
<1>2. PICK r : Moves(t, r) /\ r.pc \notin {"init", "loading"}
  BY <1>1, SweptMoves, Zenon DEF SweepOne
<1>3. PICK k : k = Head(thread[t].listed)
  BY Zenon
<1>4. files' = [files EXCEPT ![k] = None]
  BY <1>3, Zenon DEF SweepOne
<1>5. /\ files' \in [DiskKeys -> {None} \cup FileType]
      /\ \A l \in DiskKeys : files'[l] \in {None, files[l]}
  BY <1>4, Zenon DEF Inv, TypeInv
<1>6. ASSUME NEW p \in Processes, NEW s \in Specs
      PROVE  files'[DiskKey(p, s)] \in {None, files[DiskKey(p, s)]}
  BY <1>5, ModeFacts, ZenonT(40) DEF Inv
<1>7. MemoryInv'
  BY <1>1, <1>6 DEF Inv, MemoryInv, memory, Distinct, Text, Key, DiskKey, Digest
<1> QED BY <1>1, <1>2, <1>5, <1>7, CacheMove, Zenon DEF memory, Inv, TypeInv

LEMMA SweepFailsKeeps ==
  ASSUME Inv, NEW t \in Threads, SweepFails(t)
  PROVE  Inv'
<1>1. At(t, "sweep") /\ UNCHANGED <<mode, memory, files, clock>>
  BY Zenon DEF SweepFails
<1>2. PICK r : Moves(t, r) /\ r.pc \notin {"init", "loading"}
  BY <1>1, SweptMoves, Zenon DEF SweepFails
<1> QED BY <1>1, <1>2, QuietMove, Zenon DEF Inv, TypeInv

LEMMA LookupKeeps ==
  ASSUME Inv, NEW t \in Threads, Lookup(t)
  PROVE  Inv'
<1>1. /\ At(t, "disk") /\ Fits(t, thread[t], opened) /\ P(t) \in Processes
      /\ UNCHANGED <<mode, memory, disk>> /\ P(t) \in opened
  BY ThreadFacts, Zenon DEF Lookup
<1>2. SpecOf(t) \in Specs /\ thread[t].cell = None /\ mode.disk
  BY <1>1, Zenon DEF Fits, At, SpecOf
<1>3. PICK k : k = DiskKey(P(t), SpecOf(t))
  BY Zenon
<1>4. k \in DiskKeys
  BY <1>1, <1>2, <1>3, ModeFacts, Zenon DEF Inv
<1>5. CASE Valid(k)
  <2>1. PICK b : b = files[k].body
    BY Zenon
  <2>2. files[k] \in FileType
    BY <1>4, <1>5, Zenon DEF Valid, Inv, TypeInv
  <2>3. b \in MaybeText
    BY <2>1, <2>2, Zenon DEF FileType
  <2>4. Distinct => b = Text(P(t), SpecOf(t))
    BY <1>1, <1>2, <1>3, <1>5, <2>1, SMTT(30) DEF Inv, MemoryInv, Valid, Digest
  <2>5. PICK r : /\ thread' = [thread EXCEPT ![t] = r] /\ \E L : r \in ThreadType(L)
                 /\ r.pc = "load" /\ r.spec = thread[t].spec /\ r.text = b
                 /\ r.cell = thread[t].cell
    BY <1>3, <1>5, <2>1, <2>3, TookIs DEF Lookup, Pcs
  <2>6. Moves(t, r)
    BY <1>1, <1>2, <2>4, <2>5, Zenon DEF Moves, Fits, SpecOf, disk
  <2> QED BY <1>1, <2>5, <2>6, QuietMove, Zenon DEF disk, Inv, TypeInv
<1>6. CASE ~Valid(k)
  <2>1. PICK r : /\ thread' = [thread EXCEPT ![t] = r] /\ \E L : r \in ThreadType(L)
                 /\ r.pc = "codegen" /\ r.spec = thread[t].spec /\ r.cell = thread[t].cell
    BY <1>3, <1>6, GotoIs DEF Lookup, Pcs
  <2>2. Moves(t, r)
    BY <1>1, <1>2, <2>1, Zenon DEF Moves, Fits, Carries, SpecOf, disk
  <2> QED BY <1>1, <2>1, <2>2, QuietMove, Zenon DEF disk, Inv, TypeInv
<1> QED BY <1>5, <1>6, Zenon

LEMMA CodegenKeeps ==
  ASSUME Inv, NEW t \in Threads, Codegen(t)
  PROVE  Inv'
<1>1. /\ thread[t].pc \in {"codegen", "codegen_only"} /\ Fits(t, thread[t], opened)
      /\ P(t) \in Processes /\ UNCHANGED <<mode, memory, disk>>
  BY ThreadFacts, Zenon DEF Codegen
<1>2. /\ SpecOf(t) \in Specs /\ thread[t].cell = None
      /\ At(t, "codegen") => mode.disk /\ P(t) \in opened
  BY <1>1, Zenon DEF Fits, At, SpecOf
<1>3. PICK x : x = IF At(t, "codegen") THEN "write" ELSE "load"
  BY Zenon
<1>4. x \in {"write", "load"} /\ (x = "write" => At(t, "codegen"))
  BY <1>3, Zenon
<1>5. PICK m : m = Text(P(t), SpecOf(t))
  BY Zenon
<1>6. m \in MaybeText
  BY <1>1, <1>2, <1>5, ModeFacts, Zenon DEF MaybeText, Inv
<1>7. PICK r : /\ thread' = [thread EXCEPT ![t] = r] /\ \E L : r \in ThreadType(L)
               /\ r.pc = x /\ r.spec = thread[t].spec /\ r.text = m /\ r.cell = thread[t].cell
  BY <1>3, <1>4, <1>5, <1>6, TookIs DEF Codegen, Pcs
<1>8. Moves(t, r)
  BY <1>1, <1>2, <1>4, <1>5, <1>7, Zenon DEF Moves, Fits, SpecOf, disk
<1> QED BY <1>1, <1>4, <1>7, <1>8, QuietMove, Zenon DEF disk, Inv, TypeInv

\* The steps of a store: only the stage and the time of modification change.
LEMMA StoreMoves ==
  ASSUME Inv, NEW t \in Threads, thread[t].pc \in {"write", "rename"},
         NEW x \in {"rename", "bounds", "load"}, NEW m \in Nat \cup {None},
         thread' = [thread EXCEPT ![t].pc = x, ![t].mtime = m], mode' = mode, opened' = opened
  PROVE  \E r : Moves(t, r) /\ r.pc \notin {"init", "loading"}
<1>1. PICK L : thread \in [Threads -> ThreadType(L)]
  BY Zenon DEF Inv, TypeInv
<1>2. /\ SpecOf(t) \in Specs /\ thread[t].cell = None /\ mode.disk /\ P(t) \in opened
      /\ Distinct => thread[t].text = Text(P(t), SpecOf(t))
  BY ThreadFacts, Zenon DEF Fits, Carries, SpecOf
<1>3. PICK r : r = [thread[t] EXCEPT !.pc = x, !.mtime = m]
  BY Zenon
<1>4. thread' = [thread EXCEPT ![t] = r]
  BY <1>1, <1>3, Zenon
<1>5. /\ r \in ThreadType(L) /\ r.pc = x /\ r.spec = thread[t].spec /\ r.text = thread[t].text
      /\ r.cell = thread[t].cell
  BY <1>1, <1>3, ZenonT(40) DEF ThreadType, Pcs
<1>6. Fits(t, r, opened')
  BY <1>2, <1>5, Zenon DEF Fits, SpecOf
<1>7. Moves(t, r)
  BY <1>4, <1>5, <1>6, Zenon DEF Moves
<1> QED BY <1>5, <1>7, Zenon

LEMMA WriteTempKeeps ==
  ASSUME Inv, NEW t \in Threads, WriteTemp(t)
  PROVE  Inv'
<1>1. PICK m : m = clock + 1
  BY Zenon
<1>2. /\ m \in Nat /\ clock' = m /\ thread[t].pc = "write"
      /\ thread' = [thread EXCEPT ![t].pc = "rename", ![t].mtime = m]
      /\ UNCHANGED <<mode, memory, opened, files>>
  BY <1>1 DEF WriteTemp, At, Inv, TypeInv
<1>3. PICK r : Moves(t, r) /\ r.pc \notin {"init", "loading"}
  BY <1>2, StoreMoves, Zenon
<1> QED BY <1>2, <1>3, QuietMove, Zenon

LEMMA StoreFailsKeeps ==
  ASSUME Inv, NEW t \in Threads, StoreFails(t)
  PROVE  Inv'
<1>1. /\ thread[t].pc \in {"write", "rename"} /\ UNCHANGED <<mode, memory, disk>>
      /\ thread' = [thread EXCEPT ![t].pc = "load", ![t].mtime = None]
  BY Zenon DEF StoreFails
<1>2. PICK r : Moves(t, r) /\ r.pc \notin {"init", "loading"}
  BY <1>1, StoreMoves, Zenon DEF disk
<1> QED BY <1>1, <1>2, QuietMove, Zenon DEF disk, Inv, TypeInv

LEMMA RenameKeeps ==
  ASSUME Inv, NEW t \in Threads, Rename(t)
  PROVE  Inv'
<1>1. PICK L : thread \in [Threads -> ThreadType(L)]
  BY Zenon DEF Inv, TypeInv
<1>2. At(t, "rename") /\ P(t) \in Processes /\ UNCHANGED <<mode, memory, opened, clock>>
  BY ThreadFacts, Zenon DEF Rename
<1>3. /\ SpecOf(t) \in Specs /\ thread[t].cell = None /\ mode.disk /\ P(t) \in opened
      /\ Distinct => thread[t].text = Text(P(t), SpecOf(t))
  BY <1>2, ThreadFacts, Zenon DEF Fits, Carries, SpecOf, At
<1>4. PICK r : /\ thread' = [thread EXCEPT ![t] = r] /\ \E M : r \in ThreadType(M)
               /\ r.pc = "bounds" /\ r.spec = thread[t].spec /\ r.text = thread[t].text
               /\ r.cell = thread[t].cell
  <2>1. Goto(t, "bounds")
    BY Zenon DEF Rename, Goto
  <2> QED BY <2>1, GotoIs, Zenon DEF Pcs
<1>5. Moves(t, r)
  BY <1>2, <1>3, <1>4, Zenon DEF Moves, Fits, SpecOf
<1>6. PICK k : k = DiskKey(P(t), SpecOf(t))
  BY Zenon
<1>7. k \in DiskKeys /\ thread[t].text \in MaybeText /\ thread[t].mtime \in Nat \cup {None}
  BY <1>1, <1>2, <1>3, <1>6, ModeFacts, Zenon DEF Inv, ThreadType
<1>8. PICK f : f = [digest |-> Digest(k, thread[t].text), body |-> thread[t].text, mtime |-> thread[t].mtime]
  BY Zenon
<1>9. f \in FileType /\ f.digest = Digest(k, thread[t].text)
  BY <1>7, <1>8, Zenon DEF FileType, Digest
<1>10. files' = [files EXCEPT ![k] = f]
  BY <1>6, <1>8, Zenon DEF Rename
<1>11. files' \in [DiskKeys -> {None} \cup FileType]
  BY <1>7, <1>9, <1>10, Zenon DEF Inv, TypeInv
<1>12. ASSUME Distinct, NEW p \in Processes, NEW s \in Specs, files'[DiskKey(p, s)] # None
       PROVE  files'[DiskKey(p, s)].digest = Digest(DiskKey(p, s), Text(p, s))
  <2>1. DiskKey(p, s) \in DiskKeys
    BY ModeFacts, Zenon DEF Inv
  <2>2. CASE DiskKey(p, s) = k
    <3>1. Text(p, s) = thread[t].text
      BY <1>2, <1>3, <1>6, <1>12, <2>2, KeysTell, SMTT(30)
    <3>2. files'[DiskKey(p, s)] = f
      BY <1>7, <1>10, <2>2, Zenon DEF Inv, TypeInv
    <3> QED BY <1>9, <2>2, <3>1, <3>2, Zenon
  <2>3. CASE DiskKey(p, s) # k
    <3>1. files'[DiskKey(p, s)] = files[DiskKey(p, s)]
      BY <1>10, <2>1, <2>3, Zenon DEF Inv, TypeInv
    <3> QED BY <1>3, <1>12, <3>1 DEF Inv, MemoryInv
  <2> QED BY <2>2, <2>3, Zenon
<1>13. MemoryInv'
  BY <1>2, <1>12, Zenon DEF Inv, MemoryInv, memory, Distinct, Text, Key, DiskKey, Digest
<1> QED BY <1>2, <1>4, <1>5, <1>11, <1>13, CacheMove, Zenon DEF memory, Inv, TypeInv

LEMMA BoundsKeeps ==
  ASSUME Inv, NEW t \in Threads, Bounds(t)
  PROVE  Inv'
<1>1. At(t, "bounds") /\ UNCHANGED <<mode, memory, disk>>
  BY Zenon DEF Bounds
<1>2. /\ SpecOf(t) \in Specs /\ thread[t].cell = None /\ mode.disk /\ P(t) \in opened
      /\ Distinct => thread[t].text = Text(P(t), SpecOf(t))
  BY <1>1, ThreadFacts, Zenon DEF Fits, Carries, SpecOf, At
<1>3. PICK r : /\ thread' = [thread EXCEPT ![t] = r] /\ \E L : r \in ThreadType(L)
               /\ r.pc \in {"load", "sweep"} /\ r.spec = thread[t].spec
               /\ r.text = thread[t].text /\ r.cell = thread[t].cell
  BY ExceedsIs DEF Bounds, Pcs
<1>4. Moves(t, r)
  BY <1>1, <1>2, <1>3, Zenon DEF Moves, Fits, SpecOf, disk
<1> QED BY <1>1, <1>3, <1>4, QuietMove, Zenon DEF disk, Inv, TypeInv

-----------------------------------------------------------------------------
(***************************************************************************)
(* Cells.                                                                  *)
(***************************************************************************)
EntryType == [text : MaybeText, cell : Nat, age : Nat]

\* A finite set of entries that has one for each text.
Wellformed(cache) ==
  /\ cache \subseteq EntryType /\ IsFiniteSet(cache)
  /\ \A e, f \in cache : e.text = f.text => e = f

Has(cache, text, cell) == \E e \in cache : e.text = text /\ e.cell = cell

LEMMA ImageFinite ==
  ASSUME NEW S, IsFiniteSet(S), NEW f, NEW T, T = {f[x] : x \in S}
  PROVE  IsFiniteSet(T)
<1>1. PICK h : h = [x \in S |-> f[x]]
  BY Zenon
<1>2. h \in Surjection(S, T)
  BY <1>1, Zenon DEF Surjection
<1> QED BY <1>2, FS_Surjection, Zenon DEF ExistsSurjection

\* The ages of the entries change and nothing else.
LEMMA AgedIs ==
  ASSUME NEW X, Wellformed(X)
  PROVE  Wellformed(Aged(X)) /\ \A e \in X : Has(Aged(X), e.text, e.cell)
<1> DEFINE n(e) == Cardinality({f \in X : f.age < e.age})
           g(e) == [e EXCEPT !.age = n(e)]
<1>1. ASSUME NEW e \in X PROVE n(e) \in Nat
  <2>1. IsFiniteSet({f \in X : f.age < e.age})
    BY FS_Subset, Zenon DEF Wellformed
  <2> QED BY <2>1, FS_CardinalityType, Zenon
<1>2. ASSUME NEW e \in X PROVE g(e) \in EntryType /\ g(e).text = e.text /\ g(e).cell = e.cell
  <2>1. PICK m \in Nat : m = n(e)
    BY <1>1, Zenon
  <2>2. g(e) = [e EXCEPT !.age = m]
    BY <2>1, Zenon
  <2>3. e \in EntryType
    BY Zenon DEF Wellformed
  <2> QED BY <2>2, <2>3, Zenon DEF EntryType
<1>3. Aged(X) = {g(e) : e \in X}
  BY Zenon DEF Aged
<1> HIDE DEF g
<1>4. IsFiniteSet(Aged(X))
  <2>1. PICK h : h = [e \in X |-> g(e)]
    BY Zenon
  <2>2. Aged(X) = {h[e] : e \in X}
    BY <1>3, <2>1, Zenon
  <2> QED BY <2>2, ImageFinite DEF Wellformed
<1>5. Aged(X) \subseteq EntryType
  BY <1>2, <1>3, Zenon
<1>6. ASSUME NEW a \in Aged(X), NEW b \in Aged(X), a.text = b.text PROVE a = b
  <2>1. PICK e \in X, f \in X : a = g(e) /\ b = g(f)
    BY <1>3, Zenon
  <2>2. e = f
    BY <1>2, <1>6, <2>1 DEF Wellformed
  <2> QED BY <2>1, <2>2, Zenon
<1> QED BY <1>2, <1>3, <1>4, <1>5, <1>6, Zenon DEF Wellformed, Has

LEMMA PushFrontIs ==
  ASSUME NEW C, Wellformed(C), NEW text \in MaybeText, NEW cell \in Nat, \A e \in C : e.text # text
  PROVE  /\ Wellformed(PushFront(C, text, cell)) /\ Has(PushFront(C, text, cell), text, cell)
         /\ \A e \in C : Has(PushFront(C, text, cell), e.text, e.cell)
<1> DEFINE g(e) == [e EXCEPT !.age = @ + 1]
<1>1. PICK x : x = [text |-> text, cell |-> cell, age |-> 0]
  BY Zenon
<1>2. x \in EntryType /\ x.text = text /\ x.cell = cell
  BY <1>1, Zenon DEF EntryType
<1>3. ASSUME NEW e \in C PROVE g(e) \in EntryType /\ g(e).text = e.text /\ g(e).cell = e.cell
  <2>1. e \in EntryType
    BY Zenon DEF Wellformed
  <2>2. PICK m \in Nat : m = e.age + 1
    BY <2>1 DEF EntryType
  <2>3. g(e) = [e EXCEPT !.age = m]
    BY <2>1, <2>2, Zenon DEF EntryType
  <2> QED BY <2>1, <2>3, Zenon DEF EntryType
<1>4. PICK X : X = {x} \cup {g(e) : e \in C}
  BY Zenon
<1>5. PushFront(C, text, cell) = Aged(X)
  BY <1>1, <1>4, Zenon DEF PushFront
<1> HIDE DEF g
<1>6. IsFiniteSet(X)
  <2>1. IsFiniteSet({g(e) : e \in C})
    <3>1. PICK h : h = [e \in C |-> g(e)]
      BY Zenon
    <3>2. PICK T : T = {g(e) : e \in C}
      BY Zenon
    <3>3. T = {h[e] : e \in C}
      BY <3>1, <3>2, Zenon
    <3>4. IsFiniteSet(T)
      BY <3>3, ImageFinite, Zenon DEF Wellformed
    <3> QED BY <3>2, <3>4, Zenon
  <2> QED BY <1>4, <2>1, FS_Singleton, FS_Union, Zenon
<1>7. X \subseteq EntryType
  BY <1>2, <1>3, <1>4, Zenon
<1>8. ASSUME NEW a \in X, NEW b \in X, a.text = b.text PROVE a = b
  BY <1>2, <1>3, <1>4, <1>8 DEF Wellformed
<1>9. Wellformed(X)
  BY <1>6, <1>7, <1>8, Zenon DEF Wellformed
<1>10. x \in X /\ \A e \in C : g(e) \in X
  BY <1>4, Zenon
<1>11. \A a \in X : Has(Aged(X), a.text, a.cell)
  BY <1>9, AgedIs, Zenon
<1>12. Has(Aged(X), text, cell)
  BY <1>2, <1>10, <1>11, Zenon
<1>13. \A e \in C : Has(Aged(X), e.text, e.cell)
  BY <1>3, <1>10, <1>11, Zenon
<1> QED BY <1>5, <1>9, <1>12, <1>13, AgedIs, Zenon

LEMMA NewCellIs ==
  ASSUME NEW held, IsFiniteSet(held)
  PROVE  NewCell(held) \in Nat /\ NewCell(held) \notin held
<1>1. PICK n \in Nat : n = Cardinality(held)
  BY FS_CardinalityType, Zenon
<1>2. \E c \in 1 .. (n + 1) : c \notin held
  <2> SUFFICES ASSUME 1 .. (n + 1) \subseteq held PROVE FALSE
    BY Zenon
  <2>1. Cardinality(1 .. (n + 1)) <= n
    BY <1>1, FS_Subset, Zenon
  <2>2. Cardinality(1 .. (n + 1)) = n + 1
    BY <1>1, FS_Interval
  <2> QED BY <1>1, <2>1, <2>2
<1>3. PICK c : c = NewCell(held)
  BY Zenon
<1>4. c \in 1 .. (n + 1) /\ c \notin held
  BY <1>1, <1>2, <1>3, Zenon DEF NewCell
<1> QED BY <1>1, <1>3, <1>4

\* A step on the cache by text.
LEMMA CellMove ==
  ASSUME Inv, NEW t \in Threads, NEW r, Moves(t, r), UNCHANGED <<engine_cache, spec_cache, disk>>,
         LoadInv', ptx_cache' \in [Processes -> SUBSET EntryType], ready' \in [Processes -> SUBSET Nat]
  PROVE  Inv'
<1>1. TypeInv'
  BY TypesKept, ZenonT(40) DEF Inv, TypeInv, EntryType, disk
<1>2. MemoryInv'
  BY SMTT(30) DEF Inv, MemoryInv, disk, Moves, Distinct, Text, Key, DiskKey, Digest
<1> QED BY <1>1, <1>2, MovesThreads, Zenon DEF Inv

LEMMA CacheFacts ==
  ASSUME Inv, NEW p \in Processes
  PROVE  Wellformed(ptx_cache[p]) /\ ready[p] \in SUBSET Nat
BY Zenon DEF Inv, TypeInv, LoadInv, Wellformed, EntryType

LEMMA HeldIs ==
  ASSUME Inv, NEW p \in Processes, NEW C, IsFiniteSet(C)
  PROVE  /\ IsFiniteSet(Held(p, C)) /\ \A t \in Threads : P(t) = p => thread[t].cell \in Held(p, C)
<1>1. IsFiniteSet({e.cell : e \in C})
  <2>1. PICK h : h = [e \in C |-> e.cell]
    BY Zenon
  <2>2. PICK T : T = {e.cell : e \in C}
    BY Zenon
  <2>3. T = {h[e] : e \in C}
    BY <2>1, <2>2, Zenon
  <2>4. IsFiniteSet(T)
    BY <2>3, ImageFinite, Zenon
  <2> QED BY <2>2, <2>4, Zenon
<1>2. IsFiniteSet({u \in Threads : P(u) = p})
  BY FS_Subset, KernelCacheAssumption, Zenon
<1>3. IsFiniteSet({thread[t].cell : t \in {u \in Threads : P(u) = p}})
  <2>1. PICK U : U = {u \in Threads : P(u) = p}
    BY Zenon
  <2>2. PICK h : h = [t \in U |-> thread[t].cell]
    BY Zenon
  <2>3. PICK T : T = {thread[t].cell : t \in U}
    BY Zenon
  <2>4. T = {h[t] : t \in U}
    BY <2>2, <2>3, Zenon
  <2>5. IsFiniteSet(T)
    BY <1>2, <2>1, <2>4, ImageFinite, Zenon
  <2> QED BY <2>1, <2>3, <2>5, Zenon
<1>4. IsFiniteSet(Held(p, C))
  BY <1>1, <1>3, FS_Union, Zenon DEF Held
<1> QED BY <1>4, Zenon DEF Held

\* insert_empty and promote: the thread gets the cell of an entry of its text, and
\* the entries whose cells are empty stay.
Enters(t, C, cell, R) ==
  /\ At(t, "load") /\ cell \in Nat /\ Wellformed(C) /\ \A e \in C : e.text # thread[t].text
  /\ ptx_cache' = [ptx_cache EXCEPT ![P(t)] = PushFront(C, thread[t].text, cell)]
  /\ thread' = [thread EXCEPT ![t].pc = "init", ![t].cell = cell]
  /\ R \subseteq ready[P(t)] /\ ready' = [ready EXCEPT ![P(t)] = R]
  /\ \A u \in Threads : P(u) = P(t) /\ thread[u].cell \in ready[P(t)] => thread[u].cell \in R
  /\ \A e \in ptx_cache[P(t)] : \/ e.cell \in ready[P(t)]
                                \/ e \in C
                                \/ e.text = thread[t].text /\ e.cell = cell
  /\ UNCHANGED <<mode, engine_cache, spec_cache, disk>>

LEMMA EnterKeeps ==
  ASSUME Inv, NEW t \in Threads, NEW C, NEW cell, NEW R, Enters(t, C, cell, R)
  PROVE  Inv'
<1>0. /\ thread' = [thread EXCEPT ![t].pc = "init", ![t].cell = cell] /\ cell \in Nat
      /\ mode' = mode /\ opened' = opened
  BY Zenon DEF Enters, disk
<1>1. PICK L : thread \in [Threads -> ThreadType(L)]
  BY Zenon DEF Inv, TypeInv
<1>2. /\ SpecOf(t) \in Specs
      /\ Distinct => thread[t].text = Text(P(t), SpecOf(t))
  BY ThreadFacts, Zenon DEF Fits, Carries, SpecOf, At, Enters
<1>3. PICK r : r = [thread[t] EXCEPT !.pc = "init", !.cell = cell]
  BY Zenon
<1>4. /\ r \in ThreadType(L) /\ r.pc = "init" /\ r.spec = thread[t].spec /\ r.text = thread[t].text
      /\ r.cell = cell /\ thread[t].text \in MaybeText
  BY <1>0, <1>1, <1>3, ZenonT(40) DEF ThreadType, Pcs
<1>5. thread' = [thread EXCEPT ![t] = r] /\ mode' = mode /\ opened' = opened /\ cell \in Nat
  BY <1>0, <1>1, <1>3, Zenon
<1>6. Moves(t, r)
  <2>1. Fits(t, r, opened')
    BY <1>2, <1>4, <1>5, Zenon DEF Fits, SpecOf
  <2> QED BY <1>4, <1>5, <2>1, Zenon DEF Moves
<1>7. thread'[t] = r /\ \A u \in Threads : u # t => thread'[u] = thread[u]
  BY <1>1, <1>5, Zenon
<1>8. PICK Y : Y = PushFront(C, thread[t].text, cell)
  BY Zenon
<1>9. /\ Wellformed(Y) /\ Has(Y, thread[t].text, cell) /\ \A e \in C : Has(Y, e.text, e.cell)
  BY <1>4, <1>5, <1>8, PushFrontIs, Zenon DEF Enters
<1>10. P(t) \in Processes /\ \A u \in Threads : P(u) \in Processes
  BY ModeFacts, Zenon DEF Inv
<1>11. /\ \A q \in Processes : ptx_cache'[q] = IF q = P(t) THEN Y ELSE ptx_cache[q]
       /\ \A q \in Processes : ready'[q] = IF q = P(t) THEN R ELSE ready[q]
  BY <1>8, <1>10, Zenon DEF Inv, TypeInv, Enters
<1>12. ptx_cache' \in [Processes -> SUBSET EntryType] /\ ready' \in [Processes -> SUBSET Nat]
  BY <1>8, <1>9, <1>10, Zenon DEF Inv, TypeInv, Wellformed, EntryType, Enters
<1>13. \A u : P(u)' = P(u)
  BY <1>5, Zenon DEF P
<1>14. ASSUME NEW u \in Threads, thread'[u].pc \in {"init", "loading"}, thread'[u].cell \notin ready'[P(u)]
       PROVE  \E e \in ptx_cache'[P(u)] : e.text = thread'[u].text /\ e.cell = thread'[u].cell
  <2>1. CASE u = t
    BY <1>4, <1>7, <1>9, <1>10, <1>11, <2>1, SMTT(30) DEF Has
  <2>2. CASE u # t /\ P(u) = P(t)
    <3>1. thread'[u] = thread[u] /\ ready'[P(u)] = R /\ ptx_cache'[P(u)] = Y
      BY <1>7, <1>10, <1>11, <2>2, Zenon
    <3>2. thread[u].cell \notin ready[P(u)]
      BY <1>14, <2>2, <3>1, Zenon DEF Enters
    <3>3. PICK e \in ptx_cache[P(t)] : e.text = thread[u].text /\ e.cell = thread[u].cell
      BY <1>14, <2>2, <3>1, <3>2, ZenonT(40) DEF Inv, LoadInv, HasEntry
    <3>4. e \in C \/ (e.text = thread[t].text /\ e.cell = cell)
      BY <2>2, <3>2, <3>3, Zenon DEF Enters
    <3>5. Has(Y, e.text, e.cell)
      BY <1>9, <3>4, ZenonT(40)
    <3> QED BY <3>1, <3>3, <3>5, Zenon DEF Has
  <2>3. CASE P(u) # P(t)
    <3>1. u # t /\ thread'[u] = thread[u] /\ ready'[P(u)] = ready[P(u)] /\ ptx_cache'[P(u)] = ptx_cache[P(u)]
      BY <1>7, <1>10, <1>11, <2>3, Zenon
    <3> QED BY <1>14, <3>1 DEF Inv, LoadInv, HasEntry
  <2> QED BY <2>1, <2>2, <2>3, ZenonT(40)
<1>15. ASSUME NEW u \in Threads, thread'[u].pc = "loading"
       PROVE  u # t /\ thread'[u] = thread[u] /\ thread'[u].cell \notin ready'[P(u)]
  <2>1. u # t /\ thread'[u] = thread[u]
    BY <1>4, <1>7, <1>15, Zenon
  <2>2. thread[u].cell \notin ready[P(u)]
    BY <1>15, <2>1, Zenon DEF Inv, LoadInv, At
  <2>3. ready'[P(u)] \subseteq ready[P(u)]
    BY <1>10, <1>11, Zenon DEF Enters
  <2> QED BY <2>1, <2>2, <2>3, Zenon
<1>16. \A q \in Processes : /\ IsFiniteSet(ptx_cache'[q])
                            /\ \A e, f \in ptx_cache'[q] : e.text = f.text => e = f
  BY <1>9, <1>11 DEF Inv, LoadInv, Wellformed
<1>17. ASSUME NEW u \in Threads, NEW w \in Threads, u # w, P(u) = P(w),
              thread'[u].pc = "loading", thread'[w].pc = "loading"
       PROVE  thread'[u].cell # thread'[w].cell
  <2>1. thread'[u] = thread[u] /\ thread'[w] = thread[w]
    BY <1>15, <1>17, Zenon
  <2> QED BY <1>17, <2>1, Zenon DEF Inv, LoadInv, At
<1>18. LoadInv'
  BY <1>13, <1>14, <1>15, <1>16, <1>17, ZenonT(40) DEF LoadInv, HasEntry, At
<1> QED BY <1>6, <1>12, <1>18, CellMove, Zenon DEF Enters

LEMMA FindCellKeeps ==
  ASSUME Inv, NEW t \in Threads, FindCell(t)
  PROVE  Inv'
<1>1. PICK p \in Processes : p = P(t)
  BY ThreadFacts, Zenon
<1>2. PICK text : text = thread[t].text
  BY Zenon
<1>3. PICK at : at = {e \in ptx_cache[p] : TextKey(e.text) = TextKey(text)}
  BY Zenon
<1>4. Wellformed(ptx_cache[p]) /\ ready[p] \in SUBSET Nat
  BY CacheFacts, Zenon
<1>5. At(t, "load") /\ UNCHANGED <<mode, engine_cache, spec_cache, disk>>
  BY Zenon DEF FindCell
<1>6. CASE at = {} /\ ready' = [ready EXCEPT ![p] = @ \cap Held(p, Evicted(p))]
           /\ ptx_cache' = [ptx_cache EXCEPT ![p] = PushFront(Evicted(p), text, NewCell(Held(p, Evicted(p))))]
           /\ thread' = [thread EXCEPT ![t].pc = "init", ![t].cell = NewCell(Held(p, Evicted(p)))]
  <2>1. PICK C : C = Evicted(p)
    BY Zenon
  <2>2. C \subseteq ptx_cache[p] /\ \A e \in ptx_cache[p] : e.cell \in ready[p] \/ e \in C
    BY <2>1, Zenon DEF Evicted, Evictable
  <2>3. Wellformed(C)
    BY <1>4, <2>2, FS_Subset, Zenon DEF Wellformed
  <2>4. /\ IsFiniteSet(Held(p, C)) /\ \A u \in Threads : P(u) = p => thread[u].cell \in Held(p, C)
    BY <2>3, HeldIs, Zenon DEF Wellformed
  <2>5. PICK cell : cell = NewCell(Held(p, C))
    BY Zenon
  <2>6. cell \in Nat
    BY <2>4, <2>5, NewCellIs, Zenon
  <2>7. \A e \in C : e.text # text
    BY <1>3, <1>6, <2>2, Zenon
  <2>8. PICK R : R = ready[p] \cap Held(p, C)
    BY Zenon
  <2>9. ready' = [ready EXCEPT ![p] = R] /\ R \subseteq ready[p]
    BY <1>6, <2>1, <2>8, Zenon
  <2>10. \A u \in Threads : P(u) = p /\ thread[u].cell \in ready[p] => thread[u].cell \in R
    BY <2>4, <2>8, Zenon
  <2>11. Enters(t, C, cell, R)
    BY <1>1, <1>2, <1>5, <1>6, <2>1, <2>2, <2>3, <2>5, <2>6, <2>7, <2>9, <2>10, ZenonT(40) DEF Enters
  <2> QED BY <2>11, EnterKeeps, Zenon
<1>7. ASSUME NEW e \in at, e.text = text, UNCHANGED ready,
             ptx_cache' = [ptx_cache EXCEPT ![p] = PushFront(ptx_cache[p] \ {e}, text, e.cell)],
             thread' = [thread EXCEPT ![t].pc = "init", ![t].cell = e.cell]
      PROVE  Inv'
  <2>1. PICK C : C = ptx_cache[p] \ {e}
    BY Zenon
  <2>2. e \in ptx_cache[p] /\ e.cell \in Nat
    BY <1>3, <1>4, Zenon DEF Wellformed, EntryType
  <2>3. Wellformed(C)
    BY <1>4, <2>1, FS_Subset, Zenon DEF Wellformed
  <2>4. \A f \in C : f.text # text
    BY <1>4, <1>7, <2>1, <2>2, Zenon DEF Wellformed
  <2>5. ready' = [ready EXCEPT ![p] = ready[p]]
    BY <1>7, Zenon DEF Inv, TypeInv
  <2>6. Enters(t, C, e.cell, ready[p])
    BY <1>1, <1>2, <1>5, <1>7, <2>1, <2>2, <2>3, <2>4, <2>5, ZenonT(40) DEF Enters
  <2> QED BY <2>6, EnterKeeps, Zenon
<1>8. CASE Goto(t, "uncached") /\ UNCHANGED <<ptx_cache, ready>>
  <2>1. PICK r : /\ thread' = [thread EXCEPT ![t] = r] /\ \E L : r \in ThreadType(L)
                 /\ r.pc = "uncached" /\ r.spec = thread[t].spec /\ r.text = thread[t].text
                 /\ r.cell = thread[t].cell
    BY <1>8, GotoIs, Zenon DEF Pcs
  <2>2. /\ SpecOf(t) \in Specs /\ thread[t].cell = None
        /\ Distinct => thread[t].text = Text(P(t), SpecOf(t))
    BY <1>5, ThreadFacts, Zenon DEF Fits, Carries, SpecOf, At
  <2>3. Moves(t, r)
    BY <1>5, <2>1, <2>2, Zenon DEF Moves, Fits, SpecOf, disk
  <2> QED BY <1>5, <1>8, <2>1, <2>3, QuietMove, Zenon DEF memory, disk, Inv, TypeInv
<1> QED BY <1>1, <1>2, <1>3, <1>6, <1>7, <1>8, ZenonT(40) DEF FindCell

LEMMA InitCellKeeps ==
  ASSUME Inv, NEW t \in Threads, InitCell(t)
  PROVE  Inv'
<1>1. PICK L : thread \in [Threads -> ThreadType(L)]
  BY Zenon DEF Inv, TypeInv
<1>2. PICK cell : cell = thread[t].cell
  BY Zenon
<1>3. /\ At(t, "init") /\ Loading(P(t), cell) = {} /\ UNCHANGED <<mode, memory, disk>>
      /\ P(t) \in Processes
  BY <1>2, ThreadFacts, Zenon DEF InitCell
<1>4. /\ SpecOf(t) \in Specs /\ cell \in Nat
      /\ Distinct => thread[t].text = Text(P(t), SpecOf(t))
  BY <1>2, <1>3, ThreadFacts, Zenon DEF Fits, Carries, SpecOf, At
<1>5. CASE cell \in ready[P(t)]
  <2>1. PICK r : r = [thread[t] EXCEPT !.pc = "insert", !.cell = None]
    BY Zenon
  <2>2. thread' = [thread EXCEPT ![t] = r]
    BY <1>1, <1>2, <1>5, <2>1, Zenon DEF InitCell
  <2>3. /\ r \in ThreadType(L) /\ r.pc = "insert" /\ r.spec = thread[t].spec
        /\ r.text = thread[t].text /\ r.cell = None
    BY <1>1, <2>1, ZenonT(40) DEF ThreadType, Pcs
  <2>4. Moves(t, r)
    BY <1>3, <1>4, <2>2, <2>3, Zenon DEF Moves, Fits, SpecOf, disk
  <2> QED BY <1>3, <2>3, <2>4, QuietMove, Zenon DEF disk, Inv, TypeInv
<1>6. CASE cell \notin ready[P(t)]
  <2>1. PICK r : r = [thread[t] EXCEPT !.pc = "loading"]
    BY Zenon
  <2>2. thread' = [thread EXCEPT ![t] = r]
    BY <1>1, <1>2, <1>6, <2>1, Zenon DEF InitCell
  <2>3. /\ r \in ThreadType(L) /\ r.pc = "loading" /\ r.spec = thread[t].spec
        /\ r.text = thread[t].text /\ r.cell = cell
    BY <1>1, <1>2, <2>1 DEF ThreadType, Pcs
  <2>4. Moves(t, r)
    BY <1>3, <1>4, <2>2, <2>3, Zenon DEF Moves, Fits, SpecOf, disk
  <2>5. thread'[t] = r /\ \A u \in Threads : u # t => thread'[u] = thread[u]
    BY <1>1, <2>2, Zenon
  <2>6. \A u : P(u)' = P(u)
    BY <1>3, Zenon DEF P
  <2>7. ptx_cache' = ptx_cache /\ ready' = ready
    BY <1>3, Zenon DEF memory
  <2>8. ASSUME NEW u \in Threads
        PROVE  /\ thread'[u].pc \in {"init", "loading"} /\ thread'[u].cell \notin ready[P(u)]
                    => \E e \in ptx_cache[P(u)] : e.text = thread'[u].text /\ e.cell = thread'[u].cell
               /\ thread'[u].pc = "loading" => thread'[u].cell \notin ready[P(u)]
    <3>1. CASE u = t
      <4>1. HasEntry(t)
        BY <1>2, <1>3, <1>6, ZenonT(40) DEF Inv, LoadInv, At
      <4> QED BY <1>2, <1>6, <2>3, <2>5, <3>1, <4>1, ZenonT(40) DEF HasEntry
    <3>2. CASE u # t
      BY <2>5, <3>2 DEF Inv, LoadInv, At, HasEntry
    <3> QED BY <3>1, <3>2, Zenon
  <2>9. ASSUME NEW u \in Threads, u # t, P(u) = P(t), thread[u].pc = "loading"
        PROVE  thread[u].cell # cell
    BY <1>3, <2>9, Zenon DEF Loading, At
  <2>10. ASSUME NEW u \in Threads, NEW w \in Threads, u # w, P(u) = P(w),
                thread'[u].pc = "loading", thread'[w].pc = "loading"
         PROVE  thread'[u].cell # thread'[w].cell
    <3>1. CASE u = t
      BY <2>3, <2>5, <2>9, <2>10, <3>1, ZenonT(40)
    <3>2. CASE w = t
      BY <2>3, <2>5, <2>9, <2>10, <3>2, ZenonT(40)
    <3>3. CASE u # t /\ w # t
      BY <2>5, <2>10, <3>3, ZenonT(40) DEF Inv, LoadInv, At
    <3> QED BY <3>1, <3>2, <3>3, Zenon
  <2>11. \A q \in Processes : /\ IsFiniteSet(ptx_cache[q])
                              /\ \A e, f \in ptx_cache[q] : e.text = f.text => e = f
    BY Zenon DEF Inv, LoadInv
  <2>12. LoadInv'
    BY <2>6, <2>7, <2>8, <2>10, <2>11, ZenonT(40) DEF LoadInv, HasEntry, At
  <2> QED BY <1>3, <2>4, <2>7, <2>12, CellMove, Zenon DEF memory, Inv, TypeInv, EntryType
<1> QED BY <1>5, <1>6, Zenon

LEMMA LoadKeeps ==
  ASSUME Inv, NEW t \in Threads, Load(t)
  PROVE  Inv'
<1>1. PICK L : thread \in [Threads -> ThreadType(L)]
  BY Zenon DEF Inv, TypeInv
<1>2. PICK cell : cell = thread[t].cell
  BY Zenon
<1>3. /\ thread[t].pc \in {"loading", "uncached"} /\ P(t) \in Processes
      /\ UNCHANGED <<mode, engine_cache, spec_cache, ptx_cache, disk>>
  BY ThreadFacts, Zenon DEF Load
<1>4. /\ SpecOf(t) \in Specs /\ cell \in Nat \cup {None} /\ (At(t, "loading") \/ cell = None)
      /\ Distinct => thread[t].text = Text(P(t), SpecOf(t))
  BY <1>2, <1>3, ThreadFacts, Zenon DEF Fits, Carries, SpecOf, At
<1>5. PICK r : r = [thread[t] EXCEPT !.pc = "insert", !.cell = None]
  BY Zenon
<1>6. thread' = [thread EXCEPT ![t] = r]
  BY <1>1, <1>5, ZenonT(40) DEF Load
<1>7. /\ r \in ThreadType(L) /\ r.pc = "insert" /\ r.spec = thread[t].spec
      /\ r.text = thread[t].text /\ r.cell = None
  BY <1>1, <1>5, ZenonT(40) DEF ThreadType, Pcs
<1>8. Moves(t, r)
  BY <1>3, <1>4, <1>6, <1>7, ZenonT(40) DEF Moves, Fits, SpecOf, disk
<1>9. PICK R : R = ready[P(t)] \cup ({cell} \ {None})
  BY Zenon
<1>10. ready' = [ready EXCEPT ![P(t)] = R]
  BY <1>2, <1>9, Zenon DEF Load
<1>11. ready[P(t)] \in SUBSET Nat
  BY <1>3, CacheFacts, Zenon
<1>12. ready' \in [Processes -> SUBSET Nat] /\ ptx_cache' \in [Processes -> SUBSET EntryType]
  BY <1>3, <1>4, <1>9, <1>10, <1>11, ZenonT(40) DEF Inv, TypeInv, EntryType
<1>13. \A q \in Processes : ready'[q] = IF q = P(t) THEN R ELSE ready[q]
  BY <1>3, <1>10, ZenonT(40) DEF Inv, TypeInv
<1>14. thread'[t] = r /\ \A u \in Threads : u # t => thread'[u] = thread[u]
  BY <1>1, <1>6, Zenon
<1>15. (\A u : P(u)' = P(u)) /\ \A u \in Threads : P(u) \in Processes
  BY <1>3, ModeFacts, Zenon DEF P, Inv
<1>16. ASSUME NEW u \in Threads
       PROVE  /\ thread'[u].pc \in {"init", "loading"} /\ thread'[u].cell \notin ready'[P(u)]
                   => \E e \in ptx_cache[P(u)] : e.text = thread'[u].text /\ e.cell = thread'[u].cell
              /\ thread'[u].pc = "loading" => thread'[u].cell \notin ready'[P(u)]
  <2>1. CASE u = t
    BY <1>7, <1>14, <2>1, Zenon
  <2>2. CASE u # t
    <3>1. thread'[u] = thread[u] /\ ready[P(u)] \subseteq ready'[P(u)]
      BY <1>9, <1>13, <1>14, <1>15, <2>2, ZenonT(40)
    <3>2. thread[u].pc \in {"init", "loading"} /\ thread[u].cell \notin ready[P(u)] => HasEntry(u)
      BY Zenon DEF Inv, LoadInv
    <3>3. ASSUME thread[u].pc = "loading" PROVE thread[u].cell \notin ready'[P(u)]
      <4>1. thread[u].cell \notin ready[P(u)]
        BY <3>3, Zenon DEF Inv, LoadInv, At
      <4>2. P(u) = P(t) /\ cell # None => thread[u].cell # cell
        BY <1>2, <1>4, <2>2, <3>3, ZenonT(40) DEF Inv, LoadInv, At
      <4> QED BY <1>9, <1>13, <1>15, <4>1, <4>2, ZenonT(40)
    <3> QED BY <3>1, <3>2, <3>3, Zenon DEF HasEntry
  <2> QED BY <2>1, <2>2, Zenon
<1>17. ASSUME NEW u \in Threads, NEW w \in Threads, u # w, P(u) = P(w),
              thread'[u].pc = "loading", thread'[w].pc = "loading"
       PROVE  thread'[u].cell # thread'[w].cell
  <2>1. thread'[u] = thread[u] /\ thread'[w] = thread[w]
    BY <1>7, <1>14, <1>17, Zenon
  <2> QED BY <1>17, <2>1, Zenon DEF Inv, LoadInv, At
<1>18. \A q \in Processes : /\ IsFiniteSet(ptx_cache[q])
                            /\ \A e, f \in ptx_cache[q] : e.text = f.text => e = f
  BY Zenon DEF Inv, LoadInv
<1>19. LoadInv'
  BY <1>3, <1>15, <1>16, <1>17, <1>18, ZenonT(40) DEF LoadInv, HasEntry, At
<1> QED BY <1>3, <1>8, <1>12, <1>19, CellMove, ZenonT(40)

-----------------------------------------------------------------------------
(***************************************************************************)
(* A process forgets.                                                      *)
(***************************************************************************)
\* The threads of p are in no call and its memory is empty; the others go on.
LEMMA ForgetKeeps ==
  ASSUME Inv, NEW p \in Processes, NoMemory(p), UNCHANGED <<mode, files, clock>>,
         \E L : thread' \in [Threads -> ThreadType(L)],
         \A t \in Threads : P(t) = p => thread'[t].pc = "idle" /\ thread'[t].cell = None,
         \A t \in Threads : P(t) # p => thread'[t] = thread[t],
         \A q \in Processes : q # p => (q \in opened' <=> q \in opened)
  PROVE  Inv'
<1>1. \A u : P(u)' = P(u)
  BY Zenon DEF P
<1>2. \A t \in Threads : P(t) \in Processes
  BY ModeFacts, Zenon DEF Inv
<1>3. /\ Keys' = Keys /\ DiskKeys' = DiskKeys /\ FileType' = FileType
  BY DEF Keys, Key, DiskKeys, FileType
<1>4. PICK none : none = [k \in Keys |-> None]
  BY Zenon
<1>5. none \in [Keys -> MaybeText] /\ \A s \in Specs : none[Key(s)] = None
  BY <1>4, Zenon DEF MaybeText, Keys
<1>6. /\ engine_cache' = [engine_cache EXCEPT ![p] = none]
      /\ spec_cache' = [spec_cache EXCEPT ![p] = <<>>]
      /\ ptx_cache' = [ptx_cache EXCEPT ![p] = {}] /\ ready' = [ready EXCEPT ![p] = {}]
  BY <1>4, Zenon DEF NoMemory
<1>7. /\ engine_cache' \in [Processes -> [Keys -> MaybeText]]
      /\ spec_cache' \in [Processes -> Seq([key : Keys, material : Specs, text : MaybeText])]
      /\ ptx_cache' \in [Processes -> SUBSET [text : MaybeText, cell : Nat, age : Nat]]
      /\ ready' \in [Processes -> SUBSET Nat]
  <2>1. engine_cache' \in [Processes -> [Keys -> MaybeText]]
    BY <1>5, <1>6, Zenon DEF Inv, TypeInv
  <2>2. spec_cache' \in [Processes -> Seq([key : Keys, material : Specs, text : MaybeText])]
    BY <1>6, EmptySeq, Zenon DEF Inv, TypeInv
  <2>3. ptx_cache' \in [Processes -> SUBSET [text : MaybeText, cell : Nat, age : Nat]]
    BY <1>6, Zenon DEF Inv, TypeInv
  <2>4. ready' \in [Processes -> SUBSET Nat]
    BY <1>6, Zenon DEF Inv, TypeInv
  <2> QED BY <2>1, <2>2, <2>3, <2>4, Zenon
<1>8. TypeInv'
  BY <1>3, <1>7, Zenon DEF Inv, TypeInv
<1>9. \A q \in Processes :
        /\ engine_cache'[q] = IF q = p THEN none ELSE engine_cache[q]
        /\ spec_cache'[q] = IF q = p THEN <<>> ELSE spec_cache[q]
        /\ ptx_cache'[q] = IF q = p THEN {} ELSE ptx_cache[q]
        /\ ready'[q] = IF q = p THEN {} ELSE ready[q]
  BY <1>6, Zenon DEF Inv, TypeInv
<1>10. ASSUME NEW t \in Threads PROVE Fits(t, thread'[t], opened')
  <2>1. CASE P(t) = p
    BY <2>1, Zenon DEF Fits, Carries
  <2>2. CASE P(t) # p
    <3>1. Fits(t, thread[t], opened) /\ thread'[t] = thread[t] /\ (P(t) \in opened' <=> P(t) \in opened)
      BY <1>2, <2>2, ThreadFacts, Zenon
    <3> QED BY <3>1, Zenon DEF Fits, Carries
  <2> QED BY <2>1, <2>2, Zenon
<1>11. ASSUME NEW t \in Threads PROVE Fits(t, thread[t], opened)'
  BY <1>10, Zenon DEF Fits, Carries, Distinct, P, Text
<1>12. OneOpener'
  BY <1>1, <1>2, Zenon DEF Inv, ThreadInv, OneOpener, At
<1>13. ASSUME Distinct, NEW q \in Processes
       PROVE  /\ \A e \in Range(spec_cache'[q]) : e.text = Text(q, e.material)
              /\ \A s \in Specs : mode.per_engine => engine_cache'[q][Key(s)] \in {None, Text(q, s)}
  <2>1. CASE q = p
    BY <1>5, <1>9, <2>1, SMTT(30) DEF Range
  <2>2. CASE q # p
    BY <1>9, <1>13, <2>2, SMTT(30) DEF Inv, MemoryInv
  <2> QED BY <2>1, <2>2, Zenon
<1>14. MemoryInv'
  BY <1>13, SMTT(30) DEF Inv, MemoryInv, Distinct, Text, Key, DiskKey, Digest
<1>15. \A q \in Processes : /\ IsFiniteSet(ptx_cache'[q])
                            /\ \A e, f \in ptx_cache'[q] : e.text = f.text => e = f
  BY <1>9, FS_EmptySet, Zenon DEF Inv, LoadInv
<1>16. ASSUME NEW t \in Threads, thread'[t].pc \in {"init", "loading"}
       PROVE  /\ P(t) # p /\ thread'[t] = thread[t]
              /\ ptx_cache'[P(t)] = ptx_cache[P(t)] /\ ready'[P(t)] = ready[P(t)]
  BY <1>2, <1>9, <1>16, ZenonT(40)
<1>17. ASSUME NEW t \in Threads
       PROVE  /\ thread'[t].pc \in {"init", "loading"} /\ thread'[t].cell \notin ready'[P(t)]
                   => \E e \in ptx_cache'[P(t)] : e.text = thread'[t].text /\ e.cell = thread'[t].cell
              /\ thread'[t].pc = "loading" => thread'[t].cell \notin ready'[P(t)]
  BY <1>16 DEF Inv, LoadInv, HasEntry, At
<1>18. ASSUME NEW u \in Threads, NEW w \in Threads, u # w, P(u) = P(w),
              thread'[u].pc = "loading", thread'[w].pc = "loading"
       PROVE  thread'[u].cell # thread'[w].cell
  BY <1>16, <1>18 DEF Inv, LoadInv, At
<1>19. LoadInv'
  BY <1>1, <1>15, <1>17, <1>18, ZenonT(40) DEF LoadInv, HasEntry, At
<1> QED BY <1>8, <1>11, <1>12, <1>14, <1>19, ZenonT(40) DEF Inv, ThreadInv

LEMMA ClearKeeps ==
  ASSUME Inv, NEW p \in Processes, Clear(p)
  PROVE  Inv'
<1>1. \A t \in Threads : P(t) = p => thread[t].pc = "idle" /\ thread[t].cell = None
  BY ThreadFacts, Zenon DEF Clear, Fits, At
<1>2. NoMemory(p) /\ UNCHANGED <<mode, files, clock, opened, thread>>
  BY Zenon DEF Clear, disk
<1> QED BY <1>1, <1>2, ForgetKeeps, Zenon DEF Inv, TypeInv

LEMMA CrashKeeps ==
  ASSUME Inv, NEW p \in Processes, Crash(p)
  PROVE  Inv'
<1>1. /\ NoMemory(p) /\ UNCHANGED <<mode, files, clock>> /\ opened' = opened \ {p}
      /\ thread' = [t \in Threads |-> IF P(t) = p THEN Idle ELSE thread[t]]
  BY Zenon DEF Crash
<1>2. PICK L : thread \in [Threads -> ThreadType(L)]
  BY Zenon DEF Inv, TypeInv
<1>3. PICK M : Idle \in ThreadType(M)
  BY IdleFits, Zenon
<1>4. ThreadType(L) \subseteq ThreadType(L \cup M) /\ ThreadType(M) \subseteq ThreadType(L \cup M)
  BY Zenon DEF ThreadType
<1>5. thread' \in [Threads -> ThreadType(L \cup M)]
  BY <1>1, <1>2, <1>3, <1>4, Zenon
<1> QED BY <1>1, <1>5, IdleFits, ForgetKeeps, Zenon

\* With no thread in a call and empty caches only the directory can be wrong.
LEMMA FreshStart ==
  ASSUME mode \in Modes, thread = [t \in Threads |-> Idle], clock \in Nat,
         engine_cache = [p \in Processes |-> [k \in Keys |-> None]],
         spec_cache = [p \in Processes |-> <<>>],
         ptx_cache = [p \in Processes |-> {}], ready = [p \in Processes |-> {}],
         files \in [DiskKeys -> {None} \cup FileType],
         Distinct => \A p \in Processes, s \in Specs :
           mode.disk /\ files[DiskKey(p, s)] # None
             => files[DiskKey(p, s)].digest = Digest(DiskKey(p, s), Text(p, s))
  PROVE  Inv
<1>1. \E L : thread \in [Threads -> ThreadType(L)]
  BY IdleFits, Zenon
<1>2. /\ engine_cache \in [Processes -> [Keys -> MaybeText]]
      /\ spec_cache \in [Processes -> Seq([key : Keys, material : Specs, text : MaybeText])]
      /\ ptx_cache \in [Processes -> SUBSET [text : MaybeText, cell : Nat, age : Nat]]
      /\ ready \in [Processes -> SUBSET Nat]
  BY DEF MaybeText
<1>3. TypeInv
  BY <1>1, <1>2, Zenon DEF TypeInv
<1>4. ThreadInv
  BY IdleFits, Zenon DEF ThreadInv, OneOpener, At
<1>5. MemoryInv
  BY DEF MemoryInv, Range, Keys
<1>6. LoadInv
  BY IdleFits, FS_EmptySet, ModeFacts, <1>3, Zenon DEF LoadInv, At
<1> QED BY <1>3, <1>4, <1>5, <1>6, Zenon DEF Inv

LEMMA PowerLossKeeps ==
  ASSUME Inv, PowerLoss
  PROVE  Inv'
<1>1. mode' = mode /\ clock' = clock
  BY Zenon DEF PowerLoss
<1>2. /\ Keys' = Keys /\ DiskKeys' = DiskKeys /\ FileType' = FileType
  BY <1>1 DEF Keys, Key, DiskKeys, FileType
<1>3. PICK lost \in SUBSET Listed :
        files' = [k \in DiskKeys |-> IF k \in lost THEN [files[k] EXCEPT !.body = None] ELSE files[k]]
  BY Zenon DEF PowerLoss
<1>4. ASSUME NEW k \in DiskKeys
      PROVE  /\ files'[k] \in {None} \cup FileType
             /\ files'[k] # None => files[k] # None /\ files'[k].digest = files[k].digest
  <2>1. CASE k \in lost
    <3>1. files[k] # None /\ files[k] \in FileType
      BY <2>1, Zenon DEF Listed, Inv, TypeInv
    <3>2. files'[k] = [files[k] EXCEPT !.body = None]
      BY <1>3, <2>1, Zenon
    <3> QED BY <3>1, <3>2, Zenon DEF FileType, MaybeText
  <2>2. CASE k \notin lost
    BY <1>3, <2>2, Zenon DEF Inv, TypeInv
  <2> QED BY <2>1, <2>2, Zenon
<1>5. files' \in [DiskKeys -> {None} \cup FileType]
  <2>1. PICK f : f = files'
    BY Zenon
  <2>2. f = [k \in DiskKeys |-> f[k]]
    BY <1>3, <2>1, Zenon
  <2>3. \A k \in DiskKeys : f[k] \in {None} \cup FileType
    BY <1>4, <2>1, Zenon
  <2> QED BY <2>1, <2>2, <2>3, Zenon
<1>6. ASSUME Distinct, NEW p \in Processes, NEW s \in Specs, mode.disk, files'[DiskKey(p, s)] # None
      PROVE  files'[DiskKey(p, s)].digest = Digest(DiskKey(p, s), Text(p, s))
  <2>1. DiskKey(p, s) \in DiskKeys
    BY ModeFacts, Zenon DEF Inv
  <2> QED BY <1>4, <1>6, <2>1, Zenon DEF Inv, MemoryInv
<1>7. (Distinct => \A p \in Processes, s \in Specs :
         mode.disk /\ files[DiskKey(p, s)] # None
           => files[DiskKey(p, s)].digest = Digest(DiskKey(p, s), Text(p, s)))'
  BY <1>1, <1>6, Zenon DEF Distinct, DiskKey, Key, Digest, Text
<1>8. (/\ mode \in Modes /\ thread = [t \in Threads |-> Idle] /\ clock \in Nat
       /\ engine_cache = [p \in Processes |-> [k \in Keys |-> None]]
       /\ spec_cache = [p \in Processes |-> <<>>]
       /\ ptx_cache = [p \in Processes |-> {}] /\ ready = [p \in Processes |-> {}]
       /\ files \in [DiskKeys -> {None} \cup FileType])'
  BY <1>1, <1>2, <1>5, Zenon DEF PowerLoss, Inv, TypeInv
<1> QED BY <1>7, <1>8, FreshStart, PTL

LEMMA InitInv == Init => Inv
<1> SUFFICES ASSUME Init PROVE Inv
  BY Zenon
<1>1. files \in [DiskKeys -> {None} \cup FileType]
  BY Zenon DEF Init
<1>2. ASSUME NEW p \in Processes, NEW s \in Specs, mode \in ModeType PROVE files[DiskKey(p, s)] = None
  <2>1. DiskKey(p, s) \in DiskKeys
    BY <1>2, Zenon DEF DiskKey, DiskKeys, Keys, ModeType
  <2> QED BY <2>1, Zenon DEF Init
<1>3. mode \in ModeType
  BY KernelCacheAssumption, Zenon DEF Init
<1> QED BY <1>1, <1>2, <1>3, FreshStart, Zenon DEF Init

-----------------------------------------------------------------------------
(***************************************************************************)
(* The theorems.                                                           *)
(***************************************************************************)
LEMMA StepInv ==
  ASSUME Inv, NEW t \in Threads, Step(t)
  PROVE  Inv'
<1>1. CASE EngineLookup(t)
  BY <1>1, EngineLookupKeeps, Zenon
<1>2. CASE SpecLookup(t)
  BY <1>2, SpecLookupKeeps, ZenonT(40)
<1>3. CASE InsertSpec(t)
  BY <1>3, InsertSpecKeeps, Zenon
<1>4. CASE Seed(t)
  BY <1>4, SeedKeeps, Zenon
<1>5. CASE Return(t)
  BY <1>5, EndsKeep, ZenonT(40) DEF Return
<1>6. CASE DiskOpen(t)
  BY <1>6, DiskOpenKeeps, Zenon
<1>7. CASE DiskOpenFails(t)
  BY <1>7, DiskOpenFailsKeeps, Zenon
<1>8. CASE SweepOne(t)
  BY <1>8, SweepOneKeeps, Zenon
<1>9. CASE SweepFails(t)
  BY <1>9, SweepFailsKeeps, Zenon
<1>10. CASE Lookup(t)
  BY <1>10, LookupKeeps, Zenon
<1>11. CASE Codegen(t)
  BY <1>11, CodegenKeeps, Zenon
<1>12. CASE CodegenFails(t)
  BY <1>12, EndsKeep, ZenonT(40) DEF CodegenFails, Error
<1>13. CASE WriteTemp(t)
  BY <1>13, WriteTempKeeps, Zenon
<1>14. CASE Rename(t)
  BY <1>14, RenameKeeps, Zenon
<1>15. CASE StoreFails(t)
  BY <1>15, StoreFailsKeeps, Zenon
<1>16. CASE Bounds(t)
  BY <1>16, BoundsKeeps, Zenon
<1>17. CASE FindCell(t)
  BY <1>17, FindCellKeeps, Zenon
<1>18. CASE InitCell(t)
  BY <1>18, InitCellKeeps, Zenon
<1>19. CASE Load(t)
  BY <1>19, LoadKeeps, Zenon
<1>20. CASE LoadFails(t)
  BY <1>20, EndsKeep, Zenon DEF LoadFails, Error
<1> QED BY <1>1, <1>2, <1>3, <1>4, <1>5, <1>6, <1>7, <1>8, <1>9, <1>10, <1>11, <1>12, <1>13,
           <1>14, <1>15, <1>16, <1>17, <1>18, <1>19, <1>20, SMTT(30) DEF Step

LEMMA StutterInv ==
  ASSUME Inv, UNCHANGED vars
  PROVE  Inv'
<1>1. mode' = mode /\ thread' = thread /\ UNCHANGED <<memory, disk>>
  BY Zenon DEF vars
<1>2. \A u : P(u)' = P(u)
  BY <1>1, Zenon DEF P
<1>3. TypeInv'
  <2>1. Keys' = Keys /\ DiskKeys' = DiskKeys /\ FileType' = FileType
    BY <1>1 DEF Keys, Key, DiskKeys, FileType
  <2> QED BY <1>1, <2>1, Zenon DEF Inv, TypeInv, memory, disk
<1>4. ThreadInv'
  <2>1. \A t \in Threads : Fits(t, thread[t], opened)'
    BY <1>1, Zenon DEF Inv, ThreadInv, Fits, Carries, Distinct, P, Text, disk
  <2>2. OneOpener'
    BY <1>1, <1>2, Zenon DEF Inv, ThreadInv, OneOpener, At, disk
  <2> QED BY <2>1, <2>2, Zenon DEF ThreadInv
<1>5. MemoryInv'
  BY <1>1, MemoryKept, Zenon DEF Inv, disk
<1>6. LoadInv'
  BY <1>1, <1>2, Zenon DEF Inv, LoadInv, HasEntry, At, memory
<1> QED BY <1>3, <1>4, <1>5, <1>6, Zenon DEF Inv

LEMMA NextInv == Inv /\ [Next]_vars => Inv'
<1> SUFFICES ASSUME Inv, [Next]_vars PROVE Inv'
  BY Zenon
<1>1. ASSUME NEW t \in Threads, Step(t) PROVE Inv'
  BY <1>1, StepInv, Zenon
<1>2. ASSUME NEW t \in Threads, NEW s \in Specs, Call(t, s) PROVE Inv'
  BY <1>2, CallKeeps, Zenon
<1>3. ASSUME NEW p \in Processes, Clear(p) \/ Crash(p) PROVE Inv'
  BY <1>3, ClearKeeps, CrashKeeps, Zenon
<1>4. CASE PowerLoss
  BY <1>4, PowerLossKeeps, Zenon
<1>5. CASE UNCHANGED vars
  BY <1>5, StutterInv, Zenon
<1> QED BY <1>1, <1>2, <1>3, <1>4, <1>5, ZenonT(40) DEF Next

\* The inductive invariant: types, what threads carry, what the caches and the
\* directory hold, and which cells are being filled.
THEOREM CachesSound == Spec => []Inv
<1>1. Init => Inv
  BY InitInv, Zenon
<1>2. Inv /\ [Next]_vars => Inv'
  BY NextInv, Zenon
<1> QED BY <1>1, <1>2, PTL DEF Spec

\* get_or_build_with_disk, SpecCache::get, disk_cache lookup and store: whatever
\* mix of caches serves a call, after evictions, faults, crashes and torn files,
\* and next to processes of another version, it returns the kernel of its own spec
\* from its own code generator, unless two specs have one hash where only the hash
\* is compared.
THEOREM KernelsRight == Spec => []RightKernel
<1>1. Inv => RightKernel
  BY Zenon DEF Inv, ThreadInv, RightKernel, Right, Fits, Carries, Distinct, At, SpecOf
<1> QED BY <1>1, CachesSound, PTL

\* from_ptx, evict_lru_ready: two threads of a process never load the same text at
\* the same time, for every capacity of the cache, because the entry of a cell that
\* is still empty is not evicted.
THEOREM CompiledOnce == Spec => []LoadedOnce
<1>1. Inv => LoadedOnce
  <2> SUFFICES ASSUME Inv, NEW t \in Threads, NEW u \in Threads, t # u, P(t) = P(u),
                      At(t, "loading"), At(u, "loading"), thread[t].text = thread[u].text
               PROVE  FALSE
    BY Zenon DEF LoadedOnce
  <2>1. HasEntry(t) /\ HasEntry(u) /\ thread[t].cell # thread[u].cell /\ P(t) \in Processes
    BY ThreadFacts, Zenon DEF Inv, LoadInv, At
  <2>2. PICK e \in ptx_cache[P(t)] : e.text = thread[t].text /\ e.cell = thread[t].cell
    BY <2>1, Zenon DEF HasEntry
  <2>3. PICK f \in ptx_cache[P(t)] : f.text = thread[u].text /\ f.cell = thread[u].cell
    BY <2>1, Zenon DEF HasEntry
  <2>4. e = f
    BY <2>1, <2>2, <2>3, Zenon DEF Inv, LoadInv
  <2> QED BY <2>1, <2>2, <2>3, <2>4, Zenon
<1> QED BY <1>1, CachesSound, PTL
=============================================================================
