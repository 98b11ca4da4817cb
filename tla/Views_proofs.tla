---------------------------- MODULE Views_proofs ----------------------------
(***************************************************************************)
(* Materialized views for any number of tables, views over views, files    *)
(* and statements.  The rows of a view are what its query returned when    *)
(* its definition was written; a refresh from the added files is right     *)
(* because paths are never used twice, so that the files of a base table   *)
(* that are still there under a recorded path are the files they were.     *)
(***************************************************************************)
EXTENDS Views, FiniteSetTheorems, WellFoundedInduction, TLAPS

\* Ids and paths were handed out before, and a path stands for one file.
TablesInv ==
  \A n \in Names : HasTable(n) =>
    /\ tables[n].id <= written
    /\ IsFiniteSet(tables[n].files)
    /\ \A f \in tables[n].files : f.path <= written
    /\ \A f, g \in tables[n].files : f.path = g.path => f = g

\* A definition v may have: it does not read itself, and it knows of the tables
\* it reads what was there to know.
Defines(v, def) ==
  /\ v \notin def.dependencies /\ Queries[v] # {}
  /\ \A d \in def.dependencies :
       /\ def.ids[d] \in 0 .. written
       /\ def.base.base_versions[d] \in Nat
       /\ def.base.base_files[d] \subseteq 0 .. written

DefsInv == \A v \in Names : /\ metas[v] # None => Defines(v, metas[v])
                            /\ views[v] # None => Defines(v, views[v])

OpInv ==
  /\ op.at \in {"save", "remove", "unlink", "create", "replace"} => op.view \in Names
  /\ op.at = "save" => op.def # None /\ Defines(op.view, op.def) /\ HasTable(op.view)
  /\ op.at \in {"round", "todo", "save"} => op.next \in {"idle", "statement"}
  /\ op.at = "round" => op.rounds \in Nat
  /\ op.at \in {"todo", "save"} => \A v \in op.todo : IsView(v)
  /\ op.at = "unlink" => metas[op.view] = None
  /\ op.at = "remove" => views[op.view] = None

DurableInv == \A v \in Names : views[v] \in {metas[v], None}

BaseInv == TypeOK /\ TablesInv /\ DefsInv /\ OpInv /\ DurableInv

\* Without errors the engine forgets a view only on the way to its removal.
InSync ==
  "error" \notin Faults =>
    \A v \in Names : views[v] = metas[v] \/ (op.at = "remove" /\ op.view = v)

-----------------------------------------------------------------------------
\* The tables def reads are the ones it was computed from.
SameTables(def) ==
  \A d \in def.dependencies : HasTable(d) /\ tables[d].id = def.ids[d]

\* Versions only grow, and as long as none has the rows of v are right.
Exact(v, def) ==
  SameTables(def) =>
    /\ \A d \in def.dependencies : def.base.base_versions[d] <= tables[d].version
    /\ (\A d \in def.dependencies : tables[d].version = def.base.base_versions[d])
         => Rows(v) = QueryRows(def.dependencies)

\* The files of d that def knows.
Known(def, d) == {f \in tables[d].files : f.path \in def.base.base_files[d]}

\* As long as none of the files it was computed from is gone, the rows of v are
\* theirs: what a refresh may add to.
Extends(v, def) ==
  SameTables(def) =>
    \A d \in Names :
      def.dependencies = {d} /\ def.base.base_files[d] \subseteq Paths(d)
        => Rows(v) = Contents(Known(def, d))

\* Between the two commits of a refresh the rows belong to the definition that
\* is about to be written.
ExactInv ==
  Faults = {} =>
    /\ \A v \in Names : views[v] # None /\ HasTable(v) =>
         /\ Exact(v, views[v])
         /\ Extends(v, views[v]) \/ (op.at = "save" /\ op.view = v)
    /\ op.at = "save" => Exact(op.view, op.def) /\ Extends(op.view, op.def)

-----------------------------------------------------------------------------
(***************************************************************************)
(* Sums of bags.  Sum is what the recursion behind Total yields; it does   *)
(* not depend on the order in which the recursion picks the elements.      *)
(***************************************************************************)
LEMMA LeastNatural ==
  ASSUME NEW T, T \subseteq Nat, T # {}
  PROVE  \E n \in T : \A m \in T : n <= m
<1>1. PICK n \in T : \A m \in T : ~(<<m, n>> \in OpToRel(<, Nat))
  BY NatLessThanWellFounded, WFMin, Zenon
<1>2. \A m \in T : ~(m < n)
  BY <1>1, Zenon DEF OpToRel
<1> QED BY <1>2

Pick(s) == CHOOSE x \in s : TRUE

\* f solves the recursion over the subsets of S.
Solves(f, w, S) ==
  f = [s \in SUBSET S |-> IF s = {} THEN NoRows ELSE Plus(w[Pick(s)], f[s \ {Pick(s)}])]

Sum(w, S) == CHOOSE v : \E f : Solves(f, w, S) /\ v = f[S]

\* One element less.
LEMMA Smaller ==
  ASSUME NEW s, IsFiniteSet(s), NEW x \in s
  PROVE  /\ IsFiniteSet(s \ {x}) /\ Cardinality(s) \in Nat /\ Cardinality(s \ {x}) \in Nat
         /\ Cardinality(s \ {x}) < Cardinality(s)
<1>1. IsFiniteSet(s \ {x}) /\ Cardinality(s \ {x}) = Cardinality(s) - 1
  BY FS_RemoveElement, Zenon
<1>2. Cardinality(s) \in Nat /\ Cardinality(s \ {x}) \in Nat
  BY <1>1, FS_CardinalityType, Zenon
<1> QED BY <1>1, <1>2

\* The recursion has one solution.
LEMMA SolutionsAgree ==
  ASSUME NEW w, NEW S, IsFiniteSet(S), NEW f, NEW g, Solves(f, w, S), Solves(g, w, S)
  PROVE  \A s \in SUBSET S : f[s] = g[s]
<1> DEFINE Bad == {s \in SUBSET S : f[s] # g[s]}
           T == {Cardinality(s) : s \in Bad}
<1> SUFFICES ASSUME Bad # {} PROVE FALSE
  BY Zenon
<1>1. \A s \in SUBSET S : IsFiniteSet(s) /\ Cardinality(s) \in Nat
  BY FS_Subset, FS_CardinalityType, Zenon
<1>2. PICK n \in T : \A m \in T : n <= m
  <2>1. T \subseteq Nat /\ T # {}
    BY <1>1, Zenon
  <2> QED BY <2>1, LeastNatural, Zenon
<1>3. PICK s \in Bad : n = Cardinality(s)
  BY <1>2, Zenon
<1>4. s # {}
  BY <1>3, Zenon DEF Solves
<1>5. Pick(s) \in s
  BY <1>4, Zenon DEF Pick
<1>6. s \ {Pick(s)} \in SUBSET S /\ s \ {Pick(s)} \notin Bad
  <2>1. Cardinality(s \ {Pick(s)}) < n /\ Cardinality(s \ {Pick(s)}) \in Nat /\ n \in Nat
    BY <1>1, <1>3, <1>5, Smaller, Zenon
  <2>2. Cardinality(s \ {Pick(s)}) \notin T
    BY <1>2, <2>1
  <2> QED BY <2>2, Zenon
<1>7. f[s \ {Pick(s)}] = g[s \ {Pick(s)}]
  BY <1>6, Zenon
<1> QED BY <1>3, <1>4, <1>7, ZenonT(40) DEF Solves

LEMMA SolutionOfPart ==
  ASSUME NEW w, NEW S, NEW f, Solves(f, w, S), NEW R \in SUBSET S
  PROVE  Solves([s \in SUBSET R |-> f[s]], w, R)
<1> DEFINE g == [s \in SUBSET R |-> f[s]]
<1>1. ASSUME NEW s \in SUBSET R
      PROVE  g[s] = IF s = {} THEN NoRows ELSE Plus(w[Pick(s)], g[s \ {Pick(s)}])
  <2>1. s \in SUBSET S /\ s \ {Pick(s)} \in SUBSET R
    BY Zenon
  <2>2. f[s] = IF s = {} THEN NoRows ELSE Plus(w[Pick(s)], f[s \ {Pick(s)}])
    BY <2>1, Zenon DEF Solves
  <2> QED BY <2>1, <2>2, Zenon
<1> QED BY <1>1, Zenon DEF Solves

LEMMA SumIsSolution ==
  ASSUME NEW w, NEW S, IsFiniteSet(S), NEW f, Solves(f, w, S)
  PROVE  Sum(w, S) = f[S]
<1>1. \E v : \E g : Solves(g, w, S) /\ v = g[S]
  BY Zenon
<1>2. PICK g : Solves(g, w, S) /\ Sum(w, S) = g[S]
  BY <1>1, Zenon DEF Sum
<1> QED BY <1>2, SolutionsAgree

\* And it has one: the values at smaller sets give the value at the next.
LEMMA SolutionExists ==
  ASSUME NEW w, NEW S, IsFiniteSet(S)
  PROVE  \E f : Solves(f, w, S)
<1> DEFINE Bad == {s \in SUBSET S : ~ \E f : Solves(f, w, s)}
           T == {Cardinality(s) : s \in Bad}
<1> SUFFICES ASSUME Bad # {} PROVE FALSE
  BY Zenon
<1>1. \A s \in SUBSET S : IsFiniteSet(s) /\ Cardinality(s) \in Nat
  BY FS_Subset, FS_CardinalityType, Zenon
<1>2. PICK n \in T : \A m \in T : n <= m
  <2>1. T \subseteq Nat /\ T # {}
    BY <1>1, Zenon
  <2> QED BY <2>1, LeastNatural, Zenon
<1>3. PICK s \in Bad : n = Cardinality(s)
  BY <1>2, Zenon
<1>4. ASSUME NEW r \in SUBSET s, r # s
      PROVE  \E f : Solves(f, w, r)
  <2>1. PICK x \in s : x \notin r
    BY <1>4, Zenon
  <2>2. IsFiniteSet(s) /\ IsFiniteSet(s \ {x}) /\ r \subseteq s \ {x}
    BY <1>1, <1>3, <2>1, Smaller, Zenon
  <2>3. Cardinality(r) <= Cardinality(s \ {x}) /\ Cardinality(s \ {x}) < n
    BY <1>3, <2>1, <2>2, Smaller, FS_Subset, Zenon
  <2>4. r \in SUBSET S /\ Cardinality(r) \in Nat /\ Cardinality(s \ {x}) \in Nat /\ n \in Nat
    BY <1>1, <1>3, <2>2, Zenon
  <2>5. Cardinality(r) \notin T
    BY <1>2, <2>3, <2>4
  <2> QED BY <2>4, <2>5, Zenon
<1> DEFINE f == [r \in SUBSET s |-> IF r = {} THEN NoRows ELSE Plus(w[Pick(r)], Sum(w, r \ {Pick(r)}))]
<1>5. ASSUME NEW r \in SUBSET s, r # s
      PROVE  f[r] = Sum(w, r)
  <2>1. PICK g : Solves(g, w, r)
    BY <1>4, <1>5, Zenon
  <2>2. IsFiniteSet(r)
    BY <1>1, <1>3, Zenon
  <2>3. Sum(w, r) = g[r]
    BY <2>1, <2>2, SumIsSolution, Zenon
  <2>4. CASE r = {}
    BY <2>1, <2>3, <2>4, Zenon DEF Solves
  <2>5. CASE r # {}
    <3>1. PICK q : q = r \ {Pick(r)}
      BY Zenon
    <3>2. q \in SUBSET r /\ IsFiniteSet(q)
      BY <2>2, <3>1, FS_Subset, Zenon
    <3>3. PICK h : h = [u \in SUBSET q |-> g[u]]
      BY Zenon
    <3>4. Solves(h, w, q)
      BY <2>1, <3>2, <3>3, SolutionOfPart, Zenon
    <3>5. Sum(w, q) = g[q]
      BY <3>2, <3>3, <3>4, SumIsSolution
    <3>6. g[r] = Plus(w[Pick(r)], g[q])
      BY <2>1, <2>5, <3>1, Zenon DEF Solves
    <3> QED BY <2>3, <2>5, <3>1, <3>5, <3>6, Zenon
  <2> QED BY <2>4, <2>5, Zenon
<1>6. Solves(f, w, s)
  <2>1. ASSUME NEW r \in SUBSET s
        PROVE  f[r] = IF r = {} THEN NoRows ELSE Plus(w[Pick(r)], f[r \ {Pick(r)}])
    <3>1. CASE r = {}
      BY <3>1, Zenon
    <3>2. CASE r # {}
      <4>1. Pick(r) \in r
        BY <3>2, Zenon DEF Pick
      <4>2. r \ {Pick(r)} \in SUBSET s /\ r \ {Pick(r)} # s
        BY <4>1, Zenon
      <4>3. f[r \ {Pick(r)}] = Sum(w, r \ {Pick(r)})
        BY <4>2, <1>5, Zenon
      <4> QED BY <3>2, <4>3, Zenon
    <3> QED BY <3>1, <3>2, Zenon
  <2> QED BY <2>1, Zenon DEF Solves
<1> QED BY <1>3, <1>6, Zenon

LEMMA SumEmpty ==
  ASSUME NEW w
  PROVE  Sum(w, {}) = NoRows
<1>1. IsFiniteSet({})
  BY FS_EmptySet, Zenon
<1>2. PICK f : Solves(f, w, {})
  BY <1>1, SolutionExists, Zenon
<1>3. Sum(w, {}) = f[{}]
  BY <1>1, <1>2, SumIsSolution, Zenon
<1> QED BY <1>2, <1>3, Zenon DEF Solves

LEMMA SumStep ==
  ASSUME NEW w, NEW S, IsFiniteSet(S), S # {}
  PROVE  Pick(S) \in S /\ Sum(w, S) = Plus(w[Pick(S)], Sum(w, S \ {Pick(S)}))
<1>0. Pick(S) \in S
  BY Zenon DEF Pick
<1>1. PICK f : Solves(f, w, S)
  BY SolutionExists, Zenon
<1>2. PICK q : q = S \ {Pick(S)}
  BY Zenon
<1>3. q \in SUBSET S /\ IsFiniteSet(q)
  BY <1>2, FS_Subset, Zenon
<1>4. PICK h : h = [u \in SUBSET q |-> f[u]]
  BY Zenon
<1>5. Solves(h, w, q)
  BY <1>1, <1>3, <1>4, SolutionOfPart, Zenon
<1>6. Sum(w, q) = f[q] /\ Sum(w, S) = f[S]
  BY <1>1, <1>3, <1>4, <1>5, SumIsSolution
<1>7. f[S] = Plus(w[Pick(S)], f[q])
  BY <1>1, <1>2, Zenon DEF Solves
<1> QED BY <1>0, <1>2, <1>6, <1>7, Zenon

\* Total is the sum over the whole family.
LEMMA TotalIsSum ==
  ASSUME NEW w, IsFiniteSet(DOMAIN w)
  PROVE  Total(w) = Sum(w, DOMAIN w)
<1>1. PICK f : f = CHOOSE g : Solves(g, w, DOMAIN w)
  BY Zenon
<1>2. \E g : Solves(g, w, DOMAIN w)
  BY SolutionExists, Zenon
<1>3. Solves(f, w, DOMAIN w)
  BY <1>1, <1>2, Zenon
<1>4. Total(w) = f[DOMAIN w]
  BY <1>1, Zenon DEF Total, FoldFunction, FoldFunctionOnSet, MapThenFoldSet, Solves, Pick
<1> QED BY <1>3, <1>4, SumIsSolution, Zenon

\* The sum depends on the members' bags only.
LEMMA SumSame ==
  ASSUME NEW w, NEW z, NEW S, IsFiniteSet(S), \A x \in S : w[x] = z[x]
  PROVE  Sum(w, S) = Sum(z, S)
<1>1. PICK f : Solves(f, w, S)
  BY SolutionExists, Zenon
<1>2. Solves(f, z, S)
  <2>1. ASSUME NEW s \in SUBSET S, s # {}
        PROVE  w[Pick(s)] = z[Pick(s)]
    BY <2>1, Zenon DEF Pick
  <2>2. ASSUME NEW s \in SUBSET S
        PROVE  f[s] = IF s = {} THEN NoRows ELSE Plus(z[Pick(s)], f[s \ {Pick(s)}])
    BY <1>1, <2>1, Zenon DEF Solves
  <2>3. f = [s \in SUBSET S |-> f[s]]
    BY <1>1, Zenon DEF Solves
  <2> QED BY <2>2, <2>3, Zenon DEF Solves
<1> QED BY <1>1, <1>2, SumIsSolution

LEMMA PlusLaws ==
  /\ NoRows \in Bag
  /\ \A a, b \in Bag : Plus(a, b) \in Bag /\ Plus(a, b) = Plus(b, a)
  /\ \A a \in Bag : Plus(a, NoRows) = a
  /\ \A a, b, c \in Bag : Plus(a, Plus(b, c)) = Plus(Plus(a, b), c)
  /\ \A a, b, c \in Bag : Plus(a, Plus(b, c)) = Plus(b, Plus(a, c))
<1>1. NoRows \in Bag
  BY Zenon DEF NoRows, Bag
<1>2. \A a, b \in Bag : Plus(a, b) \in Bag
  BY DEF Plus, Bag
<1>3. \A a, b \in Bag : Plus(a, b) = Plus(b, a)
  BY DEF Plus, Bag
<1>4. \A a \in Bag : Plus(a, NoRows) = a
  BY DEF Plus, Bag, NoRows
<1>5. \A a, b, c \in Bag : Plus(a, Plus(b, c)) = Plus(Plus(a, b), c)
  BY DEF Plus, Bag
<1>6. \A a, b, c \in Bag : Plus(a, Plus(b, c)) = Plus(b, Plus(a, c))
  BY DEF Plus, Bag
<1> QED BY <1>1, <1>2, <1>3, <1>4, <1>5, <1>6, Zenon

LEMMA PlusSwap ==
  ASSUME NEW a \in Bag, NEW b \in Bag, NEW c \in Bag
  PROVE  Plus(a, Plus(b, c)) = Plus(b, Plus(a, c))
BY PlusLaws

LEMMA PlusNone ==
  ASSUME NEW a \in Bag
  PROVE  Plus(a, NoRows) = a
BY PlusLaws, Zenon

LEMMA SumIsBag ==
  ASSUME NEW w, NEW S, IsFiniteSet(S), \A x \in S : w[x] \in Bag
  PROVE  \A s \in SUBSET S : IsFiniteSet(s) /\ Sum(w, s) \in Bag
<1>1. \A s \in SUBSET S : IsFiniteSet(s) /\ Cardinality(s) \in Nat
  BY FS_Subset, FS_CardinalityType, Zenon
<1> DEFINE Bad == {s \in SUBSET S : Sum(w, s) \notin Bag}
           T == {Cardinality(s) : s \in Bad}
<1> SUFFICES ASSUME Bad # {} PROVE FALSE
  BY <1>1, Zenon
<1>2. PICK n \in T : \A m \in T : n <= m
  <2>1. T \subseteq Nat /\ T # {}
    BY <1>1, Zenon
  <2> QED BY <2>1, LeastNatural, Zenon
<1>3. PICK s \in Bad : n = Cardinality(s)
  BY <1>2, Zenon
<1>4. s # {}
  BY <1>3, SumEmpty, PlusLaws, Zenon
<1>5. IsFiniteSet(s) /\ Pick(s) \in s /\ Sum(w, s) = Plus(w[Pick(s)], Sum(w, s \ {Pick(s)}))
  BY <1>1, <1>3, <1>4, SumStep, Zenon
<1>6. Sum(w, s \ {Pick(s)}) \in Bag
  <2>1. Cardinality(s \ {Pick(s)}) < n /\ Cardinality(s \ {Pick(s)}) \in Nat /\ n \in Nat
    BY <1>3, <1>5, Smaller, Zenon
  <2>2. Cardinality(s \ {Pick(s)}) \notin T
    BY <1>2, <2>1
  <2> QED BY <2>2, Zenon
<1>7. w[Pick(s)] \in Bag
  BY <1>3, <1>5, Zenon
<1>8. Sum(w, s) \in Bag
  BY <1>5, <1>6, <1>7, PlusLaws
<1> QED BY <1>3, <1>8, Zenon

\* Any member may come first.
LEMMA SumAny ==
  ASSUME NEW w, NEW S, IsFiniteSet(S), \A x \in S : w[x] \in Bag
  PROVE  \A s \in SUBSET S : \A x \in s : Sum(w, s) = Plus(w[x], Sum(w, s \ {x}))
<1>1. \A s \in SUBSET S : IsFiniteSet(s) /\ Cardinality(s) \in Nat
  BY FS_Subset, FS_CardinalityType, Zenon
<1>0. \A s \in SUBSET S : Sum(w, s) \in Bag
  BY SumIsBag, Zenon
<1> DEFINE Bad == {s \in SUBSET S : \E x \in s : Sum(w, s) # Plus(w[x], Sum(w, s \ {x}))}
           T == {Cardinality(s) : s \in Bad}
<1> SUFFICES ASSUME Bad # {} PROVE FALSE
  BY Zenon
<1>2. PICK n \in T : \A m \in T : n <= m
  <2>1. T \subseteq Nat /\ T # {}
    BY <1>1, Zenon
  <2> QED BY <2>1, LeastNatural, Zenon
<1>3. PICK s \in Bad : n = Cardinality(s)
  BY <1>2, Zenon
<1>4. PICK x \in s : Sum(w, s) # Plus(w[x], Sum(w, s \ {x}))
  BY <1>3, Zenon
<1>5. PICK y : y = Pick(s)
  BY Zenon
<1>6. IsFiniteSet(s) /\ y \in s /\ Sum(w, s) = Plus(w[y], Sum(w, s \ {y}))
  BY <1>1, <1>3, <1>4, <1>5, SumStep, Zenon
<1>7. x # y
  BY <1>4, <1>6, Zenon
<1>8. ASSUME NEW a \in s, NEW b \in s, a # b
      PROVE  Sum(w, s \ {a}) = Plus(w[b], Sum(w, (s \ {a}) \ {b}))
  <2>1. Cardinality(s \ {a}) < n /\ Cardinality(s \ {a}) \in Nat /\ n \in Nat
    BY <1>3, <1>6, Smaller, Zenon
  <2>2. Cardinality(s \ {a}) \notin T
    BY <1>2, <2>1
  <2>3. s \ {a} \in SUBSET S /\ s \ {a} \notin Bad
    BY <2>2, Zenon
  <2>4. b \in s \ {a}
    BY <1>8, Zenon
  <2> QED BY <2>3, <2>4, Zenon
<1>9. PICK r : r = s \ {x, y}
  BY Zenon
<1>10. (s \ {x}) \ {y} = r /\ (s \ {y}) \ {x} = r
  BY <1>9, Zenon
<1>11. Sum(w, s \ {y}) = Plus(w[x], Sum(w, r)) /\ Sum(w, s \ {x}) = Plus(w[y], Sum(w, r))
  BY <1>6, <1>7, <1>8, <1>10
<1>12. w[x] \in Bag /\ w[y] \in Bag /\ Sum(w, r) \in Bag
  BY <1>0, <1>3, <1>6, <1>9, Zenon
<1>13. Plus(w[y], Plus(w[x], Sum(w, r))) = Plus(w[x], Plus(w[y], Sum(w, r)))
  BY <1>12, PlusSwap, Zenon
<1> QED BY <1>4, <1>6, <1>11, <1>13, Zenon

\* The sum over two parts is the sum of their sums.
LEMMA SumSplit ==
  ASSUME NEW w, NEW S, IsFiniteSet(S), \A x \in S : w[x] \in Bag, NEW A \in SUBSET S
  PROVE  \A B \in SUBSET (S \ A) : Sum(w, A \cup B) = Plus(Sum(w, A), Sum(w, B))
<1>1. \A s \in SUBSET S : IsFiniteSet(s) /\ Cardinality(s) \in Nat /\ Sum(w, s) \in Bag
  BY FS_Subset, FS_CardinalityType, SumIsBag, Zenon
<1> DEFINE Bad == {s \in SUBSET (S \ A) : Sum(w, A \cup s) # Plus(Sum(w, A), Sum(w, s))}
           T == {Cardinality(s) : s \in Bad}
<1> SUFFICES ASSUME Bad # {} PROVE FALSE
  BY Zenon
<1>2. PICK n \in T : \A m \in T : n <= m
  <2>0. \A s \in Bad : Cardinality(s) \in Nat
    BY <1>1, Zenon
  <2>1. T \subseteq Nat /\ T # {}
    BY <2>0, Zenon
  <2> QED BY <2>1, LeastNatural, Zenon
<1>3. PICK s \in Bad : n = Cardinality(s)
  BY <1>2, Zenon
<1>4. s # {}
  <2>1. A \cup {} = A /\ Plus(Sum(w, A), NoRows) = Sum(w, A)
    BY <1>1, PlusLaws, Zenon
  <2> QED BY <1>3, <2>1, SumEmpty, Zenon
<1>5. PICK x \in s : TRUE
  BY <1>4, Zenon
<1>6. PICK r : r = s \ {x}
  BY Zenon
<1>7. Sum(w, A \cup r) = Plus(Sum(w, A), Sum(w, r))
  <2>0. IsFiniteSet(s)
    BY <1>1, <1>3, Zenon
  <2>1. Cardinality(r) < n /\ Cardinality(r) \in Nat /\ n \in Nat
    BY <1>3, <1>5, <1>6, <2>0, Smaller, Zenon
  <2>2. Cardinality(r) \notin T
    BY <1>2, <2>1
  <2> QED BY <1>3, <1>6, <2>2, Zenon
<1>8. Sum(w, s) = Plus(w[x], Sum(w, r)) /\ Sum(w, A \cup s) = Plus(w[x], Sum(w, A \cup r))
  <2>1. s \in SUBSET S /\ A \cup s \in SUBSET S /\ x \in s /\ x \in A \cup s
        /\ (A \cup s) \ {x} = A \cup r
    BY <1>3, <1>5, <1>6, Zenon
  <2>2. \A q \in SUBSET S : \A y \in q : Sum(w, q) = Plus(w[y], Sum(w, q \ {y}))
    BY SumAny, ZenonT(40)
  <2>3. Sum(w, s) = Plus(w[x], Sum(w, s \ {x}))
    BY <2>1, <2>2, Zenon
  <2>4. Sum(w, A \cup s) = Plus(w[x], Sum(w, (A \cup s) \ {x}))
    BY <2>1, <2>2, Zenon
  <2> QED BY <1>6, <2>1, <2>3, <2>4, Zenon
<1>9. w[x] \in Bag /\ Sum(w, A) \in Bag /\ Sum(w, r) \in Bag
  BY <1>1, <1>3, <1>5, <1>6, Zenon
<1>10. Plus(w[x], Plus(Sum(w, A), Sum(w, r))) = Plus(Sum(w, A), Plus(w[x], Sum(w, r)))
  BY <1>9, PlusSwap, Zenon
<1> QED BY <1>3, <1>7, <1>8, <1>10, Zenon

-----------------------------------------------------------------------------
(***************************************************************************)
(* The rows of files and tables.                                           *)
(***************************************************************************)
\* Files whose rows are bags.
RowFiles == {fs \in SUBSET [path : Nat, rows : Bag] : IsFiniteSet(fs)}

LEMMA ContentsAre ==
  ASSUME NEW fs \in RowFiles, NEW s \in SUBSET fs
  PROVE  Contents(s) = Sum([f \in fs |-> f.rows], s)
<1>1. IsFiniteSet(s)
  BY FS_Subset, Zenon DEF RowFiles
<1>2. PICK w : w = [f \in s |-> f.rows]
  BY Zenon
<1>3. PICK z : z = [f \in fs |-> f.rows]
  BY Zenon
<1>4. DOMAIN w = s /\ \A f \in s : w[f] = z[f]
  BY <1>2, <1>3, Zenon
<1>5. Total(w) = Sum(w, s)
  BY <1>1, <1>4, TotalIsSum, Zenon
<1>6. Sum(w, s) = Sum(z, s)
  BY <1>1, <1>4, SumSame
<1> QED BY <1>2, <1>3, <1>5, <1>6, Zenon DEF Contents

LEMMA ContentsLaws ==
  ASSUME NEW fs \in RowFiles
  PROVE  /\ Contents(fs) \in Bag
         /\ \A s \in SUBSET fs : Contents(fs) = Plus(Contents(s), Contents(fs \ s))
<1>1. PICK w : w = [f \in fs |-> f.rows]
  BY Zenon
<1>2. IsFiniteSet(fs) /\ \A f \in fs : w[f] \in Bag
  BY <1>1, Zenon DEF RowFiles
<1>3. \A s \in SUBSET fs : Contents(s) = Sum(w, s)
  BY <1>1, ContentsAre, Zenon
<1>4. Contents(fs) \in Bag
  BY <1>2, <1>3, SumIsBag, Zenon
<1>5. ASSUME NEW s \in SUBSET fs
      PROVE  Contents(fs) = Plus(Contents(s), Contents(fs \ s))
  <2>1. PICK r : r = fs \ s
    BY Zenon
  <2>2. r \in SUBSET (fs \ s) /\ r \in SUBSET fs /\ s \cup r = fs
    BY <2>1, Zenon
  <2>3. Sum(w, s \cup r) = Plus(Sum(w, s), Sum(w, r))
    BY <1>2, <2>2, SumSplit
  <2> QED BY <1>3, <2>1, <2>2, <2>3, Zenon
<1> QED BY <1>4, <1>5, Zenon

\* A family of one.
LEMMA TotalOfOne ==
  ASSUME NEW x, NEW w, DOMAIN w = {x}, w[x] \in Bag
  PROVE  Total(w) = w[x]
<1>1. IsFiniteSet({x})
  BY FS_Singleton, Zenon
<1>2. Total(w) = Sum(w, {x})
  BY <1>1, TotalIsSum, Zenon
<1>3. Sum(w, {x}) = Plus(w[x], Sum(w, {x} \ {x}))
  BY <1>1, SumAny
<1>4. {x} \ {x} = {}
  BY Zenon
<1> QED BY <1>2, <1>3, <1>4, SumEmpty, PlusNone, Zenon

LEMMA ContentsOfOne ==
  ASSUME NEW f, f.rows \in Bag
  PROVE  Contents({f}) = f.rows
<1>1. PICK w : w = [g \in {f} |-> g.rows]
  BY Zenon
<1>2. DOMAIN w = {f} /\ w[f] = f.rows
  BY <1>1, Zenon
<1>3. Total(w) = w[f]
  BY <1>2, TotalOfOne, Zenon
<1> QED BY <1>1, <1>2, <1>3, Zenon DEF Contents

LEMMA TableFacts ==
  ASSUME TypeOK, TablesInv, NEW n \in Names, HasTable(n)
  PROVE  /\ tables[n] \in TableMeta /\ tables[n].id \in Nat /\ tables[n].version \in Nat
         /\ tables[n].files \in RowFiles /\ Rows(n) \in Bag
         /\ Paths(n) \in SUBSET Nat /\ Paths(n) \subseteq 0 .. written
<1>1. tables[n] \in TableMeta
  BY Zenon DEF TypeOK, HasTable
<1>2. tables[n].files \in RowFiles
  BY <1>1, Zenon DEF TableMeta, RowFiles, TablesInv
<1>3. Rows(n) \in Bag
  BY <1>2, ContentsLaws, Zenon DEF Rows
<1>4. Paths(n) \in SUBSET Nat /\ Paths(n) \subseteq 0 .. written
  <2>1. written \in Nat /\ \A f \in tables[n].files : f.path \in Nat /\ f.path <= written
    BY <1>1 DEF TableMeta, TablesInv, TypeOK
  <2> QED BY <2>1 DEF Paths
<1> QED BY <1>1, <1>2, <1>3, <1>4, Zenon DEF TableMeta

LEMMA QueryRowsBag ==
  ASSUME TypeOK, TablesInv, NEW deps \in SUBSET Names, \A d \in deps : HasTable(d)
  PROVE  QueryRows(deps) \in Bag
<1>1. PICK w : w = [d \in deps |-> Rows(d)]
  BY Zenon
<1>2. IsFiniteSet(deps) /\ DOMAIN w = deps
  BY <1>1, ViewsAssumption, FS_Subset, Zenon
<1>3. \A d \in deps : w[d] \in Bag
  BY <1>1, TableFacts, Zenon
<1>4. Total(w) = Sum(w, deps) /\ Sum(w, deps) \in Bag
  BY <1>2, <1>3, TotalIsSum, SumIsBag, Zenon
<1> QED BY <1>1, <1>4, Zenon DEF QueryRows

LEMMA QueryRowsOfOne ==
  ASSUME NEW d, Rows(d) \in Bag
  PROVE  QueryRows({d}) = Rows(d)
<1>1. PICK w : w = [x \in {d} |-> Rows(x)]
  BY Zenon
<1>2. DOMAIN w = {d} /\ w[d] = Rows(d)
  BY <1>1, Zenon
<1>3. Total(w) = w[d]
  BY <1>2, TotalOfOne, Zenon
<1> QED BY <1>1, <1>2, <1>3, Zenon DEF QueryRows

LEMMA NewFileFits ==
  ASSUME TypeOK, NEW r \in Bag
  PROVE  /\ NewFile(r) \in [path : Nat, rows : Bag]
         /\ NewFile(r).path = written + 1 /\ NewFile(r).rows = r
BY ViewsAssumption DEF NewFile, TypeOK

LEMMA NewRowFits ==
  ASSUME TypeOK, CanWrite
  PROVE  NewRow \in Bag /\ written + 1 \in 0 .. MaxFiles
<1>1. setting.max_files \in 0 .. MaxFiles /\ MaxFiles \in Nat
  BY ViewsAssumption, Zenon DEF TypeOK, SettingType
<1>2. written \in Nat /\ written + 1 \in 0 .. MaxFiles
  BY <1>1 DEF TypeOK, CanWrite
<1> QED BY <1>1, <1>2, Zenon DEF NewRow, NoRows, Bag

-----------------------------------------------------------------------------
(***************************************************************************)
(* Steps that change a table n to t: it is dropped, made, changed by       *)
(* adding and removing files, or compacted.                                *)
(***************************************************************************)
Makes(n, t) ==
  /\ ~HasTable(n) /\ t.id = written + 1 /\ written' = written + 1
  /\ \E r \in Bag : t.files \subseteq {NewFile(r)}

Changes(n, t) ==
  /\ HasTable(n) /\ t.id = tables[n].id /\ t.version = tables[n].version + 1
  /\ \/ written' = written /\ t.files \subseteq tables[n].files
     \/ written' = written + 1 /\ \E r \in Bag : t.files \subseteq tables[n].files \cup {NewFile(r)}

Compacts(n, t) ==
  /\ HasTable(n) /\ t.id = tables[n].id /\ t.version = tables[n].version
  /\ written' = written + 1 /\ t.files = {NewFile(Rows(n))}

TableStep(n, t) ==
  /\ tables' = [tables EXCEPT ![n] = t] /\ UNCHANGED <<setting, metas, views>>
  /\ written' \in 0 .. MaxFiles /\ drops' \in 0 .. MaxDrops
  /\ \/ t = None /\ written' = written
     \/ t \in TableMeta /\ (Makes(n, t) \/ Changes(n, t) \/ Compacts(n, t))

\* In all cases: files that were there, and at most one that is new.
LEMMA StepFiles ==
  ASSUME TypeOK, TablesInv, NEW n \in Names, NEW t, TableStep(n, t), t # None
  PROVE  /\ t \in TableMeta /\ t.id <= written' /\ IsFiniteSet(t.files)
         /\ \A f \in t.files : \/ HasTable(n) /\ f \in tables[n].files
                               \/ f.path = written + 1 /\ written' = written + 1
         /\ \A f, g \in t.files : f.path = written + 1 /\ g.path = written + 1 => f = g
<1>0. written \in Nat /\ t \in TableMeta
  BY ViewsAssumption DEF TypeOK, TableStep
<1>1. CASE Makes(n, t)
  <2>1. PICK r \in Bag : t.files \subseteq {NewFile(r)}
    BY <1>1, Zenon DEF Makes
  <2>2. IsFiniteSet(t.files)
    BY <2>1, FS_Singleton, FS_Subset, Zenon
  <2>3. \A f \in t.files : f = NewFile(r) /\ f.path = written + 1
    BY <2>1, NewFileFits, Zenon
  <2> QED BY <1>0, <1>1, <2>2, <2>3 DEF Makes
<1>2. CASE Changes(n, t)
  <2>0. /\ IsFiniteSet(tables[n].files) /\ tables[n].id <= written /\ tables[n].id \in Nat
        /\ \A f \in tables[n].files : f.path \in Nat /\ f.path <= written
    BY <1>2, TableFacts, Zenon DEF TablesInv, Changes, TableMeta
  <2>1. CASE written' = written /\ t.files \subseteq tables[n].files
    <3>1. IsFiniteSet(t.files)
      BY <2>0, <2>1, FS_Subset, Zenon
    <3>2. \A f \in t.files : f.path # written + 1
      BY <1>0, <2>0, <2>1
    <3> QED BY <1>0, <1>2, <2>0, <2>1, <3>1, <3>2, Zenon DEF Changes
  <2>2. CASE written' = written + 1 /\ \E r \in Bag : t.files \subseteq tables[n].files \cup {NewFile(r)}
    <3>1. PICK r \in Bag : t.files \subseteq tables[n].files \cup {NewFile(r)}
      BY <2>2, Zenon
    <3>2. IsFiniteSet(t.files)
      <4>1. IsFiniteSet(tables[n].files \cup {NewFile(r)})
        BY <2>0, FS_AddElement, Zenon
      <4> QED BY <3>1, <4>1, FS_Subset, Zenon
    <3>3. NewFile(r).path = written + 1
      BY NewFileFits, Zenon
    <3>4. \A f \in t.files : f \in tables[n].files \/ (f = NewFile(r) /\ f.path = written + 1)
      BY <3>1, <3>3, Zenon
    <3>5. \A f \in tables[n].files : f.path # written + 1
      BY <1>0, <2>0
    <3>6. t.id <= written'
      BY <1>0, <1>2, <2>0, <2>2 DEF Changes
    <3> QED BY <1>0, <1>2, <2>2, <3>2, <3>4, <3>5, <3>6, Zenon DEF Changes
  <2> QED BY <1>2, <2>1, <2>2, Zenon DEF Changes
<1>3. CASE Compacts(n, t)
  <2>1. /\ Rows(n) \in Bag /\ tables[n].id <= written /\ tables[n].id \in Nat
    BY <1>3, TableFacts, Zenon DEF Compacts, TablesInv
  <2>2. NewFile(Rows(n)).path = written + 1
    BY <2>1, NewFileFits, Zenon
  <2>3. IsFiniteSet(t.files)
    BY <1>3, FS_Singleton, Zenon DEF Compacts
  <2> QED BY <1>0, <1>3, <2>1, <2>2, <2>3 DEF Compacts
<1> QED BY <1>1, <1>2, <1>3, Zenon DEF TableStep

\* What definitions know stays within what has been written.
LEMMA DefinesKept ==
  ASSUME NEW v, NEW def, Defines(v, def), written \in Nat, written' \in Nat,
         written <= written', UNCHANGED setting
  PROVE  Defines(v, def)'
<1>1. 0 .. written \subseteq 0 .. written'
  OBVIOUS
<1>2. Queries' = Queries
  BY Zenon DEF Queries
<1>3. \A d \in def.dependencies : /\ def.ids[d] \in 0 .. written'
                                 /\ def.base.base_versions[d] \in Nat
                                 /\ def.base.base_files[d] \subseteq 0 .. written'
  BY <1>1, Zenon DEF Defines
<1>4. v \notin def.dependencies /\ Queries'[v] # {}
  BY <1>2, Zenon DEF Defines
<1> QED BY <1>3, <1>4, Zenon DEF Defines

LEMMA StepBase ==
  ASSUME BaseInv, NEW n \in Names, NEW t, TableStep(n, t), op' \in OpType
  PROVE  TypeOK' /\ TablesInv' /\ DefsInv' /\ DurableInv'
<1> USE DEF BaseInv
<1>1. /\ tables \in [Names -> TableMeta \cup {None}] /\ written \in Nat /\ written' \in Nat
      /\ written <= written' /\ tables' = [tables EXCEPT ![n] = t]
      /\ t \in TableMeta \cup {None}
  <2>1. tables \in [Names -> TableMeta \cup {None}] /\ written \in Nat /\ MaxFiles \in Nat
    BY ViewsAssumption DEF TypeOK
  <2>2. written' \in Nat /\ tables' = [tables EXCEPT ![n] = t] /\ t \in TableMeta \cup {None}
    BY <2>1 DEF TableStep
  <2>3. written' = written \/ written' = written + 1
    BY Zenon DEF TableStep, Makes, Changes, Compacts
  <2> QED BY <2>1, <2>2, <2>3
<1>2. TypeOK'
  BY <1>1, Zenon DEF TypeOK, TableStep, MaxDrops
<1>3. TablesInv'
  <2> SUFFICES ASSUME NEW m \in Names, HasTable(m)'
               PROVE  /\ tables'[m].id <= written' /\ IsFiniteSet(tables'[m].files)
                      /\ \A f \in tables'[m].files : f.path <= written'
                      /\ \A f, g \in tables'[m].files : f.path = g.path => f = g
    BY Zenon DEF TablesInv
  <2>1. CASE m # n
    <3>1. tables'[m] = tables[m] /\ HasTable(m)
      BY <1>1, <2>1, Zenon DEF HasTable
    <3>2. tables[m].id \in Nat /\ \A f \in tables[m].files : f.path \in Nat
      BY <3>1, TableFacts, Zenon DEF TableMeta
    <3> QED BY <1>1, <3>1, <3>2 DEF TablesInv
  <2>2. CASE m = n
    <3>1. tables'[m] = t /\ t # None
      BY <1>1, <2>2, Zenon DEF HasTable
    <3>2. /\ t \in TableMeta /\ t.id <= written' /\ IsFiniteSet(t.files)
          /\ \A f \in t.files : \/ HasTable(n) /\ f \in tables[n].files
                                \/ f.path = written + 1 /\ written' = written + 1
          /\ \A f, g \in t.files : f.path = written + 1 /\ g.path = written + 1 => f = g
      BY <3>1, StepFiles, Zenon
    <3>3. HasTable(n) => /\ \A f \in tables[n].files : f.path \in Nat /\ f.path <= written
                         /\ \A f, g \in tables[n].files : f.path = g.path => f = g
      BY TableFacts, Zenon DEF TablesInv, TableMeta
    <3>4. \A f \in t.files : f.path <= written'
      BY <1>1, <3>2, <3>3
    <3>5. ASSUME NEW f \in t.files, NEW g \in t.files, f.path = g.path PROVE f = g
      BY <1>1, <3>2, <3>3, <3>5, Zenon
    <3> QED BY <3>1, <3>2, <3>4, <3>5, Zenon
  <2> QED BY <2>1, <2>2, Zenon
<1>4. DefsInv'
  BY <1>1, DefinesKept, Zenon DEF TableStep, DefsInv
<1>5. DurableInv'
  BY Zenon DEF TableStep, DurableInv
<1> QED BY <1>2, <1>3, <1>4, <1>5, Zenon

\* A statement that only goes on or ends: from where it may, to where it has
\* nothing on its hands.
QuietStep ==
  /\ UNCHANGED <<setting, tables, metas, views, written, drops>>
  /\ op' \in OpType /\ op'.at \in {"idle", "statement", "round", "todo"}
  /\ op'.at \in {"round", "todo"} => op'.next \in {"idle", "statement"}
  /\ op'.at = "round" => op'.rounds \in Nat
  /\ op'.at = "todo" => \A v \in op'.todo : IsView(v)
  /\ op.at # "remove" \/ "error" \in Faults
  /\ op.at # "save" \/ Faults # {}

LEMMA QuietBase ==
  ASSUME BaseInv, QuietStep
  PROVE  BaseInv'
<1> USE DEF BaseInv, QuietStep
<1>1. TypeOK'
  BY Zenon DEF TypeOK, MaxDrops
<1>2. TablesInv' /\ DurableInv'
  BY Zenon DEF TablesInv, HasTable, DurableInv
<1>3. DefsInv'
  BY Zenon DEF DefsInv, Defines, Queries
<1>4. OpInv'
  BY Zenon DEF OpInv, IsView
<1> QED BY <1>1, <1>2, <1>3, <1>4, Zenon

LEMMA NoOpFits ==
  /\ NoOp \in OpType /\ NoOp.at = "idle"
  /\ \A l \in {"idle", "statement", "round", "todo", "save", "remove", "unlink", "create",
               "replace"} : /\ At(l) \in OpType /\ At(l).at = l /\ At(l).next = "idle"
BY Zenon DEF NoOp, At, OpType

LEMMA CatchUpFits ==
  ASSUME TypeOK, NEW next \in {"idle", "statement"}
  PROVE  /\ CatchUpThen(next) \in OpType /\ CatchUpThen(next).at = "round"
         /\ CatchUpThen(next).next = next /\ CatchUpThen(next).rounds \in Nat
<1>1. PICK k : k = Cardinality({v \in Names : IsView(v)}) + 1
  BY Zenon
<1>2. k \in Nat
  <2>1. IsFiniteSet({v \in Names : IsView(v)})
    BY ViewsAssumption, FS_Subset, Zenon
  <2>2. Cardinality({v \in Names : IsView(v)}) \in Nat
    BY <2>1, FS_CardinalityType, Zenon
  <2> QED BY <1>1, <2>2
<1>3. CatchUpThen(next) = [NoOp EXCEPT !.at = "round", !.next = next, !.rounds = k]
  BY <1>1, Zenon DEF CatchUpThen
<1> QED BY <1>2, <1>3, Zenon DEF NoOp, OpType

\* The steps that are quiet.
LEMMA Quiet ==
  ASSUME BaseInv
  PROVE  /\ ReplaceError \/ RecreateError \/ BeginStatement \/ EndStatement \/ RefreshDue
              \/ NextRound \/ CaughtUp \/ Fail => QuietStep
         /\ \A v \in Names : Refresh(v) \/ RefreshError(v) => QuietStep
<1> USE DEF BaseInv
<1>1. op \in OpType
  BY Zenon DEF TypeOK
<1>2. ASSUME NEW v \in Names, Refresh(v) PROVE QuietStep
  BY <1>2, Zenon DEF Refresh, QuietStep, OpType, At, NoOp, Start
<1>3. ASSUME NEW v \in Names, RefreshError(v) PROVE QuietStep
  BY <1>3, NoOpFits, Zenon DEF RefreshError, QuietStep
<1>4. ReplaceError \/ RecreateError \/ EndStatement => QuietStep
  BY NoOpFits, Zenon DEF ReplaceError, RecreateError, EndStatement, QuietStep
<1>5. BeginStatement => QuietStep
  BY CatchUpFits, Zenon DEF BeginStatement, QuietStep
<1>6. RefreshDue => QuietStep
  <2> HAVE RefreshDue
  <2>1. PICK due : /\ due \in SUBSET {v \in Scheduled : IsView(v) /\ ~Fresh(v)}
                   /\ op' = [At("todo") EXCEPT !.todo = due, !.next = op.at]
    BY Zenon DEF RefreshDue
  <2>2. due \in SUBSET Names
    BY <2>1, ViewsAssumption, Zenon DEF Scheduled, TypeOK, SettingType
  <2>3. op.at \in {"idle", "statement"}
    BY Zenon DEF RefreshDue, Start
  <2>4. op' \in OpType /\ op'.at = "todo" /\ op'.next = op.at /\ op'.todo = due
    BY <2>1, <2>2, <2>3, Zenon DEF At, NoOp, OpType
  <2> QED BY <2>1, <2>3, <2>4, Zenon DEF RefreshDue, QuietStep
<1>7. NextRound => QuietStep
  <2> HAVE NextRound
  <2>1. PICK todo : todo = ReadyViews
    BY Zenon
  <2>2. todo \in SUBSET Names /\ \A v \in todo : IsView(v)
    BY <2>1, ViewsAssumption, Zenon DEF ReadyViews, StaleOnCommit, OnCommit, TypeOK, SettingType
  <2>3. op.at = "round" /\ op.rounds > 0 /\ op.next \in {"idle", "statement"}
         /\ op.rounds \in Nat
    BY Zenon DEF NextRound, OpInv
  <2>4. PICK k : k = op.rounds - 1
    BY Zenon
  <2>5. k \in Nat \cup {None}
    BY <2>3, <2>4, <1>1 DEF OpType
  <2>6. op' = [op EXCEPT !.at = "todo", !.todo = todo, !.rounds = k]
    BY <2>1, <2>4, Zenon DEF NextRound
  <2>7. op' \in OpType /\ op'.at = "todo" /\ op'.next = op.next /\ op'.todo = todo
    BY <1>1, <2>2, <2>5, <2>6, Zenon DEF OpType
  <2> QED BY <2>2, <2>3, <2>7, Zenon DEF NextRound, QuietStep
<1>8. CaughtUp => QuietStep
  <2> HAVE CaughtUp
  <2>1. op.at = "round" /\ op.next \in {"idle", "statement"} /\ op' = At(op.next)
    BY Zenon DEF CaughtUp, OpInv
  <2>2. op' \in OpType /\ op'.at \in {"idle", "statement"}
    BY <2>1, NoOpFits, Zenon
  <2> QED BY <2>1, <2>2, Zenon DEF CaughtUp, QuietStep
<1>9. Fail => QuietStep
  BY NoOpFits, Zenon DEF Fail, QuietStep
<1> QED BY <1>2, <1>3, <1>4, <1>5, <1>6, <1>7, <1>8, <1>9, Zenon

-----------------------------------------------------------------------------
(***************************************************************************)
(* What the catalog commits of the statements do to a table.  A plain step *)
(* changes no rows of a view but by dropping or compacting them.           *)
(***************************************************************************)
PlainStep(n, t) ==
  /\ TableStep(n, t) /\ op' \in OpType
  /\ t = None \/ views[n] = None \/ Compacts(n, t)
  /\ t = None => metas[n] = None \/ ~RowsNotDropped
  /\ op.at \notin {"save", "remove"}
  /\ op'.at \in {"idle", "round", "replace", "create"}
  /\ op'.at \in {"replace", "create"} => op'.view \in Names
  /\ op'.at = "round" => op'.next \in {"idle", "statement"} /\ op'.rounds \in Nat

LEMMA SetRowsFits ==
  ASSUME TypeOK, TablesInv, NEW n \in Names, HasTable(n), NEW fs, SetRows(n, fs),
         fs \subseteq [path : Nat, rows : Bag]
  PROVE  \E t \in TableMeta : /\ tables' = [tables EXCEPT ![n] = t] /\ t.id = tables[n].id
                              /\ t.version = tables[n].version + 1 /\ t.files = fs
<1>1. tables[n] \in TableMeta /\ tables \in [Names -> TableMeta \cup {None}]
  BY Zenon DEF TypeOK, HasTable
<1>2. PICK t : t = [tables[n] EXCEPT !.files = fs, !.version = @ + 1]
  BY Zenon
<1>3. t \in TableMeta /\ t.id = tables[n].id /\ t.version = tables[n].version + 1 /\ t.files = fs
  <2>1. PICK k : k = tables[n].version + 1
    BY Zenon
  <2>2. k \in Nat /\ fs \in SUBSET [path : Nat, rows : Bag]
    BY <1>1, <2>1 DEF TableMeta
  <2>3. t = [tables[n] EXCEPT !.files = fs, !.version = k]
    BY <1>1, <1>2, <2>1, Zenon DEF TableMeta
  <2> QED BY <1>1, <2>1, <2>2, <2>3, Zenon DEF TableMeta
<1>4. tables' = [tables EXCEPT ![n] = t]
  BY <1>1, <1>2, Zenon DEF SetRows
<1> QED BY <1>3, <1>4, Zenon

LEMMA PlainCreateBase ==
  ASSUME BaseInv, NEW n \in Names, CreateBase(n), op.at \in {"statement", "replace"}
  PROVE  \E t : PlainStep(n, t)
<1> USE DEF BaseInv
<1>1. NewRow \in Bag /\ written + 1 \in 0 .. MaxFiles
  BY NewRowFits, Zenon DEF CreateBase
<1>2. PICK fs : fs \in {{}, {NewFile(NewRow)}} /\ CreateTable(n, fs)
  BY Zenon DEF CreateBase
<1>3. fs \subseteq {NewFile(NewRow)} /\ NewFile(NewRow) \in [path : Nat, rows : Bag]
  BY <1>1, <1>2, NewFileFits, Zenon
<1>4. PICK t : t = [id |-> written + 1, version |-> 1, files |-> fs]
  BY Zenon
<1>5. t \in TableMeta /\ t.id = written + 1 /\ t.files = fs
  BY <1>1, <1>3, <1>4 DEF TableMeta, TypeOK
<1>6. t # None
  BY <1>5, ViewsAssumption, Zenon
<1>7. Makes(n, t)
  BY <1>1, <1>3, <1>5, Zenon DEF Makes, CreateBase, NameFree
<1>8. drops' \in 0 .. MaxDrops
  BY Zenon DEF CreateBase, TypeOK
<1>9. TableStep(n, t)
  BY <1>1, <1>2, <1>4, <1>5, <1>7, <1>8, Zenon DEF TableStep, CreateBase, CreateTable
<1>10. views[n] = None
  BY Zenon DEF CreateBase, NameFree, DurableInv
<1>11. op' \in OpType /\ op'.at = "idle"
  BY NoOpFits, Zenon DEF CreateBase
<1> QED BY <1>6, <1>9, <1>10, <1>11, Zenon DEF PlainStep

LEMMA PlainInsert ==
  ASSUME BaseInv, NEW n \in Names, Insert(n) \/ Rewrite(n)
  PROVE  \E t : PlainStep(n, t)
<1> USE DEF BaseInv
<1>1. NewRow \in Bag /\ written + 1 \in 0 .. MaxFiles
  BY NewRowFits, Zenon DEF Insert, Rewrite
<1>2. NewFile(NewRow) \in [path : Nat, rows : Bag]
  BY <1>1, NewFileFits, Zenon
<1>3. HasTable(n) /\ views[n] = None /\ Start
  BY Zenon DEF Insert, Rewrite, Writable, IsView
<1>4. PICK fs : SetRows(n, fs) /\ fs \subseteq tables[n].files \cup {NewFile(NewRow)}
  <2>1. CASE Insert(n)
    BY <2>1, Zenon DEF Insert
  <2>2. CASE Rewrite(n)
    <3>1. PICK touched, new : /\ new \in {{}, {NewFile(NewRow)}}
                              /\ SetRows(n, (tables[n].files \ touched) \cup new)
      BY <2>2, Zenon DEF Rewrite
    <3> QED BY <3>1, Zenon
  <2> QED BY <2>1, <2>2, Zenon
<1>5. fs \subseteq [path : Nat, rows : Bag]
  BY <1>2, <1>3, <1>4, TableFacts, Zenon DEF TableMeta
<1>6. PICK t \in TableMeta : /\ tables' = [tables EXCEPT ![n] = t] /\ t.id = tables[n].id
                             /\ t.version = tables[n].version + 1 /\ t.files = fs
  BY <1>3, <1>4, <1>5, SetRowsFits, Zenon
<1>7. /\ UNCHANGED <<setting, metas, views, drops>> /\ written' = written + 1
      /\ op' = CatchUpThen("idle")
  BY Zenon DEF Insert, Rewrite
<1>8. Changes(n, t)
  BY <1>1, <1>3, <1>4, <1>6, <1>7, Zenon DEF Changes
<1>9. TableStep(n, t)
  BY <1>1, <1>6, <1>7, <1>8, Zenon DEF TableStep, TypeOK
<1>10. t # None
  BY <1>6, ViewsAssumption, Zenon
<1> QED BY <1>3, <1>7, <1>9, <1>10, CatchUpFits, Zenon DEF PlainStep, Start

LEMMA PlainTruncate ==
  ASSUME BaseInv, NEW n \in Names, Truncate(n)
  PROVE  \E t : PlainStep(n, t)
<1> USE DEF BaseInv
<1>1. HasTable(n) /\ views[n] = None /\ Start
  BY Zenon DEF Truncate, Writable, IsView
<1>2. PICK t \in TableMeta : /\ tables' = [tables EXCEPT ![n] = t] /\ t.id = tables[n].id
                             /\ t.version = tables[n].version + 1 /\ t.files = {}
  BY <1>1, SetRowsFits, Zenon DEF Truncate
<1>3. UNCHANGED <<setting, metas, views, written, drops>> /\ op' = CatchUpThen("idle")
  BY Zenon DEF Truncate
<1>4. Changes(n, t)
  BY <1>1, <1>2, <1>3, Zenon DEF Changes
<1>5. TableStep(n, t)
  BY <1>2, <1>3, <1>4, Zenon DEF TableStep, TypeOK
<1>6. t # None
  BY <1>2, ViewsAssumption, Zenon
<1> QED BY <1>1, <1>3, <1>5, <1>6, CatchUpFits, Zenon DEF PlainStep, Start

LEMMA PlainCompact ==
  ASSUME BaseInv, NEW n \in Names, Compact(n)
  PROVE  \E t : PlainStep(n, t)
<1> USE DEF BaseInv
<1>1. /\ HasTable(n) /\ Start /\ Rows(n) \in Bag /\ tables[n] \in TableMeta
      /\ tables \in [Names -> TableMeta \cup {None}]
  BY TableFacts, Zenon DEF Compact, TypeOK
<1>2. written + 1 \in 0 .. MaxFiles
  BY NewRowFits, Zenon DEF Compact
<1>3. PICK fs : fs = {NewFile(Rows(n))}
  BY Zenon
<1>4. fs \subseteq [path : Nat, rows : Bag]
  BY <1>1, <1>3, NewFileFits, Zenon
<1>5. PICK t : t = [tables[n] EXCEPT !.files = fs]
  BY Zenon
<1>6. t \in TableMeta /\ t.id = tables[n].id /\ t.version = tables[n].version /\ t.files = fs
  BY <1>1, <1>4, <1>5, Zenon DEF TableMeta
<1>7. tables' = [tables EXCEPT ![n] = t]
  BY <1>1, <1>3, <1>5, Zenon DEF Compact
<1>8. UNCHANGED <<setting, metas, views, drops>> /\ written' = written + 1 /\ op' = NoOp
  BY Zenon DEF Compact
<1>9. Compacts(n, t)
  BY <1>1, <1>3, <1>6, <1>8, Zenon DEF Compacts
<1>10. TableStep(n, t)
  BY <1>2, <1>6, <1>7, <1>8, <1>9, Zenon DEF TableStep, TypeOK
<1>11. t # None
  BY <1>6, ViewsAssumption, Zenon
<1> QED BY <1>1, <1>8, <1>9, <1>10, <1>11, NoOpFits, Zenon DEF PlainStep, Start

LEMMA PlainDrop ==
  ASSUME BaseInv, InSync, NEW n \in Names, DropTable(n) \/ ReplaceTable(n)
  PROVE  PlainStep(n, None)
<1> USE DEF BaseInv
<1>1. drops + 1 \in 0 .. MaxDrops /\ MaxDrops # 0
  BY ViewsAssumption DEF DropTable, ReplaceTable, TypeOK, MaxDrops, SettingType
<1>2. /\ tables' = [tables EXCEPT ![n] = None] /\ drops' = drops + 1
      /\ UNCHANGED <<setting, metas, views, written>>
  BY Zenon DEF DropTable, ReplaceTable
<1>3. TableStep(n, None)
  BY <1>1, <1>2, Zenon DEF TableStep, TypeOK
<1>4. op.at \notin {"save", "remove"}
  BY Zenon DEF DropTable, ReplaceTable, Writable, Start
<1>5. ASSUME RowsNotDropped PROVE metas[n] = None
  <2>1. "error" \notin Faults /\ \A m \in Replaceable : Queries[m] = {}
    BY <1>1, <1>5, Zenon DEF RowsNotDropped
  <2>2. CASE DropTable(n)
    BY <1>4, <2>1, <2>2, Zenon DEF InSync, DropTable, Writable, IsView
  <2>3. CASE ReplaceTable(n)
    BY <2>1, <2>3, Zenon DEF ReplaceTable, DefsInv, Defines
  <2> QED BY <2>2, <2>3, Zenon
<1>6. /\ op' \in OpType /\ op'.at \in {"idle", "replace"}
      /\ op'.at = "replace" => op'.view \in Names
  <2>1. CASE DropTable(n)
    BY <2>1, NoOpFits, Zenon DEF DropTable
  <2>2. CASE ReplaceTable(n)
    BY <2>2, Zenon DEF ReplaceTable, At, NoOp, OpType, TypeOK
  <2> QED BY <2>1, <2>2, Zenon
<1> QED BY <1>3, <1>4, <1>5, <1>6, Zenon DEF PlainStep

LEMMA PlainUnlink ==
  ASSUME BaseInv, UnlinkRows
  PROVE  op.view \in Names /\ PlainStep(op.view, None)
<1> USE DEF BaseInv
<1>1. op.at = "unlink" /\ op.view \in Names /\ metas[op.view] = None /\ op \in OpType
  BY Zenon DEF UnlinkRows, OpInv, TypeOK
<1>2. TableStep(op.view, None)
  BY Zenon DEF TableStep, TypeOK, UnlinkRows
<1>3. op' \in OpType /\ op'.at \in {"idle", "create"} /\ (op'.at = "create" => op'.view \in Names)
  <2>1. CASE op.next = "create"
    BY <1>1, <2>1, Zenon DEF UnlinkRows, OpType
  <2>2. CASE op.next # "create"
    BY <2>2, NoOpFits, Zenon DEF UnlinkRows
  <2> QED BY <2>1, <2>2, Zenon
<1> QED BY <1>1, <1>2, <1>3, Zenon DEF PlainStep

-----------------------------------------------------------------------------
(***************************************************************************)
(* What a definition says about the rows of its view stays true when some  *)
(* table changes and the rows do not.                                      *)
(***************************************************************************)
\* A table read that changes is still the same table only if it was not dropped
\* and made again: ids are not used twice.
LEMMA StillSame ==
  ASSUME BaseInv, NEW n \in Names, NEW t, TableStep(n, t), NEW v, NEW def \in ViewDef,
         Defines(v, def), SameTables(def)'
  PROVE  /\ SameTables(def)
         /\ n \in def.dependencies => t \in TableMeta /\ (Changes(n, t) \/ Compacts(n, t))
         /\ \A d \in def.dependencies : d # n => tables'[d] = tables[d]
         /\ n \in def.dependencies => tables'[n] = t
<1> USE DEF BaseInv
<1>1. /\ tables \in [Names -> TableMeta \cup {None}] /\ tables' = [tables EXCEPT ![n] = t]
      /\ def.dependencies \in SUBSET Names /\ written \in Nat
  BY ViewsAssumption DEF TypeOK, TableStep, ViewDef
<1>2. \A d \in def.dependencies : d # n => tables'[d] = tables[d]
  BY <1>1, Zenon
<1>3. tables'[n] = t
  BY <1>1, Zenon
<1>4. n \in def.dependencies => /\ t \in TableMeta /\ (Changes(n, t) \/ Compacts(n, t))
                               /\ t.id = tables[n].id /\ HasTable(n)
  <2> HAVE n \in def.dependencies
  <2>1. t # None /\ t.id = def.ids[n] /\ def.ids[n] \in 0 .. written
    BY <1>3, Zenon DEF SameTables, HasTable, Defines
  <2>2. t.id # written + 1
    BY <1>1, <2>1
  <2>3. t \in TableMeta /\ (Changes(n, t) \/ Compacts(n, t))
    BY <2>1, <2>2, Zenon DEF TableStep, Makes
  <2> QED BY <2>3, Zenon DEF Changes, Compacts
<1>5. SameTables(def)
  <2> SUFFICES ASSUME NEW d \in def.dependencies
               PROVE  HasTable(d) /\ tables[d].id = def.ids[d]
    BY Zenon DEF SameTables
  <2>1. tables'[d] # None /\ tables'[d].id = def.ids[d]
    BY Zenon DEF SameTables, HasTable
  <2> QED BY <1>2, <1>3, <1>4, <2>1, Zenon DEF HasTable
<1> QED BY <1>2, <1>3, <1>4, <1>5, Zenon

\* The rows of a table that does not change or is compacted.
LEMMA RowsKept ==
  ASSUME BaseInv, NEW n \in Names, NEW t, TableStep(n, t), NEW d \in Names,
         d # n \/ Compacts(n, t)
  PROVE  Rows(d)' = Rows(d)
<1> USE DEF BaseInv
<1>1. tables \in [Names -> TableMeta \cup {None}] /\ tables' = [tables EXCEPT ![n] = t]
  BY Zenon DEF TypeOK, TableStep
<1>2. CASE d # n
  BY <1>1, <1>2, Zenon DEF Rows
<1>3. CASE d = n /\ Compacts(n, t)
  <2>1. Rows(n) \in Bag
    BY <1>3, TableFacts, Zenon DEF Compacts
  <2>2. PICK f : f = NewFile(Rows(n))
    BY Zenon
  <2>3. f.rows = Rows(n) /\ f \in [path : Nat, rows : Bag]
    BY <2>1, <2>2, NewFileFits, Zenon
  <2>4. Contents({f}) = Rows(n)
    BY <2>1, <2>3, ContentsOfOne, Zenon
  <2>5. tables'[n].files = {f}
    BY <1>1, <1>3, <2>2, Zenon DEF Compacts
  <2> QED BY <1>3, <2>4, <2>5, Zenon DEF Rows
<1> QED BY <1>2, <1>3, Zenon

LEMMA KeptExact ==
  ASSUME BaseInv, NEW n \in Names, NEW t, TableStep(n, t), NEW v, NEW def \in ViewDef,
         Defines(v, def), Rows(v)' = Rows(v), Exact(v, def)
  PROVE  Exact(v, def)'
<1> SUFFICES ASSUME SameTables(def)'
             PROVE  /\ \A d \in def.dependencies : def.base.base_versions[d] <= tables'[d].version
                    /\ (\A d \in def.dependencies : tables'[d].version = def.base.base_versions[d])
                         => Rows(v)' = QueryRows(def.dependencies)'
  BY Zenon DEF Exact
<1> USE DEF BaseInv
<1>1. /\ SameTables(def)
      /\ n \in def.dependencies => t \in TableMeta /\ (Changes(n, t) \/ Compacts(n, t))
      /\ \A d \in def.dependencies : d # n => tables'[d] = tables[d]
      /\ n \in def.dependencies => tables'[n] = t
  BY StillSame, Zenon
<1>2. def.dependencies \in SUBSET Names
  BY Zenon DEF ViewDef
<1>3. \A d \in def.dependencies : /\ def.base.base_versions[d] \in Nat
                                 /\ tables[d].version \in Nat
                                 /\ def.base.base_versions[d] <= tables[d].version
  BY <1>1, <1>2, TableFacts, Zenon DEF Exact, Defines, SameTables
<1>4. \A d \in def.dependencies : tables[d].version <= tables'[d].version /\ tables'[d].version \in Nat
  BY <1>1, <1>3 DEF Changes, Compacts
<1>5. \A d \in def.dependencies : def.base.base_versions[d] <= tables'[d].version
  BY <1>3, <1>4
<1>6. ASSUME \A d \in def.dependencies : tables'[d].version = def.base.base_versions[d]
      PROVE  Rows(v)' = QueryRows(def.dependencies)'
  <2>1. \A d \in def.dependencies : tables[d].version = def.base.base_versions[d]
    BY <1>3, <1>4, <1>6
  <2>2. n \in def.dependencies => ~Changes(n, t)
    BY <1>1, <1>3, <1>6, <2>1 DEF Changes
  <2>3. \A d \in def.dependencies : Rows(d)' = Rows(d)
    BY <1>1, <1>2, <2>2, RowsKept, Zenon
  <2>4. QueryRows(def.dependencies)' = QueryRows(def.dependencies)
    BY <2>3, Zenon DEF QueryRows
  <2> QED BY <1>1, <2>1, <2>4, Zenon DEF Exact
<1> QED BY <1>5, <1>6, Zenon

\* A path that is still there stands for the file it stood for.
LEMMA KeptExtends ==
  ASSUME BaseInv, NEW n \in Names, NEW t, TableStep(n, t), NEW v, NEW def \in ViewDef,
         Defines(v, def), Rows(v)' = Rows(v), Extends(v, def)
  PROVE  Extends(v, def)'
<1> SUFFICES ASSUME SameTables(def)', NEW d \in Names, def.dependencies = {d},
                    def.base.base_files[d] \subseteq Paths(d)'
             PROVE  Rows(v)' = Contents(Known(def, d)')
  BY Zenon DEF Extends
<1> USE DEF BaseInv
<1>1. /\ SameTables(def)
      /\ n \in def.dependencies => t \in TableMeta /\ (Changes(n, t) \/ Compacts(n, t))
      /\ \A e \in def.dependencies : e # n => tables'[e] = tables[e]
      /\ n \in def.dependencies => tables'[n] = t
  BY StillSame, Zenon
<1>2. CASE d # n
  <2>1. tables'[d] = tables[d]
    BY <1>1, <1>2, Zenon
  <2> QED BY <1>1, <2>1, Zenon DEF Extends, Known, Paths
<1>3. CASE d = n
  <2>1. t \in TableMeta /\ tables'[d] = t /\ HasTable(n)
    BY <1>1, <1>3, Zenon DEF Changes, Compacts
  <2>2. t # None /\ written \in Nat
    BY <2>1, ViewsAssumption DEF TypeOK
  <2>3. \A f \in t.files : f \in tables[n].files \/ f.path = written + 1
    BY <2>2, StepFiles, Zenon
  <2>4. def.base.base_files[d] \subseteq 0 .. written
    BY Zenon DEF Defines
  <2>5. \A f \in t.files : f.path \in def.base.base_files[d] => f \in tables[n].files
    BY <2>2, <2>3, <2>4
  <2>6. \A p \in def.base.base_files[d] : \E f \in t.files : p = f.path
    BY <2>1, Zenon DEF Paths
  <2>7. \A f, g \in tables[n].files : f.path = g.path => f = g
    BY <2>1, Zenon DEF TablesInv
  <2>8. Known(def, d)' = Known(def, d)
    <3>1. \A f : f \in Known(def, d)' <=> f \in t.files /\ f.path \in def.base.base_files[d]
      BY <2>1, Zenon DEF Known
    <3>2. \A f : f \in Known(def, d) <=> f \in tables[n].files /\ f.path \in def.base.base_files[d]
      BY <1>3, Zenon DEF Known
    <3>3. ASSUME NEW f \in Known(def, d) PROVE f \in t.files
      <4>1. PICK g \in t.files : f.path = g.path
        BY <2>6, <3>2, Zenon
      <4> QED BY <2>5, <2>7, <3>2, <4>1, Zenon
    <3> QED BY <2>5, <3>1, <3>2, <3>3, Zenon
  <2>9. def.base.base_files[d] \subseteq Paths(d)
    BY <1>3, <2>5, <2>6, Zenon DEF Paths
  <2> QED BY <1>1, <2>8, <2>9, Zenon DEF Extends
<1> QED BY <1>2, <1>3, Zenon

\* A view none of whose rows the step changes.
LEMMA KeptView ==
  ASSUME BaseInv, NEW n \in Names, NEW t, TableStep(n, t), NEW v \in Names, Rows(v)' = Rows(v),
         views[v] # None
  PROVE  /\ Exact(v, views[v]) => Exact(v, views[v])'
         /\ Extends(v, views[v]) => Extends(v, views[v])'
<1>1. views' = views /\ views[v] \in ViewDef /\ Defines(v, views[v])
  BY Zenon DEF BaseInv, TypeOK, DefsInv, TableStep
<1>2. PICK def \in ViewDef : def = views[v]
  BY <1>1, Zenon
<1>3. Exact(v, def) => Exact(v, def)'
  BY <1>1, <1>2, KeptExact, Zenon
<1>4. Extends(v, def) => Extends(v, def)'
  BY <1>1, <1>2, KeptExtends, Zenon
<1>5. Exact(v, def)' <=> Exact(v, views[v])'
  BY <1>1, <1>2, Zenon DEF Exact, SameTables, HasTable, Rows, QueryRows
<1>6. Extends(v, def)' <=> Extends(v, views[v])'
  BY <1>1, <1>2 DEF Extends, SameTables, HasTable, Rows, Known, Paths
<1> QED BY <1>2, <1>3, <1>4, <1>5, <1>6, Zenon

LEMMA PlainRight ==
  ASSUME BaseInv, InSync, ViewHasRows, ExactInv, NEW n \in Names, NEW t, PlainStep(n, t)
  PROVE  BaseInv' /\ InSync' /\ ViewHasRows' /\ ExactInv'
<1> USE DEF BaseInv, PlainStep
<1>1. TypeOK' /\ TablesInv' /\ DefsInv' /\ DurableInv'
  BY StepBase, Zenon
<1>2. OpInv'
  BY Zenon DEF OpInv
<1>3. /\ tables \in [Names -> TableMeta \cup {None}] /\ tables' = [tables EXCEPT ![n] = t]
      /\ UNCHANGED <<setting, metas, views>>
  BY Zenon DEF TypeOK, TableStep
<1>4. InSync'
  BY <1>3, Zenon DEF InSync, Faults
<1>5. ViewHasRows'
  <2>1. RowsNotDropped' = RowsNotDropped
    BY <1>3, Zenon DEF RowsNotDropped, MaxDrops, Faults, Replaceable, Queries
  <2> SUFFICES ASSUME RowsNotDropped, NEW v \in Names, metas[v] # None
               PROVE  tables'[v] # None
    BY <1>3, <2>1, Zenon DEF ViewHasRows, HasTable
  <2>2. tables[v] # None
    BY Zenon DEF ViewHasRows, HasTable
  <2> QED BY <1>3, <2>2, Zenon
<1>6. ExactInv'
  <2> SUFFICES ASSUME Faults' = {}, NEW v \in Names, views'[v] # None, HasTable(v)'
               PROVE  Exact(v, views[v])' /\ Extends(v, views[v])'
    BY Zenon DEF ExactInv
  <2>1. views[v] # None /\ Faults = {}
    BY <1>3, Zenon DEF Faults
  <2>2. Rows(v)' = Rows(v) /\ HasTable(v)
    <3>1. CASE v # n
      BY <1>3, <3>1, RowsKept, Zenon DEF HasTable
    <3>2. CASE v = n
      <4>1. t # None
        BY <1>3, <3>2, Zenon DEF HasTable
      <4>2. Compacts(n, t)
        BY <2>1, <3>2, <4>1, Zenon
      <4> QED BY <3>2, <4>2, RowsKept DEF Compacts
    <3> QED BY <3>1, <3>2, Zenon
  <2>3. Exact(v, views[v]) /\ Extends(v, views[v])
    BY <2>1, <2>2, Zenon DEF ExactInv
  <2> QED BY <2>1, <2>2, <2>3, KeptView, Zenon
<1> QED BY <1>1, <1>2, <1>4, <1>5, <1>6, Zenon

-----------------------------------------------------------------------------
(***************************************************************************)
(* Creating and refreshing: the rows that are committed, and the           *)
(* definition that is about to be.                                         *)
(***************************************************************************)
\* Rows with the tables they come from: right as long as these are the tables.
Computed(deps, rows, ids) ==
  /\ rows \in Bag /\ ids \in [Names -> Nat \cup {None}]
  /\ \A d \in deps : ids[d] \in 0 .. written
  /\ Faults = {} /\ (\A d \in deps : tables[d].id = ids[d]) => rows = QueryRows(deps)

LEMMA QueryComputed ==
  ASSUME BaseInv, NEW deps \in SUBSET Names, \A d \in deps : HasTable(d)
  PROVE  Computed(deps, QueryRows(deps), Ids(deps))
<1> USE DEF BaseInv
<1>1. QueryRows(deps) \in Bag
  BY QueryRowsBag, Zenon
<1>2. \A d \in deps : tables[d].id \in 0 .. written
  BY TableFacts, ViewsAssumption DEF TablesInv, TypeOK
<1>3. Ids(deps) \in [Names -> Nat \cup {None}] /\ \A d \in deps : Ids(deps)[d] \in 0 .. written
  BY <1>2 DEF Ids
<1> QED BY <1>1, <1>3, Zenon DEF Computed

\* Also when another view answers.
LEMMA AnswersComputed ==
  ASSUME BaseInv, ExactInv, op.at # "save", NEW deps \in SUBSET Names, \A d \in deps : HasTable(d),
         NEW a \in Answers(deps)
  PROVE  Computed(deps, a.rows, a.ids)
<1> USE DEF BaseInv
<1>1. CASE a = [rows |-> QueryRows(deps), ids |-> Ids(deps)]
  <2>1. a.rows = QueryRows(deps) /\ a.ids = Ids(deps)
    BY <1>1, Zenon
  <2> QED BY <2>1, QueryComputed, Zenon
<1>2. CASE a # [rows |-> QueryRows(deps), ids |-> Ids(deps)]
  <2>1. PICK u \in MatchingViews(deps) : HasTable(u) /\ a = [rows |-> Rows(u), ids |-> views[u].ids]
    BY <1>2, Zenon DEF Answers
  <2>2. /\ u \in Names /\ views[u] # None /\ views[u] \in ViewDef /\ views[u].dependencies = deps
        /\ \A d \in deps : tables[d].version = views[u].base.base_versions[d]
    BY <2>1, Zenon DEF MatchingViews, IsView, Fresh, TableVersion, TypeOK
  <2>3. a.rows = Rows(u) /\ a.ids = views[u].ids
    BY <2>1, Zenon
  <2>4. a.rows \in Bag
    BY <2>1, <2>2, <2>3, TableFacts, Zenon
  <2>5. a.ids \in [Names -> Nat \cup {None}]
    BY <2>2, <2>3, Zenon DEF ViewDef
  <2>6. \A d \in deps : a.ids[d] \in 0 .. written
    BY <2>2, <2>3, Zenon DEF DefsInv, Defines
  <2>7. ASSUME Faults = {}, \A d \in deps : tables[d].id = a.ids[d]
        PROVE  a.rows = QueryRows(deps)
    <3>1. SameTables(views[u])
      BY <2>2, <2>3, <2>7, Zenon DEF SameTables
    <3>2. Exact(u, views[u])
      BY <2>1, <2>2, <2>7, Zenon DEF ExactInv
    <3> QED BY <2>2, <2>3, <3>1, <3>2, Zenon DEF Exact
  <2> QED BY <2>4, <2>5, <2>6, <2>7, Zenon DEF Computed
<1> QED BY <1>1, <1>2, Zenon

\* The files that were added make up the difference.
LEMMA RefreshComputed ==
  ASSUME BaseInv, ExactInv, op.at # "save", NEW v \in Names, views[v] # None, CanRefresh(v)
  PROVE  Computed(views[v].dependencies, Refreshed(v).rows, Refreshed(v).ids)
<1> USE DEF BaseInv
<1>1. /\ views[v] \in ViewDef /\ HasTable(v) /\ views[v].dependencies \in SUBSET Names
      /\ \A d \in views[v].dependencies : HasTable(d)
  BY Zenon DEF TypeOK, CanRefresh, ViewDef
<1>2. CASE ~(~Fresh(v) /\ CanAppend(v))
  <2>1. /\ Refreshed(v).rows = QueryRows(views[v].dependencies)
        /\ Refreshed(v).ids = Ids(views[v].dependencies)
    BY <1>2, Zenon DEF Refreshed
  <2> QED BY <1>1, <2>1, QueryComputed, Zenon
<1>3. CASE ~Fresh(v) /\ CanAppend(v)
  <2>1. PICK d \in Names : /\ views[v].dependencies = {d}
                           /\ views[v].base.base_files[d] \subseteq Paths(d)
    BY <1>3, Zenon DEF CanAppend
  <2>2. /\ Refreshed(v).rows = Plus(Rows(v), Contents(AddedFiles(v)))
        /\ Refreshed(v).ids = views[v].ids
    BY <1>3, Zenon DEF Refreshed
  <2>3. PICK def : def = views[v]
    BY Zenon
  <2>4. HasTable(d) /\ tables[d].files \in RowFiles /\ Rows(d) \in Bag /\ Rows(v) \in Bag
    BY <1>1, <2>1, TableFacts, Zenon
  <2>5. AddedFiles(v) = tables[d].files \ Known(def, d)
    BY <2>1, <2>3 DEF AddedFiles, Known
  <2>6. Known(def, d) \in SUBSET tables[d].files
    BY Zenon DEF Known
  <2>7. AddedFiles(v) \in RowFiles
    BY <2>4, <2>5, FS_Subset, Zenon DEF RowFiles
  <2>8. Contents(AddedFiles(v)) \in Bag
    BY <2>7, ContentsLaws, Zenon
  <2>9. Refreshed(v).rows \in Bag
    BY <2>2, <2>4, <2>8 DEF Plus, Bag
  <2>10. /\ Refreshed(v).ids \in [Names -> Nat \cup {None}]
         /\ \A e \in views[v].dependencies : Refreshed(v).ids[e] \in 0 .. written
    BY <1>1, <2>2, Zenon DEF ViewDef, DefsInv, Defines
  <2>11. ASSUME Faults = {}, \A e \in views[v].dependencies : tables[e].id = Refreshed(v).ids[e]
         PROVE  Refreshed(v).rows = QueryRows(views[v].dependencies)
    <3>1. SameTables(views[v])
      BY <1>1, <2>2, <2>11, Zenon DEF SameTables
    <3>2. Extends(v, views[v])
      BY <1>1, <2>11, Zenon DEF ExactInv
    <3>3. Rows(v) = Contents(Known(def, d))
      BY <2>1, <2>3, <3>1, <3>2, Zenon DEF Extends
    <3>4. Rows(d) = Plus(Contents(Known(def, d)), Contents(AddedFiles(v)))
      BY <2>4, <2>5, <2>6, ContentsLaws, Zenon DEF Rows
    <3>5. QueryRows({d}) = Rows(d)
      BY <2>4, QueryRowsOfOne, Zenon
    <3> QED BY <2>1, <2>2, <3>3, <3>4, <3>5, Zenon
  <2> QED BY <2>9, <2>10, <2>11, Zenon DEF Computed
<1> QED BY <1>2, <1>3, Zenon

\* The definition that goes with rows just committed for v.
LEMMA NewDefFits ==
  ASSUME BaseInv, NEW n \in Names, NEW t, TableStep(n, t), Queries[n] # {},
         NEW deps \in SUBSET Names, n \notin deps, \A d \in deps : HasTable(d),
         NEW rows, NEW ids, Computed(deps, rows, ids), Rows(n)' = rows,
         NEW def, def = NewDef(deps, ids)
  PROVE  /\ def \in ViewDef /\ Defines(n, def)'
         /\ Faults = {} => Exact(n, def)' /\ Extends(n, def)'
<1> USE DEF BaseInv
<1>1. \A d \in deps : /\ tables[d].version \in Nat /\ Paths(d) \in SUBSET Nat
                      /\ Paths(d) \subseteq 0 .. written /\ Rows(d) \in Bag
  BY TableFacts, Zenon
<1>2. /\ def.dependencies = deps /\ def.ids = ids /\ def.base = Snapshot(deps)
      /\ def = [dependencies |-> deps, base |-> Snapshot(deps), ids |-> ids]
  BY Zenon DEF NewDef
<1>3. \A d \in deps : /\ def.base.base_versions[d] = tables[d].version
                      /\ def.base.base_files[d] = Paths(d)
  BY <1>2 DEF Snapshot, TableVersion
<1>4. Snapshot(deps) \in [base_versions : [Names -> Nat \cup {None}], base_files : [Names -> SUBSET Nat]]
  BY <1>1, Zenon DEF Snapshot, TableVersion
<1>5. def \in ViewDef
  BY <1>2, <1>4, Zenon DEF ViewDef, Computed
<1>6. Defines(n, def)
  BY <1>1, <1>2, <1>3 DEF Defines, Computed
<1>7. Defines(n, def)'
  <2>1. written \in Nat /\ written' \in Nat /\ written <= written' /\ UNCHANGED setting
    BY ViewsAssumption DEF TableStep, TypeOK, Makes, Changes, Compacts
  <2> QED BY <1>6, <2>1, DefinesKept, ZenonT(40)
<1>8. tables \in [Names -> TableMeta \cup {None}] /\ tables' = [tables EXCEPT ![n] = t]
  BY Zenon DEF TypeOK, TableStep
<1>9. \A d \in deps : tables'[d] = tables[d]
  BY <1>8, Zenon
<1>10. ASSUME Faults = {}, SameTables(def)' PROVE Rows(n)' = QueryRows(deps)
  BY <1>2, <1>9, <1>10, Zenon DEF SameTables, Computed
<1>11. QueryRows(deps)' = QueryRows(deps)
  BY <1>9, Zenon DEF QueryRows, Rows
<1>12. Faults = {} => Exact(n, def)'
  BY <1>1, <1>2, <1>3, <1>9, <1>10, <1>11 DEF Exact
<1>13. ASSUME Faults = {}, SameTables(def)', NEW d \in Names, deps = {d}
       PROVE  Rows(n)' = Contents(Known(def, d)')
  <2>1. Known(def, d)' = tables[d].files
    BY <1>3, <1>9, <1>13, Zenon DEF Known, Paths
  <2>2. QueryRows({d}) = Rows(d)
    BY <1>1, <1>13, QueryRowsOfOne, Zenon
  <2> QED BY <1>10, <1>13, <2>1, <2>2, Zenon DEF Rows
<1>14. Faults = {} => Extends(n, def)'
  BY <1>2, <1>13, Zenon DEF Extends
<1> QED BY <1>5, <1>7, <1>12, <1>14, Zenon

\* The first commit of create_view and of refresh_view.
LEMMA FirstCommit ==
  ASSUME BaseInv, InSync, ViewHasRows, ExactInv, op.at \notin {"save", "remove"},
         NEW n \in Names, NEW t, TableStep(n, t), Queries[n] # {},
         NEW deps \in SUBSET Names, n \notin deps, \A d \in deps : HasTable(d),
         NEW rows, NEW ids, Computed(deps, rows, ids), t # None, t.files = {NewFile(rows)},
         op' \in OpType, op'.at = "save", op'.view = n, op'.def = NewDef(deps, ids),
         op'.next \in {"idle", "statement"}, \A v \in op'.todo : IsView(v),
         Faults = {} /\ views[n] # None => Exact(n, views[n])'
  PROVE  BaseInv' /\ InSync' /\ ViewHasRows' /\ ExactInv'
<1> USE DEF BaseInv
<1>1. TypeOK' /\ TablesInv' /\ DefsInv' /\ DurableInv'
  BY StepBase, Zenon
<1>2. /\ tables \in [Names -> TableMeta \cup {None}] /\ tables' = [tables EXCEPT ![n] = t]
      /\ UNCHANGED <<setting, metas, views>>
  BY Zenon DEF TypeOK, TableStep
<1>3. Rows(n)' = rows
  <2>1. PICK f : f = NewFile(rows)
    BY Zenon
  <2>2. f.rows = rows /\ rows \in Bag
    BY <2>1, NewFileFits, Zenon DEF Computed
  <2>3. Contents({f}) = rows
    BY <2>2, ContentsOfOne, Zenon
  <2>4. tables'[n].files = {f}
    BY <1>2, <2>1, Zenon
  <2> QED BY <2>3, <2>4, Zenon DEF Rows
<1>4. PICK def : def = NewDef(deps, ids)
  BY Zenon
<1>5. /\ def \in ViewDef /\ Defines(n, def)'
      /\ Faults = {} => Exact(n, def)' /\ Extends(n, def)'
  BY <1>3, <1>4, NewDefFits, Zenon
<1>6. def # None /\ op'.def = def /\ tables'[n] # None
  BY <1>2, <1>4, <1>5, ViewsAssumption, Zenon
<1>7. Defines(op.view, op.def)'
  BY <1>5, <1>6, Zenon DEF Defines, Queries
<1>8. OpInv'
  BY <1>2, <1>6, <1>7, Zenon DEF OpInv, HasTable, IsView
<1>9. InSync'
  BY <1>2, Zenon DEF InSync, Faults
<1>10. ViewHasRows'
  BY <1>2, Zenon DEF ViewHasRows, RowsNotDropped, HasTable, MaxDrops, Faults, Replaceable, Queries
<1>11. ExactInv'
  <2> SUFFICES ASSUME Faults' = {}
               PROVE  /\ \A v \in Names : views'[v] # None /\ HasTable(v)' =>
                           /\ Exact(v, views[v])'
                           /\ Extends(v, views[v])' \/ (op'.at = "save" /\ op'.view = v)
                      /\ Exact(op.view, op.def)' /\ Extends(op.view, op.def)'
    BY Zenon DEF ExactInv
  <2>1. Faults = {}
    BY <1>2, Zenon DEF Faults
  <2>2. Exact(op.view, op.def)'
    BY <1>5, <1>6, <2>1, ZenonT(40) DEF Exact, SameTables, HasTable, Rows, QueryRows
  <2>3. Extends(op.view, op.def)'
    BY <1>5, <1>6, <2>1 DEF Extends, SameTables, HasTable, Rows, Known, Paths
  <2>4. ASSUME NEW v \in Names, views'[v] # None, HasTable(v)'
        PROVE  /\ Exact(v, views[v])'
               /\ Extends(v, views[v])' \/ (op'.at = "save" /\ op'.view = v)
    <3>1. CASE v = n
      BY <1>2, <2>1, <2>4, <3>1, Zenon
    <3>2. CASE v # n
      <4>1. Rows(v)' = Rows(v) /\ HasTable(v) /\ views[v] # None
        BY <1>2, <2>4, <3>2, RowsKept, Zenon DEF HasTable
      <4>2. Exact(v, views[v]) /\ Extends(v, views[v])
        BY <2>1, <4>1, Zenon DEF ExactInv
      <4> QED BY <4>1, <4>2, KeptView, Zenon
    <3> QED BY <3>1, <3>2, Zenon
  <2> QED BY <2>2, <2>3, <2>4, Zenon
<1> QED BY <1>1, <1>8, <1>9, <1>10, <1>11, Zenon

LEMMA CreateRowsRight ==
  ASSUME BaseInv, InSync, ViewHasRows, ExactInv, NEW v \in Names, CreateRows(v),
         op.at \in {"idle", "statement", "create"}
  PROVE  BaseInv' /\ InSync' /\ ViewHasRows' /\ ExactInv'
<1> USE DEF BaseInv
<1>1. PICK deps \in Queries[v] :
        /\ v \notin deps /\ \A d \in deps : HasTable(d)
        /\ \E a \in Answers(deps) :
             /\ CreateTable(v, {NewFile(a.rows)})
             /\ op' = [At("save") EXCEPT !.view = v, !.def = NewDef(deps, a.ids)]
  BY Zenon DEF CreateRows
<1>2. PICK a \in Answers(deps) :
             /\ CreateTable(v, {NewFile(a.rows)})
             /\ op' = [At("save") EXCEPT !.view = v, !.def = NewDef(deps, a.ids)]
  BY <1>1, Zenon
<1>3. deps \in SUBSET Names /\ Queries[v] # {}
  BY <1>1, ViewsAssumption DEF Queries, TypeOK, SettingType
<1>4. Computed(deps, a.rows, a.ids)
  BY <1>1, <1>3, AnswersComputed, Zenon
<1>5. PICK fs : fs = {NewFile(a.rows)}
  BY Zenon
<1>6. PICK t : t = [id |-> written + 1, version |-> 1, files |-> fs]
  BY Zenon
<1>7. written + 1 \in 0 .. MaxFiles /\ written' = written + 1 /\ views[v] = None
  BY NewRowFits, Zenon DEF CreateRows, NameFree, DurableInv
<1>8. t \in TableMeta /\ t.files = fs /\ t.id = written + 1
  <2>1. NewFile(a.rows) \in [path : Nat, rows : Bag]
    BY <1>4, NewFileFits, Zenon DEF Computed
  <2> QED BY <1>5, <1>6, <1>7, <2>1 DEF TableMeta, TypeOK
<1>9. Makes(v, t)
  BY <1>4, <1>5, <1>7, <1>8, Zenon DEF Makes, CreateRows, NameFree, Computed
<1>10. TableStep(v, t)
  BY <1>2, <1>5, <1>6, <1>7, <1>8, <1>9, ZenonT(40) DEF TableStep, CreateRows, CreateTable, TypeOK
<1>11. NewDef(deps, a.ids) \in ViewDef
  <2>1. \A d \in deps : tables[d].version \in Nat /\ Paths(d) \in SUBSET Nat
    BY <1>1, <1>3, TableFacts, Zenon
  <2>2. Snapshot(deps) \in [base_versions : [Names -> Nat \cup {None}],
                            base_files : [Names -> SUBSET Nat]]
    BY <2>1, Zenon DEF Snapshot, TableVersion
  <2> QED BY <1>3, <1>4, <2>2, Zenon DEF NewDef, ViewDef, Computed
<1>12. PICK def : def = NewDef(deps, a.ids)
  BY Zenon
<1>13. /\ op' \in OpType /\ op'.at = "save" /\ op'.view = v /\ op'.def = def
       /\ op'.next = "idle" /\ op'.todo = {}
  BY <1>2, <1>11, <1>12, Zenon DEF At, NoOp, OpType
<1>14. t # None
  BY <1>8, ViewsAssumption, Zenon
<1> QED BY <1>1, <1>3, <1>4, <1>5, <1>7, <1>8, <1>10, <1>12, <1>13, <1>14, FirstCommit, SMTT(30)

LEMMA RefreshRowsRight ==
  ASSUME BaseInv, InSync, ViewHasRows, ExactInv, NEW v \in Names, RefreshRows(v)
  PROVE  BaseInv' /\ InSync' /\ ViewHasRows' /\ ExactInv'
<1> USE DEF BaseInv
<1>1. /\ op.at = "todo" /\ v \in op.todo /\ views[v] # None /\ CanRefresh(v) /\ HasTable(v)
      /\ op \in OpType /\ op.next \in {"idle", "statement"} /\ \A u \in op.todo : IsView(u)
  BY Zenon DEF RefreshRows, OpInv, IsView, CanRefresh, TypeOK
<1>2. views[v] \in ViewDef /\ Defines(v, views[v])
  BY <1>1, Zenon DEF TypeOK, DefsInv
<1>3. PICK deps : deps = views[v].dependencies
  BY Zenon
<1>4. /\ deps \in SUBSET Names /\ v \notin deps /\ Queries[v] # {}
      /\ \A d \in deps : HasTable(d)
  BY <1>1, <1>2, <1>3, Zenon DEF ViewDef, Defines, CanRefresh
<1>5. PICK rows, ids : rows = Refreshed(v).rows /\ ids = Refreshed(v).ids
  BY Zenon
<1>6. Computed(deps, rows, ids)
  BY <1>1, <1>3, <1>5, RefreshComputed, Zenon
<1>7. PICK fs : fs = {NewFile(rows)}
  BY Zenon
<1>8. fs \subseteq [path : Nat, rows : Bag] /\ SetRows(v, fs)
  BY <1>5, <1>6, <1>7, NewFileFits, Zenon DEF RefreshRows, Computed
<1>9. PICK t \in TableMeta : /\ tables' = [tables EXCEPT ![v] = t] /\ t.id = tables[v].id
                             /\ t.version = tables[v].version + 1 /\ t.files = fs
  BY <1>1, <1>8, SetRowsFits
<1>10. /\ UNCHANGED <<setting, metas, views, drops>> /\ written' = written + 1
       /\ written + 1 \in 0 .. MaxFiles
  BY NewRowFits, Zenon DEF RefreshRows
<1>11. Changes(v, t)
  BY <1>1, <1>6, <1>7, <1>9, <1>10, Zenon DEF Changes, Computed
<1>12. TableStep(v, t) /\ t # None
  BY <1>9, <1>10, <1>11, ViewsAssumption, Zenon DEF TableStep, TypeOK
<1>13. PICK def : def = NewDef(deps, ids)
  BY Zenon
<1>14. def \in ViewDef
  <2>1. \A d \in deps : tables[d].version \in Nat /\ Paths(d) \in SUBSET Nat
    BY <1>4, TableFacts, Zenon
  <2>2. Snapshot(deps) \in [base_versions : [Names -> Nat \cup {None}],
                            base_files : [Names -> SUBSET Nat]]
    BY <2>1, Zenon DEF Snapshot, TableVersion
  <2> QED BY <1>4, <1>6, <1>13, <2>2, Zenon DEF NewDef, ViewDef, Computed
<1>15. op' = [op EXCEPT !.at = "save", !.view = v, !.todo = @ \ {v}, !.def = def]
  BY <1>3, <1>5, <1>13, Zenon DEF RefreshRows
<1>16. /\ op' \in OpType /\ op'.at = "save" /\ op'.view = v /\ op'.def = def
       /\ op'.next = op.next /\ op'.todo = op.todo \ {v}
  BY <1>1, <1>14, <1>15, Zenon DEF OpType
<1>17. ASSUME Faults = {} PROVE Exact(v, views[v])'
  <2>1. tables \in [Names -> TableMeta \cup {None}] /\ views' = views
    BY <1>10, Zenon DEF TypeOK
  <2>2. \A d \in deps : tables'[d] = tables[d]
    BY <1>4, <1>9, <2>1, Zenon
  <2>3. Exact(v, views[v])
    BY <1>1, <1>17, Zenon DEF ExactInv
  <2>4. QueryRows(deps)' = QueryRows(deps)
    BY <2>2, Zenon DEF QueryRows, Rows
  <2>5. ASSUME \A d \in deps : tables[d].version = views[v].base.base_versions[d]
        PROVE  Rows(v)' = QueryRows(deps)
    <3>1. Fresh(v)
      BY <1>3, <1>4, <2>5, Zenon DEF Fresh, TableVersion
    <3>2. rows = QueryRows(deps)
      BY <1>3, <1>5, <3>1, Zenon DEF Refreshed
    <3>3. PICK f : f = NewFile(rows)
      BY Zenon
    <3>4. f.rows = rows /\ rows \in Bag
      BY <1>6, <3>3, NewFileFits, Zenon DEF Computed
    <3>5. tables'[v].files = {f}
      BY <1>7, <1>9, <2>1, <3>3, Zenon
    <3> QED BY <3>2, <3>4, <3>5, ContentsOfOne, Zenon DEF Rows
  <2>6. SameTables(views[v])' => SameTables(views[v])
    BY <1>3, <2>1, <2>2, Zenon DEF SameTables, HasTable
  <2> QED BY <1>3, <2>1, <2>2, <2>3, <2>4, <2>5, <2>6, ZenonT(40) DEF Exact
<1>18. op'.next \in {"idle", "statement"} /\ \A u \in op'.todo : IsView(u)
  BY <1>1, <1>16, Zenon
<1>19. op.at \notin {"save", "remove"} /\ t.files = {NewFile(rows)} /\ op'.def = NewDef(deps, ids)
  BY <1>1, <1>7, <1>9, <1>13, <1>16, Zenon
<1> QED BY <1>4, <1>6, <1>12, <1>16, <1>17, <1>18, <1>19, FirstCommit, ZenonT(40)

\* The second commit.
LEMMA SaveViewRight ==
  ASSUME BaseInv, InSync, ViewHasRows, ExactInv, SaveView
  PROVE  BaseInv' /\ InSync' /\ ViewHasRows' /\ ExactInv'
<1> USE DEF BaseInv
<1>1. PICK v, def : v = op.view /\ def = op.def
  BY Zenon
<1>2. /\ op.at = "save" /\ v \in Names /\ def # None /\ def \in ViewDef /\ Defines(v, def)
      /\ HasTable(v) /\ op.next \in {"idle", "statement"} /\ \A u \in op.todo : IsView(u)
      /\ op \in OpType
  BY <1>1, Zenon DEF SaveView, OpInv, TypeOK, OpType
<1>3. /\ metas' = [metas EXCEPT ![v] = def] /\ views' = [views EXCEPT ![v] = def]
      /\ metas \in [Names -> ViewDef \cup {None}] /\ views \in [Names -> ViewDef \cup {None}]
      /\ UNCHANGED <<setting, tables, written, drops>>
  BY <1>1, Zenon DEF SaveView, TypeOK
<1>4. /\ op' \in OpType /\ op'.at \in {"todo", "round", "idle", "statement"}
      /\ op'.at = "round" => op'.rounds \in Nat
      /\ op'.next = op.next /\ op'.todo = op.todo
  <2>1. PICK at : at = IF op.todo # {} THEN "todo"
                       ELSE IF op.rounds # None THEN "round" ELSE op.next
    BY Zenon
  <2>2. /\ at \in {"todo", "round", "idle", "statement"} /\ op.rounds \in Nat \cup {None}
        /\ at = "round" => op.rounds # None
    BY <1>2, <2>1, Zenon DEF OpType
  <2>3. op' = [op EXCEPT !.at = at, !.view = None, !.def = None]
    BY <2>1, Zenon DEF SaveView
  <2> QED BY <1>2, <2>2, <2>3, Zenon DEF OpType
<1>5. TypeOK'
  BY <1>2, <1>3, <1>4, Zenon DEF TypeOK, MaxDrops
<1>6. TablesInv'
  BY <1>3, Zenon DEF TablesInv, HasTable
<1>7. DefsInv'
  <2>1. \A u \in Names : /\ metas'[u] = IF u = v THEN def ELSE metas[u]
                         /\ views'[u] = IF u = v THEN def ELSE views[u]
    BY <1>3, Zenon
  <2>2. ASSUME NEW u \in Names
        PROVE  /\ metas'[u] # None => Defines(u, metas'[u])
               /\ views'[u] # None => Defines(u, views'[u])
    BY <1>2, <2>1, Zenon DEF DefsInv
  <2>3. ASSUME NEW u \in Names
        PROVE  /\ metas'[u] # None => Defines(u, metas[u])'
               /\ views'[u] # None => Defines(u, views[u])'
    BY <1>3, <2>2, Zenon DEF Defines, Queries
  <2> QED BY <2>3, Zenon DEF DefsInv
<1>8. OpInv'
  BY <1>2, <1>3, <1>4 DEF OpInv, IsView
<1>9. DurableInv'
  BY <1>2, <1>3, Zenon DEF DurableInv
<1>10. InSync'
  BY <1>2, <1>3, Zenon DEF InSync, Faults
<1>11. ViewHasRows'
  BY <1>2, <1>3, Zenon DEF ViewHasRows, RowsNotDropped, HasTable, MaxDrops, Faults, Replaceable, Queries
<1>12. ExactInv'
  <2> SUFFICES ASSUME Faults' = {}, NEW u \in Names, views'[u] # None, HasTable(u)'
               PROVE  Exact(u, views[u])' /\ Extends(u, views[u])'
    BY <1>4, Zenon DEF ExactInv
  <2>1. Faults = {}
    BY <1>3, Zenon DEF Faults
  <2>2. Exact(u, views'[u]) /\ Extends(u, views'[u])
    <3>1. CASE u = v
      BY <1>1, <1>2, <1>3, <2>1, <3>1, Zenon DEF ExactInv
    <3>2. CASE u # v
      BY <1>1, <1>3, <2>1, <3>2, Zenon DEF ExactInv, HasTable
    <3> QED BY <3>1, <3>2, Zenon
  <2>3. PICK d : d = views'[u]
    BY ZenonT(40)
  <2>4. Exact(u, d)' /\ Extends(u, d)'
    BY <1>3, <2>2, <2>3, SMTT(30) DEF Exact, Extends, SameTables, HasTable, Rows, QueryRows, Known, Paths
  <2> QED BY <2>3, <2>4, Zenon DEF Exact, Extends, SameTables, HasTable, Rows, QueryRows, Known, Paths
<1> QED BY <1>5, <1>6, <1>7, <1>8, <1>9, <1>10, <1>11, <1>12, ZenonT(40)

-----------------------------------------------------------------------------
(***************************************************************************)
(* The other steps leave the tables alone, and either every definition or  *)
(* all but the one that is on its way out.                                 *)
(***************************************************************************)
\* Definitions that stay are as right as they were.
LEMMA ExactKept ==
  ASSUME ExactInv, UNCHANGED <<setting, tables>>, op.at # "save", op'.at # "save",
         Faults = {} => \A v \in Names : views'[v] \in {views[v], None}
  PROVE  ExactInv'
<1> SUFFICES ASSUME Faults' = {}, NEW v \in Names, views'[v] # None, HasTable(v)'
             PROVE  Exact(v, views[v])' /\ Extends(v, views[v])'
  BY Zenon DEF ExactInv
<1>1. Faults = {} /\ HasTable(v) /\ views'[v] = views[v]
  BY Zenon DEF Faults, HasTable
<1>2. PICK def : def = views[v]
  BY Zenon
<1>3. Exact(v, def) /\ Extends(v, def)
  BY <1>1, <1>2, Zenon DEF ExactInv
<1>4. Exact(v, def)' /\ Extends(v, def)'
  BY <1>3, Zenon DEF Exact, Extends, SameTables, HasTable, Rows, QueryRows, Known, Paths
<1> QED BY <1>1, <1>2, <1>4
        DEF Exact, Extends, SameTables, HasTable, Rows, QueryRows, Known, Paths

LEMMA QuietRight ==
  ASSUME BaseInv, InSync, ViewHasRows, ExactInv, QuietStep
  PROVE  BaseInv' /\ InSync' /\ ViewHasRows' /\ ExactInv'
<1>1. BaseInv'
  BY QuietBase, Zenon
<1>2. InSync' /\ ViewHasRows'
  BY Zenon DEF QuietStep, InSync, Faults, ViewHasRows, RowsNotDropped, HasTable, MaxDrops, Replaceable,
         Queries
<1>3. ExactInv'
  <2>1. CASE Faults # {}
    BY <2>1, Zenon DEF QuietStep, ExactInv, Faults
  <2>2. CASE Faults = {}
    BY <2>2, ExactKept, Zenon DEF QuietStep
  <2> QED BY <2>1, <2>2, Zenon
<1> QED BY <1>1, <1>2, <1>3, Zenon

LEMMA DropViewRight ==
  ASSUME BaseInv, InSync, ViewHasRows, ExactInv, NEW v \in Names, DropView(v)
  PROVE  BaseInv' /\ InSync' /\ ViewHasRows' /\ ExactInv'
<1> USE DEF BaseInv
<1>1. /\ op.at \in {"idle", "statement"} /\ views' = [views EXCEPT ![v] = None]
      /\ views \in [Names -> ViewDef \cup {None}]
      /\ UNCHANGED <<setting, tables, metas, written, drops>>
  BY Zenon DEF DropView, Start, TypeOK
<1>2. op' \in OpType /\ op'.at = "remove" /\ op'.view = v
  <2>1. PICK next, before :
          /\ next \in {"idle", "create"} /\ before \in {tables, None}
          /\ op' = [At("remove") EXCEPT !.view = v, !.next = next, !.before = before]
    BY Zenon DEF DropView
  <2>2. before \in [Names -> TableMeta \cup {None}] \cup {None}
    BY <2>1, Zenon DEF TypeOK
  <2> QED BY <2>1, <2>2, Zenon DEF At, NoOp, OpType
<1>3. TypeOK'
  BY <1>1, <1>2, Zenon DEF TypeOK, MaxDrops
<1>4. TablesInv' /\ DurableInv'
  BY <1>1, ZenonT(40) DEF TablesInv, HasTable, DurableInv
<1>5. DefsInv'
  BY <1>1 DEF DefsInv, Defines, Queries
<1>6. OpInv'
  BY <1>1, <1>2, Zenon DEF OpInv
<1>7. InSync'
  BY <1>1, <1>2, Zenon DEF InSync, Faults
<1>8. ViewHasRows'
  BY <1>1, Zenon DEF ViewHasRows, RowsNotDropped, HasTable, MaxDrops, Faults, Replaceable, Queries
<1>9. ExactInv'
  BY <1>1, <1>2, ExactKept, Zenon
<1> QED BY <1>3, <1>4, <1>5, <1>6, <1>7, <1>8, <1>9, Zenon

LEMMA RemoveMetaRight ==
  ASSUME BaseInv, InSync, ViewHasRows, ExactInv, RemoveMeta
  PROVE  BaseInv' /\ InSync' /\ ViewHasRows' /\ ExactInv'
<1> USE DEF BaseInv
<1>1. /\ op.at = "remove" /\ op.view \in Names /\ views[op.view] = None /\ op \in OpType
      /\ metas' = [metas EXCEPT ![op.view] = None] /\ metas \in [Names -> ViewDef \cup {None}]
      /\ UNCHANGED <<setting, tables, views, written, drops>>
  BY Zenon DEF RemoveMeta, OpInv, TypeOK
<1>2. op' \in OpType /\ op'.at = "unlink" /\ op'.view = op.view
  BY <1>1 DEF RemoveMeta, OpType
<1>3. TypeOK'
  BY <1>1, <1>2, Zenon DEF TypeOK, MaxDrops
<1>4. TablesInv' /\ DurableInv'
  BY <1>1, ZenonT(40) DEF TablesInv, HasTable, DurableInv
<1>5. DefsInv'
  BY <1>1 DEF DefsInv, Defines, Queries
<1>6. OpInv'
  BY <1>1, <1>2, Zenon DEF OpInv
<1>7. InSync'
  BY <1>1, <1>2, Zenon DEF InSync, Faults
<1>8. ViewHasRows'
  BY <1>1, Zenon DEF ViewHasRows, RowsNotDropped, HasTable, MaxDrops, Faults, Replaceable, Queries
<1>9. ExactInv'
  BY <1>1, <1>2, ExactKept, ZenonT(40)
<1> QED BY <1>3, <1>4, <1>5, <1>6, <1>7, <1>8, <1>9, ZenonT(40)

LEMMA RestartRight ==
  ASSUME BaseInv, InSync, ViewHasRows, ExactInv, Restart
  PROVE  BaseInv' /\ InSync' /\ ViewHasRows' /\ ExactInv'
<1> USE DEF BaseInv
<1>1. /\ views' = metas /\ UNCHANGED <<setting, tables, metas, written, drops>>
      /\ op' \in OpType /\ op'.at = "idle"
  BY NoOpFits, Zenon DEF Restart
<1>2. TypeOK'
  BY <1>1, Zenon DEF TypeOK, MaxDrops
<1>3. TablesInv' /\ DurableInv'
  BY <1>1, Zenon DEF TablesInv, HasTable, DurableInv
<1>4. DefsInv'
  BY <1>1, Zenon DEF DefsInv, Defines, Queries
<1>5. OpInv'
  BY <1>1, Zenon DEF OpInv
<1>6. InSync'
  BY <1>1, Zenon DEF InSync
<1>7. ViewHasRows'
  BY <1>1, Zenon DEF ViewHasRows, RowsNotDropped, HasTable, MaxDrops, Faults, Replaceable, Queries
<1>8. ExactInv'
  <2>1. CASE Faults # {}
    BY <1>1, <2>1, Zenon DEF ExactInv, Faults
  <2>2. CASE Faults = {}
    <3>1. op.at \notin {"save", "remove"}
      BY <2>2, Zenon DEF Restart
    <3>2. \A v \in Names : views'[v] = views[v]
      BY <1>1, <2>2, <3>1, Zenon DEF InSync
    <3> QED BY <1>1, <3>1, <3>2, ExactKept, Zenon
  <2> QED BY <2>1, <2>2, Zenon
<1> QED BY <1>2, <1>3, <1>4, <1>5, <1>6, <1>7, <1>8, Zenon

ViewsInv == BaseInv /\ InSync /\ ViewHasRows /\ ExactInv

LEMMA ViewsInit == Init => ViewsInv
<1> SUFFICES ASSUME Init PROVE ViewsInv
  BY Zenon
<1>1. TypeOK
  <2>1. MaxDrops \in Nat /\ MaxFiles \in Nat
    BY ViewsAssumption, Zenon DEF Init, MaxDrops, SettingType
  <2> QED BY <2>1, NoOpFits DEF Init, TypeOK
<1>2. op.at = "idle" /\ \A v \in Names : tables[v] = None /\ metas[v] = None /\ views[v] = None
  BY NoOpFits, Zenon DEF Init
<1>3. TablesInv /\ DefsInv /\ DurableInv /\ OpInv
  BY <1>2, Zenon DEF TablesInv, HasTable, DefsInv, DurableInv, OpInv
<1>4. InSync /\ ViewHasRows /\ ExactInv
  BY <1>2, ZenonT(40) DEF InSync, ViewHasRows, ExactInv
<1> QED BY <1>1, <1>3, <1>4, Zenon DEF ViewsInv, BaseInv

LEMMA ViewsNext == ViewsInv /\ [Next]_vars => ViewsInv'
<1> SUFFICES ASSUME BaseInv, InSync, ViewHasRows, ExactInv, [Next]_vars
             PROVE  BaseInv' /\ InSync' /\ ViewHasRows' /\ ExactInv'
  BY Zenon DEF ViewsInv
<1>1. ASSUME NEW n \in Names, CreateTableAs(n)
      PROVE  BaseInv' /\ InSync' /\ ViewHasRows' /\ ExactInv'
  BY <1>1, PlainCreateBase, PlainRight, Zenon DEF CreateTableAs
<1>2. CASE ReplaceRows
  <2>1. op.at = "replace" /\ op.view \in Names /\ CreateBase(op.view)
    BY <1>2, Zenon DEF ReplaceRows, BaseInv, OpInv
  <2> QED BY <2>1, PlainCreateBase, PlainRight, Zenon
<1>3. ASSUME NEW n \in Names, ReplaceTable(n) \/ DropTable(n)
      PROVE  BaseInv' /\ InSync' /\ ViewHasRows' /\ ExactInv'
  BY <1>3, PlainDrop, PlainRight, Zenon
<1>4. ASSUME NEW n \in Names, Insert(n) \/ Rewrite(n)
      PROVE  BaseInv' /\ InSync' /\ ViewHasRows' /\ ExactInv'
  BY <1>4, PlainInsert, PlainRight, Zenon
<1>5. ASSUME NEW n \in Names, Truncate(n)
      PROVE  BaseInv' /\ InSync' /\ ViewHasRows' /\ ExactInv'
  BY <1>5, PlainTruncate, PlainRight, Zenon
<1>6. ASSUME NEW n \in Names, Compact(n)
      PROVE  BaseInv' /\ InSync' /\ ViewHasRows' /\ ExactInv'
  BY <1>6, PlainCompact, PlainRight, Zenon
<1>7. CASE UnlinkRows
  <2>1. op.view \in Names /\ PlainStep(op.view, None)
    BY <1>7, PlainUnlink, Zenon
  <2> QED BY <2>1, PlainRight, Zenon
<1>8. ASSUME NEW n \in Names, CreateView(n)
      PROVE  BaseInv' /\ InSync' /\ ViewHasRows' /\ ExactInv'
  BY <1>8, CreateRowsRight, Zenon DEF CreateView, Start
<1>9. CASE RecreateView
  <2>1. op.at = "create" /\ op.view \in Names /\ CreateRows(op.view)
    BY <1>9, Zenon DEF RecreateView, BaseInv, OpInv
  <2> QED BY <2>1, CreateRowsRight, Zenon
<1>10. ASSUME NEW n \in Names, RefreshRows(n)
       PROVE  BaseInv' /\ InSync' /\ ViewHasRows' /\ ExactInv'
  BY <1>10, RefreshRowsRight, Zenon
<1>11. CASE SaveView
  BY <1>11, SaveViewRight, Zenon
<1>12. ASSUME NEW n \in Names, DropView(n)
       PROVE  BaseInv' /\ InSync' /\ ViewHasRows' /\ ExactInv'
  BY <1>12, DropViewRight, Zenon
<1>13. CASE RemoveMeta
  BY <1>13, RemoveMetaRight, Zenon
<1>14. CASE Restart
  BY <1>14, RestartRight, Zenon
<1>15. ASSUME NEW n \in Names, Refresh(n) \/ RefreshError(n)
       PROVE  BaseInv' /\ InSync' /\ ViewHasRows' /\ ExactInv'
  BY <1>15, Quiet, QuietRight, Zenon
<1>16. CASE ReplaceError \/ RecreateError \/ BeginStatement \/ EndStatement \/ RefreshDue
              \/ NextRound \/ CaughtUp \/ Fail
  BY <1>16, Quiet, QuietRight, Zenon
<1>17. CASE UNCHANGED vars
  <2> USE <1>17 DEF vars
  <2>1. BaseInv'
    BY DEF BaseInv, TypeOK, MaxDrops, TablesInv, HasTable, DefsInv, Defines, Queries, OpInv, IsView,
           DurableInv
  <2>2. InSync' /\ ViewHasRows'
    BY ZenonT(40) DEF InSync, Faults, ViewHasRows, RowsNotDropped, HasTable, MaxDrops, Replaceable, Queries
  <2>3. ExactInv'
    BY DEF ExactInv, Faults, Exact, Extends, SameTables, HasTable, Rows, QueryRows, Known, Paths
  <2> QED BY <2>1, <2>2, <2>3, ZenonT(40)
<1> QED BY <1>1, <1>2, <1>3, <1>4, <1>5, <1>6, <1>7, <1>8, <1>9, <1>10, <1>11, <1>12, <1>13,
           <1>14, <1>15, <1>16, <1>17, SMTT(30) DEF Next

\* The state keeps its types.
THEOREM TypeCorrect == Spec => []TypeOK
<1>1. ViewsInv => TypeOK
  BY Zenon DEF ViewsInv, BaseInv
<1> QED BY <1>1, ViewsInit, ViewsNext, PTL DEF Spec

\* ViewStatus::fresh tells the truth: for any number of tables and of views over
\* views, however they are refreshed and compacted, a view that is fresh and
\* reads the tables it was computed from holds what its query returns.
THEOREM FreshViewsExact == Spec => []FreshIsExactUnlessRecreated
<1>1. ViewsInv => FreshIsExactUnlessRecreated
  <2> SUFFICES ASSUME ViewsInv, Faults = {}, NEW v \in Names, IsView(v), HasTable(v), Fresh(v),
                      \A d \in views[v].dependencies : tables[d].id = views[v].ids[d]
               PROVE  Rows(v) = QueryRows(views[v].dependencies)
    BY Zenon DEF FreshIsExactUnlessRecreated
  <2>1. Exact(v, views[v]) /\ Defines(v, views[v])
    BY Zenon DEF ViewsInv, ExactInv, BaseInv, DefsInv, IsView
  <2>2. \A d \in views[v].dependencies :
          HasTable(d) /\ tables[d].version = views[v].base.base_versions[d]
    BY <2>1, ViewsAssumption, Zenon DEF Fresh, TableVersion, Defines
  <2>3. SameTables(views[v])
    BY <2>2, Zenon DEF SameTables
  <2> QED BY <2>1, <2>2, <2>3, Zenon DEF Exact
<1> QED BY <1>1, ViewsInit, ViewsNext, PTL DEF Spec

\* persist_view and remove_view: whatever fails or crashes, the definitions the
\* engine works with are those a restart loads.
THEOREM DefinitionsDurable == Spec => []ViewsAreDurable
<1>1. ViewsInv => ViewsAreDurable
  BY Zenon DEF ViewsInv, BaseInv, DurableInv, ViewsAreDurable
<1> QED BY <1>1, ViewsInit, ViewsNext, PTL DEF Spec

\* The order of the two commits of create_view and of drop_view: at no point,
\* and so after no crash, does the catalog hold a view without its rows.
THEOREM ViewsHaveRows == Spec => []ViewHasRows
<1>1. ViewsInv => ViewHasRows
  BY Zenon DEF ViewsInv
<1> QED BY <1>1, ViewsInit, ViewsNext, PTL DEF Spec
=============================================================================
