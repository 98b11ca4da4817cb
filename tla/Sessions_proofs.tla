--------------------------- MODULE Sessions_proofs ---------------------------
(***************************************************************************)
(* The shared runtime for every number of sessions, statements and slots   *)
(* of the channel.  The jobs that have no answer are those of the list and *)
(* the channel, and the one followed by the other is in order of arrival:  *)
(* from this no job is lost or kept twice.                                 *)
(***************************************************************************)
EXTENDS Sessions, FiniteSetTheorems, WellFoundedInduction, TLAPS

Ascending(q) == \A i, j \in 1 .. Len(q) : i < j => q[i].id < q[j].id

Ids(q) == {q[i].id : i \in 1 .. Len(q)}

\* What was deferred arrived before what is still in the channel.
Ordered ==
  /\ Ascending(queue) /\ Ascending(deferred)
  /\ \A a \in Ids(deferred), b \in Ids(queue) : a < b

\* The jobs without an answer are those of the list and of the channel.
Accounted == Ids(queue) \cup Ids(deferred) = (1 .. arrived) \ answered

\* Once the channel is found disconnected nothing more comes in; the thread
\* stops with nothing left.
Ended ==
  /\ ~connected => queue = <<>> /\ HungUp
  /\ pc = "stopped" => ~connected /\ open = {} /\ deferred = <<>>

\* Serializable from the start: at most one transaction is open, and at the
\* wait for a job it is the one of the holder.
Alone ==
  serial /\ switches = 0 =>
    /\ \A r, s \in open : r = s
    /\ pc = "recv" => open = {holder} \ {None}

JobsInv == TypeJobs /\ Ordered /\ Accounted

IInv == TypeClients /\ TypeRuntime /\ JobsInv /\ Ended /\ Alone

-----------------------------------------------------------------------------
(***************************************************************************)
(* Induction, as the least counterexample, and what Without computes.      *)
(***************************************************************************)

LEMMA LeastNatural ==
  ASSUME NEW T, T \subseteq Nat, T # {}
  PROVE  \E n \in T : \A m \in T : n <= m
<1>1. PICK n \in T : \A m \in T : ~(<<m, n>> \in OpToRel(<, Nat))
  BY NatLessThanWellFounded, WFMin, Zenon
<1>2. \A m \in T : ~(m < n)
  BY <1>1, Zenon DEF OpToRel
<1> QED BY <1>2

\* f[i] is the list without ids, up to position i.
Filters(f, list, ids, n) ==
  f = [i \in 0 .. n |->
         IF i = 0 THEN <<>>
         ELSE IF list[i].id \in ids THEN f[i - 1] ELSE Append(f[i - 1], list[i])]

LEMMA FiltersExists ==
  ASSUME NEW list, NEW ids, NEW n \in Nat
  PROVE  \E f : Filters(f, list, ids, n)
<1> DEFINE T == {k \in Nat : ~\E f : Filters(f, list, ids, k)}
<1>1. SUFFICES ASSUME T # {} PROVE FALSE
  BY Zenon
<1>2. PICK k \in T : \A m \in T : k <= m
  BY <1>1, LeastNatural, Zenon
<1>3. k # 0
  <2>1. Filters([i \in 0 .. 0 |-> <<>>], list, ids, 0)
    BY DEF Filters
  <2> QED BY <2>1, Zenon
<1>4. k - 1 \in Nat /\ k - 1 \notin T
  BY <1>2, <1>3
<1>5. PICK f : Filters(f, list, ids, k - 1)
  BY <1>4, Zenon
<1>6. PICK g : g = [i \in 0 .. k |->
                      IF i < k THEN f[i]
                      ELSE IF list[k].id \in ids THEN f[k - 1] ELSE Append(f[k - 1], list[k])]
  BY Zenon
<1>7. Filters(g, list, ids, k)
  <2>1. ASSUME NEW i \in 0 .. k
        PROVE  g[i] = IF i = 0 THEN <<>>
                      ELSE IF list[i].id \in ids THEN g[i - 1] ELSE Append(g[i - 1], list[i])
    <3>1. CASE i < k
      <4>1. i \in 0 .. (k - 1) /\ g[i] = f[i] /\ (i # 0 => g[i - 1] = f[i - 1])
        BY <1>6, <3>1
      <4>2. f[i] = IF i = 0 THEN <<>>
                   ELSE IF list[i].id \in ids THEN f[i - 1] ELSE Append(f[i - 1], list[i])
        BY <1>5, <4>1, Zenon DEF Filters
      <4> QED BY <4>1, <4>2, Zenon
    <3>2. CASE i = k
      <4>1. g[k - 1] = f[k - 1]
        BY <1>4, <1>6
      <4> QED BY <1>3, <1>6, <3>2, <4>1
    <3> QED BY <3>1, <3>2
  <2>2. g = [i \in 0 .. k |-> g[i]]
    BY <1>6, Zenon
  <2> QED BY <2>1, <2>2, Zenon DEF Filters
<1> QED BY <1>2, <1>7, Zenon

LEMMA WithoutIs ==
  ASSUME NEW list, NEW ids, Len(list) \in Nat
  PROVE  \E f : Filters(f, list, ids, Len(list)) /\ Without(list, ids) = f[Len(list)]
<1>1. PICK w : w = CHOOSE f : Filters(f, list, ids, Len(list))
  BY Zenon
<1>2. Filters(w, list, ids, Len(list))
  <2>1. \E f : Filters(f, list, ids, Len(list))
    BY FiltersExists, Zenon
  <2> QED BY <1>1, <2>1, Zenon
<1>3. Without(list, ids) = w[Len(list)]
  BY <1>1, Zenon DEF Without, Filters
<1> QED BY <1>2, <1>3, Zenon

\* r has the jobs of the list up to n that are not in ids, in their order.
Filtered(r, S, list, ids, n) ==
  /\ r \in Seq(S) /\ Ascending(r)
  /\ \A i \in 1 .. Len(r) : \E m \in 1 .. n : r[i] = list[m] /\ list[m].id \notin ids
  /\ \A m \in 1 .. n : list[m].id \notin ids => \E i \in 1 .. Len(r) : r[i] = list[m]

LEMMA FilteredStep ==
  ASSUME NEW S, NEW list \in Seq(S), Ascending(list), NEW ids, NEW n \in 1 .. Len(list),
         \A m \in 1 .. Len(list) : list[m].id \in Nat,
         NEW r, Filtered(r, S, list, ids, n - 1)
  PROVE  Filtered(IF list[n].id \in ids THEN r ELSE Append(r, list[n]), S, list, ids, n)
<1>1. CASE list[n].id \in ids
  BY <1>1 DEF Filtered
<1>2. CASE list[n].id \notin ids
  <2>1. /\ r \in Seq(S) /\ Len(r) \in Nat /\ Len(list) \in Nat /\ n \in Nat /\ n >= 1
        /\ n <= Len(list) /\ list[n] \in S
    BY DEF Filtered
  <2>2. PICK q : q = Append(r, list[n])
    BY Zenon
  <2>3. /\ q \in Seq(S) /\ Len(q) = Len(r) + 1 /\ q[Len(q)] = list[n]
        /\ \A i \in 1 .. Len(r) : q[i] = r[i]
    BY <2>1, <2>2
  <2>4. \A i \in 1 .. Len(r) : \E m \in 1 .. (n - 1) : r[i] = list[m] /\ list[m].id \notin ids
    BY Zenon DEF Filtered
  <2>5. \A m \in 1 .. (n - 1) : list[m].id \notin ids => \E i \in 1 .. Len(r) : r[i] = list[m]
    BY Zenon DEF Filtered
  <2>6. \A i \in 1 .. Len(q) : i \in 1 .. Len(r) \/ i = Len(q)
    BY <2>1, <2>3
  <2>7. Ascending(q)
    <3>1. \A m \in 1 .. (n - 1) : list[m].id < list[n].id
      BY <2>1 DEF Ascending
    <3>2. \A i \in 1 .. Len(r) : r[i].id < list[n].id
      BY <2>4, <3>1, Zenon
    <3>3. \A i, j \in 1 .. Len(r) : i < j => r[i].id < r[j].id
      BY Zenon DEF Filtered, Ascending
    <3>4. ASSUME NEW i \in 1 .. Len(q), NEW j \in 1 .. Len(q), i < j
          PROVE  q[i].id < q[j].id
      <4>1. i \in 1 .. Len(r)
        BY <2>1, <2>3, <3>4
      <4> QED BY <2>3, <2>6, <3>2, <3>3, <3>4, <4>1, Zenon
    <3> QED BY <3>4, Zenon DEF Ascending
  <2>8. \A i \in 1 .. Len(q) : \E m \in 1 .. n : q[i] = list[m] /\ list[m].id \notin ids
    <3>1. \A i \in 1 .. Len(r) : \E m \in 1 .. n : r[i] = list[m] /\ list[m].id \notin ids
      BY <2>1, <2>4
    <3> QED BY <1>2, <2>1, <2>3, <2>6, <3>1, SMTT(30)
  <2>9. \A m \in 1 .. n : list[m].id \notin ids => \E i \in 1 .. Len(q) : q[i] = list[m]
    <3>1. ASSUME NEW m \in 1 .. (n - 1), list[m].id \notin ids
          PROVE  \E i \in 1 .. Len(q) : q[i] = list[m]
      <4>1. PICK i \in 1 .. Len(r) : r[i] = list[m]
        BY <2>5, <3>1, Zenon
      <4>2. i \in 1 .. Len(q) /\ q[i] = list[m]
        BY <2>1, <2>3, <4>1
      <4> QED BY <4>2, Zenon
    <3>2. Len(q) \in 1 .. Len(q)
      BY <2>1, <2>3
    <3>3. \A m \in 1 .. n : m \in 1 .. (n - 1) \/ m = n
      BY <2>1
    <3> QED BY <2>3, <3>1, <3>2, <3>3, Zenon
  <2>10. Filtered(q, S, list, ids, n)
    BY <2>3, <2>7, <2>8, <2>9, Zenon DEF Filtered
  <2> QED BY <1>2, <2>2, <2>10, Zenon
<1> QED BY <1>1, <1>2, Zenon

\* The jobs that are not in ids, in their order.
LEMMA WithoutFilters ==
  ASSUME NEW S, NEW list \in Seq(S), Ascending(list), NEW ids,
         \A m \in 1 .. Len(list) : list[m].id \in Nat
  PROVE  Filtered(Without(list, ids), S, list, ids, Len(list))
<1>1. PICK f : Filters(f, list, ids, Len(list)) /\ Without(list, ids) = f[Len(list)]
  BY WithoutIs
<1> DEFINE T == {k \in 0 .. Len(list) : ~Filtered(f[k], S, list, ids, k)}
<1>2. SUFFICES ASSUME T # {} PROVE FALSE
  BY <1>1
<1>3. PICK k \in T : \A m \in T : k <= m
  <2>1. T \subseteq Nat
    OBVIOUS
  <2> QED BY <1>2, <2>1, LeastNatural, Zenon
<1>4. k # 0
  <2>1. f[0] = <<>>
    BY <1>1 DEF Filters
  <2>2. Len(<<>>) = 0 /\ <<>> \in Seq(S) /\ 1 .. 0 = {}
    OBVIOUS
  <2>3. Filtered(f[0], S, list, ids, 0)
    BY <2>1, <2>2, Zenon DEF Filtered, Ascending
  <2> QED BY <2>3, Zenon
<1>5. Filtered(f[k - 1], S, list, ids, k - 1)
  BY <1>3, <1>4
<1>6. f[k] = IF list[k].id \in ids THEN f[k - 1] ELSE Append(f[k - 1], list[k])
  BY <1>1, <1>3, <1>4, Zenon DEF Filters
<1>7. k \in 1 .. Len(list)
  BY <1>4
<1> QED BY <1>5, <1>6, <1>7, FilteredStep

-----------------------------------------------------------------------------
(***************************************************************************)
(* Lists of jobs.                                                          *)
(***************************************************************************)

LEMMA AppendJob ==
  ASSUME NEW q \in Seq(Job), NEW x \in Job, Ascending(q), \A a \in Ids(q) : a < x.id
  PROVE  /\ Append(q, x) \in Seq(Job) /\ Len(Append(q, x)) = Len(q) + 1
         /\ Ascending(Append(q, x)) /\ Ids(Append(q, x)) = Ids(q) \cup {x.id}
<1>1. PICK r : r = Append(q, x)
  BY Zenon
<1>2. /\ r \in Seq(Job) /\ Len(q) \in Nat /\ Len(r) = Len(q) + 1 /\ r[Len(r)] = x
      /\ \A i \in 1 .. Len(q) : r[i] = q[i]
  BY <1>1
<1>3. \A i \in 1 .. Len(r) : i \in 1 .. Len(q) \/ i = Len(r)
  BY <1>2
<1>4. Ids(r) = Ids(q) \cup {x.id}
  <2>1. ASSUME NEW a \in Ids(r) PROVE a \in Ids(q) \cup {x.id}
    BY <1>2, <1>3, Zenon DEF Ids
  <2>2. ASSUME NEW a \in Ids(q) PROVE a \in Ids(r)
    <3>1. PICK i \in 1 .. Len(q) : a = q[i].id
      BY Zenon DEF Ids
    <3>2. i \in 1 .. Len(r) /\ a = r[i].id
      BY <1>2, <3>1
    <3> QED BY <3>2, Zenon DEF Ids
  <2>3. x.id \in Ids(r)
    <3>1. Len(r) \in 1 .. Len(r)
      BY <1>2
    <3> QED BY <1>2, <3>1, Zenon DEF Ids
  <2> QED BY <2>1, <2>2, <2>3, Zenon
<1>5. Ascending(r)
  <2>1. \A i \in 1 .. Len(q) : q[i].id < x.id
    BY Zenon DEF Ids
  <2>2. ASSUME NEW i \in 1 .. Len(r), NEW j \in 1 .. Len(r), i < j
        PROVE  r[i].id < r[j].id
    <3>1. i \in 1 .. Len(q)
      BY <1>2, <2>2
    <3> QED BY <1>2, <1>3, <2>1, <2>2, <3>1, Zenon DEF Ascending
  <2> QED BY <2>2, Zenon DEF Ascending
<1> QED BY <1>1, <1>2, <1>4, <1>5, Zenon

LEMMA TailJob ==
  ASSUME NEW q \in Seq(Job), q # <<>>, Ascending(q)
  PROVE  /\ Head(q) \in Job /\ Head(q).id \in Ids(q)
         /\ Tail(q) \in Seq(Job) /\ Len(Tail(q)) = Len(q) - 1 /\ Len(q) >= 1
         /\ Ascending(Tail(q)) /\ Ids(Tail(q)) = Ids(q) \ {Head(q).id}
         /\ \A a \in Ids(Tail(q)) : Head(q).id < a
<1>1. PICK r : r = Tail(q)
  BY Zenon
<1>2. /\ r \in Seq(Job) /\ Len(q) \in Nat /\ Len(q) >= 1 /\ Len(r) = Len(q) - 1
      /\ Head(q) = q[1] /\ q[1] \in Job /\ \A i \in 1 .. Len(r) : r[i] = q[i + 1]
  BY <1>1
<1>3. \A i \in 1 .. Len(r) : i + 1 \in 1 .. Len(q) /\ 1 < i + 1 /\ 1 \in 1 .. Len(q)
  BY <1>2
<1>4. \A i \in 1 .. Len(q) : i = 1 \/ (i - 1 \in 1 .. Len(r) /\ q[i] = r[i - 1])
  BY <1>2
<1>5. \A a \in Ids(r) : q[1].id < a
  BY <1>2, <1>3, Zenon DEF Ids, Ascending
<1>6. \A a \in Ids(r) : a \in Ids(q)
  BY <1>2, <1>3 DEF Ids
<1>7. \A a \in Ids(q) : a = q[1].id \/ a \in Ids(r)
  BY <1>4, Zenon DEF Ids
<1>8. q[1].id \notin Ids(r) /\ q[1].id \in Ids(q)
  <2>1. q[1].id \in Nat /\ 1 \in 1 .. Len(q)
    BY <1>2 DEF Job
  <2>2. q[1].id \notin Ids(r)
    BY <1>5, <2>1
  <2> QED BY <2>1, <2>2, Zenon DEF Ids
<1>9. Ascending(r)
  <2>1. ASSUME NEW i \in 1 .. Len(r), NEW j \in 1 .. Len(r), i < j
        PROVE  r[i].id < r[j].id
    <3>1. r[i] = q[i + 1] /\ r[j] = q[j + 1] /\ i + 1 < j + 1
      BY <1>2, <2>1
    <3> QED BY <1>3, <3>1, Zenon DEF Ascending
  <2> QED BY <2>1, Zenon DEF Ascending
<1> QED BY <1>1, <1>2, <1>5, <1>6, <1>7, <1>8, <1>9, Zenon

LEMMA WithoutJob ==
  ASSUME NEW q \in Seq(Job), NEW ids, Ascending(q)
  PROVE  /\ Without(q, ids) \in Seq(Job) /\ Ascending(Without(q, ids))
         /\ Ids(Without(q, ids)) = Ids(q) \ ids
<1>1. PICK r : r = Without(q, ids)
  BY Zenon
<1>2. \A m \in 1 .. Len(q) : q[m].id \in Nat
  <2>1. \A m \in 1 .. Len(q) : q[m] \in Job
    OBVIOUS
  <2> QED BY <2>1, Zenon DEF Job
<1>3. Filtered(r, Job, q, ids, Len(q))
  BY <1>1, <1>2, WithoutFilters, Zenon
<1>4. Ids(r) = Ids(q) \ ids
  <2>1. \A i \in 1 .. Len(r) : \E m \in 1 .. Len(q) : r[i] = q[m] /\ q[m].id \notin ids
    BY <1>3, Zenon DEF Filtered
  <2>2. \A m \in 1 .. Len(q) : q[m].id \notin ids => \E i \in 1 .. Len(r) : r[i] = q[m]
    BY <1>3, Zenon DEF Filtered
  <2>3. ASSUME NEW a \in Ids(r) PROVE a \in Ids(q) \ ids
    BY <2>1, Zenon DEF Ids
  <2>4. ASSUME NEW a \in Ids(q) \ ids PROVE a \in Ids(r)
    BY <2>2, Zenon DEF Ids
  <2> QED BY <2>3, <2>4, Zenon
<1> QED BY <1>1, <1>3, <1>4, Zenon DEF Filtered

\* The ids of the jobs that wait, as NothingLost writes them.
LEMMA WaitingIds ==
  ASSUME TypeJobs
  PROVE  /\ {j.id : j \in Waiting} = Ids(queue) \cup Ids(deferred)
         /\ \A j \in Waiting : j \in Job /\ j.id \in Ids(queue) \cup Ids(deferred)
<1>1. /\ queue \in Seq(Job) /\ deferred \in Seq(Job)
      /\ DOMAIN queue = 1 .. Len(queue) /\ DOMAIN deferred = 1 .. Len(deferred)
  BY DEF TypeJobs
<1>2. /\ Range(queue) = {queue[i] : i \in 1 .. Len(queue)}
      /\ Range(deferred) = {deferred[i] : i \in 1 .. Len(deferred)}
  BY <1>1, Zenon DEF Range
<1>3. \A j \in Waiting : \/ \E i \in 1 .. Len(queue) : j = queue[i]
                         \/ \E i \in 1 .. Len(deferred) : j = deferred[i]
  BY <1>2, Zenon DEF Waiting
<1>4. /\ \A i \in 1 .. Len(queue) : queue[i] \in Waiting /\ queue[i] \in Job
      /\ \A i \in 1 .. Len(deferred) : deferred[i] \in Waiting /\ deferred[i] \in Job
  BY <1>1, <1>2 DEF Waiting
<1>5. \A j \in Waiting : j \in Job /\ j.id \in Ids(queue) \cup Ids(deferred)
  BY <1>3, <1>4, Zenon DEF Ids
<1>6. \A a \in Ids(queue) \cup Ids(deferred) : \E j \in Waiting : a = j.id
  BY <1>4, Zenon DEF Ids
<1> QED BY <1>5, <1>6, Zenon

LEMMA AscendingInjective ==
  ASSUME NEW q \in Seq(Job), Ascending(q)
  PROVE  \A i, j \in 1 .. Len(q) : q[i].id = q[j].id => i = j
<1>1. SUFFICES ASSUME NEW i \in 1 .. Len(q), NEW j \in 1 .. Len(q), q[i].id = q[j].id, i < j
               PROVE  FALSE
  <2>1. Len(q) \in Nat
    OBVIOUS
  <2> QED BY <2>1
<1>2. q[i].id < q[j].id
  BY <1>1, Zenon DEF Ascending
<1>3. q[i] \in Job /\ q[j] \in Job
  OBVIOUS
<1>4. q[i].id \in Nat /\ q[j].id \in Nat
  BY <1>3, Zenon DEF Job
<1> QED BY <1>1, <1>2, <1>4

\* A job that waits is known by its id.
LEMMA OneJobPerId ==
  ASSUME JobsInv, NEW j \in Waiting, NEW k \in Waiting, j.id = k.id
  PROVE  j = k
<1>1. /\ queue \in Seq(Job) /\ deferred \in Seq(Job)
      /\ \A a \in Ids(queue) \cup Ids(deferred) : a \in Nat
      /\ \A a \in Ids(deferred), b \in Ids(queue) : a < b
  BY DEF JobsInv, TypeJobs, Ordered, Accounted
<1>2. \A i, m \in 1 .. Len(queue) : queue[i].id = queue[m].id => i = m
  BY <1>1, AscendingInjective, Zenon DEF JobsInv, Ordered
<1>3. \A i, m \in 1 .. Len(deferred) : deferred[i].id = deferred[m].id => i = m
  BY <1>1, AscendingInjective, Zenon DEF JobsInv, Ordered
<1>4. ASSUME NEW i \in 1 .. Len(deferred), NEW m \in 1 .. Len(queue)
      PROVE  deferred[i].id # queue[m].id
  <2>1. deferred[i].id \in Ids(deferred) /\ queue[m].id \in Ids(queue)
    BY Zenon DEF Ids
  <2>2. deferred[i].id < queue[m].id /\ deferred[i].id \in Nat
    BY <1>1, <2>1, Zenon
  <2> QED BY <2>2
<1>5. \A x \in {j, k} : \/ \E i \in 1 .. Len(queue) : x = queue[i]
                        \/ \E i \in 1 .. Len(deferred) : x = deferred[i]
  BY <1>1 DEF Waiting, Range
<1> QED BY <1>2, <1>3, <1>4, <1>5

-----------------------------------------------------------------------------
(***************************************************************************)
(* The steps.                                                              *)
(***************************************************************************)

LEMMA RunJobDoes ==
  ASSUME TypeRuntime, NEW job \in Job, RunJob(job)
  PROVE  /\ open' \subseteq Sessions /\ open' \subseteq open \cup {job.session}
         /\ installed' \in open' \cup {None} /\ Over({job.id})
<1>1. job.session \in Sessions
  BY Zenon DEF Job
<1>2. CASE ActivationFails(job.session)
  BY <1>1, <1>2, Zenon DEF RunJob, ActivationFails, TypeRuntime
<1>3. CASE RunStatement(job)
  <2>1. open' \in {open \cup {job.session}, open \ {job.session}, open}
    BY <1>3, Zenon DEF RunStatement
  <2>2. installed' = IF job.session \in open' THEN job.session ELSE None
    BY <1>3, Zenon DEF RunStatement
  <2> QED BY <1>1, <2>1, <2>2, Zenon DEF RunJob, TypeRuntime
<1> QED BY <1>2, <1>3, Zenon DEF RunJob

LEMMA ClientTypes ==
  ASSUME TypeClients, [Next]_vars
  PROVE  TypeClients'
<1> USE DEF TypeClients
<1>1. ASSUME NEW s \in Sessions, NEW kind \in Kinds, Submit(s, kind)
      PROVE  TypeClients'
  <2>1. [kind |-> kind] \in [kind : Kinds \cup {"guard"}]
    BY Zenon
  <2> QED BY <1>1, <2>1, Zenon DEF Submit
<1>2. ASSUME NEW s \in Sessions, Send(s)
      PROVE  TypeClients'
  BY <1>2, Zenon DEF Send
<1>3. ASSUME NEW s \in Sessions, DropSession(s)
      PROVE  TypeClients'
  <2>1. [kind |-> "guard"] \in [kind : Kinds \cup {"guard"}]
    BY Zenon
  <2> QED BY <1>3, <2>1, Zenon DEF DropSession
<1>4. CASE SetIsolation
  <2>1. serial' \in BOOLEAN
    BY <1>4, Zenon DEF SetIsolation
  <2> QED BY <1>4, <2>1 DEF SetIsolation
<1>5. CASE Close
  BY <1>5, Zenon DEF Close
<1>6. CASE \/ \E j \in Waiting : Cancel(j) \/ TimePasses(j)
           \/ Runtime \/ ViewTick \/ UNCHANGED vars
  <2>1. UNCHANGED clients
    BY <1>6, Zenon DEF Cancel, TimePasses, Runtime, RunDeferred, Stop, Receive, Timeout, ViewTick, Disconnected,
                Rollback, Wait, vars
  <2> QED BY <2>1, Zenon DEF clients
<1> QED BY <1>1, <1>2, <1>3, <1>4, <1>5, <1>6, Zenon DEF Next

LEMMA RuntimeTypes ==
  ASSUME TypeRuntime, TypeJobs, Ordered, [Next]_vars
  PROVE  TypeRuntime'
<1>1. CASE RunDeferred
  <2>1. Head(deferred) \in Job /\ RunJob(Head(deferred)) /\ UNCHANGED <<pc, holder, connected>>
    BY <1>1, TailJob, Zenon DEF RunDeferred, TypeJobs, Ordered
  <2> QED BY <2>1, RunJobDoes, Zenon DEF TypeRuntime
<1>2. CASE Receive
  <2>1. Head(queue) \in Job /\ pc' = "loop" /\ UNCHANGED <<holder, connected>>
    BY <1>2, TailJob, Zenon DEF Receive, TypeJobs, Ordered
  <2>2. RunJob(Head(queue)) \/ UNCHANGED engine
    BY <1>2, Zenon DEF Receive
  <2>3. open' \subseteq Sessions /\ installed' \in open' \cup {None}
    BY <2>1, <2>2, RunJobDoes, Zenon DEF TypeRuntime, engine
  <2> QED BY <2>1, <2>3, Zenon DEF TypeRuntime
<1>3. ASSUME NEW s \in Sessions, Rollback(s)
      PROVE  TypeRuntime'
  BY <1>3, Zenon DEF Rollback, TypeRuntime, runtime
<1>4. ASSUME NEW h \in Sessions \cup {None}, Wait(h)
      PROVE  TypeRuntime'
  BY <1>4, Zenon DEF Wait, TypeRuntime
<1>5. CASE Stop \/ Timeout \/ ViewTick \/ Disconnected
  BY <1>5, Zenon DEF Stop, Timeout, ViewTick, Disconnected, TypeRuntime, engine
<1>6. CASE \/ \E s \in Sessions : Send(s) \/ DropSession(s) \/ \E kind \in Kinds : Submit(s, kind)
           \/ \E j \in Waiting : Cancel(j) \/ TimePasses(j)
           \/ SetIsolation \/ Close \/ UNCHANGED vars
  <2>1. UNCHANGED <<runtime, engine>>
    BY <1>6, Zenon DEF Send, DropSession, Submit, Cancel, TimePasses, SetIsolation, Close, vars
  <2> QED BY <2>1, Zenon DEF runtime, engine, TypeRuntime
<1> QED BY <1>1, <1>2, <1>3, <1>4, <1>5, <1>6, Zenon DEF Next, Runtime

\* Jobs that got their answer leave the list or the channel.
LEMMA JobsOver ==
  ASSUME JobsInv, NEW ids, ids \subseteq Ids(queue) \cup Ids(deferred), Over(ids),
         queue' \in Seq(Job), Len(queue') <= Len(queue), deferred' \in Seq(Job), Ordered',
         Ids(queue') \cup Ids(deferred') = (Ids(queue) \cup Ids(deferred)) \ ids
  PROVE  JobsInv'
<1>1. ids \subseteq 1 .. arrived /\ arrived' = arrived /\ answered' = answered \cup ids
  BY Zenon DEF JobsInv, Accounted, Over
<1>2. Accounted'
  BY <1>1, Zenon DEF JobsInv, Accounted
<1>3. Len(queue') <= Capacity
  BY SessionsAssumption DEF JobsInv, TypeJobs
<1>4. TypeJobs'
  BY <1>1, <1>3, Zenon DEF JobsInv, TypeJobs, Over
<1> QED BY <1>2, <1>4, Zenon DEF JobsInv

LEMMA JobsStep ==
  ASSUME JobsInv, TypeClients, [Next]_vars
  PROVE  JobsInv'
<1>1. /\ TypeJobs /\ Ordered /\ Accounted /\ queue \in Seq(Job) /\ deferred \in Seq(Job)
      /\ Ascending(queue) /\ Ascending(deferred) /\ arrived \in Nat
      /\ Len(queue) \in Nat /\ Capacity \in Nat
      /\ \A a \in Ids(deferred), b \in Ids(queue) : a < b
      /\ Ids(queue) \cup Ids(deferred) \subseteq 1 .. arrived
  BY SessionsAssumption DEF JobsInv, TypeJobs, Ordered, Accounted
<1>2. ASSUME NEW s \in Sessions, Send(s)
      PROVE  JobsInv'
  <2>1. PICK x : x = [id |-> arrived + 1, session |-> s, kind |-> sending[s].kind]
    BY Zenon
  <2>2. x \in Job /\ x.id = arrived + 1
    <3>1. sending[s] \in [kind : Kinds \cup {"guard"}]
      BY <1>2, Zenon DEF TypeClients, Send
    <3>2. sending[s].kind \in Kinds \cup {"guard"}
      BY <3>1, Zenon
    <3> QED BY <1>1, <2>1, <3>2 DEF Job
  <2>3. /\ queue' = Append(queue, x) /\ arrived' = arrived + 1 /\ Len(queue) < Capacity
        /\ UNCHANGED <<answered, cancelled, late, deferred>>
    BY <1>2, <2>1, Zenon DEF Send, runtime
  <2>4. \A a \in Ids(queue) : a < x.id
    BY <1>1, <2>2
  <2>5. /\ queue' \in Seq(Job) /\ Len(queue') = Len(queue) + 1
        /\ Ascending(queue') /\ Ids(queue') = Ids(queue) \cup {x.id}
    BY <1>1, <2>2, <2>3, <2>4, AppendJob, Zenon
  <2>6. Ordered'
    <3>1. \A a \in Ids(deferred) : a < x.id
      BY <1>1, <2>2
    <3> QED BY <1>1, <2>3, <2>5, <3>1, Zenon DEF Ordered
  <2>7. TypeJobs'
    BY <1>1, <2>3, <2>5 DEF TypeJobs
  <2>8. Accounted'
    <3>1. 1 .. arrived' = (1 .. arrived) \cup {x.id} /\ x.id \notin answered
      BY <1>1, <2>2, <2>3 DEF TypeJobs
    <3>2. Ids(deferred') = Ids(deferred)
      BY <2>3, Zenon
    <3> QED BY <1>1, <2>3, <2>5, <3>1, <3>2, Zenon DEF Accounted
  <2> QED BY <2>6, <2>7, <2>8, Zenon DEF JobsInv
<1>3. ASSUME NEW j \in Waiting, Cancel(j) \/ TimePasses(j)
      PROVE  JobsInv'
  <2>1. j.id \in 1 .. arrived
    BY <1>1, WaitingIds, Zenon
  <2>2. /\ UNCHANGED <<queue, arrived, answered, deferred>>
        /\ cancelled' \in {cancelled, cancelled \cup {j.id}} /\ late' \in {late, late \cup {j.id}}
    BY <1>3, Zenon DEF Cancel, TimePasses, runtime
  <2> QED BY <1>1, <2>1, <2>2 DEF JobsInv, TypeJobs, Ordered, Accounted, Ascending, Ids
<1>4. CASE RunDeferred
  <2>1. /\ deferred # <<>> /\ Over({Head(deferred).id}) /\ deferred' = Tail(deferred)
        /\ UNCHANGED queue
    BY <1>4, Zenon DEF RunDeferred, RunJob
  <2>2. /\ deferred' \in Seq(Job) /\ Ascending(deferred') /\ Head(deferred).id \in Ids(deferred)
        /\ Ids(deferred') = Ids(deferred) \ {Head(deferred).id}
    BY <1>1, <2>1, TailJob, Zenon
  <2>3. Ids(queue') = Ids(queue) /\ Head(deferred).id \notin Ids(queue)
    <3>1. \A a \in Ids(queue) : a \in Nat
      BY <1>1
    <3> QED BY <1>1, <2>1, <2>2, <3>1
  <2>4. Ordered'
    BY <1>1, <2>1, <2>2, <2>3, Zenon DEF Ordered, Ascending
  <2> QED BY <1>1, <2>1, <2>2, <2>3, <2>4, JobsOver
<1>5. ASSUME NEW h \in Sessions \cup {None}, Wait(h)
      PROVE  JobsInv'
  <2>1. /\ deferred' = Without(deferred, late) /\ UNCHANGED queue
        /\ Over({j.id : j \in Range(deferred)} \cap late)
    BY <1>5, Zenon DEF Wait, Expire
  <2>2. {j.id : j \in Range(deferred)} = Ids(deferred)
    <3>1. Range(deferred) = {deferred[i] : i \in 1 .. Len(deferred)}
      BY <1>1 DEF Range
    <3> QED BY <3>1, Zenon DEF Ids
  <2>3. /\ deferred' \in Seq(Job) /\ Ascending(deferred')
        /\ Ids(deferred') = Ids(deferred) \ late
    BY <1>1, <2>1, WithoutJob, Zenon
  <2>4. Ids(queue') = Ids(queue) /\ Ids(queue) \cap Ids(deferred) = {}
    <3>1. \A a \in Ids(queue) : a \in Nat
      BY <1>1
    <3> QED BY <1>1, <2>1, <3>1
  <2>5. Ordered'
    BY <1>1, <2>1, <2>3, <2>4, Zenon DEF Ordered, Ascending
  <2>6. Ids(queue') \cup Ids(deferred') =
          (Ids(queue) \cup Ids(deferred)) \ (Ids(deferred) \cap late)
    BY <2>3, <2>4, Zenon
  <2> QED BY <1>1, <2>1, <2>2, <2>3, <2>5, <2>6, JobsOver
<1>6. CASE Receive
  <2>1. queue # <<>> /\ queue' = Tail(queue)
    BY <1>6, Zenon DEF Receive
  <2>2. /\ queue' \in Seq(Job) /\ Len(queue') <= Len(queue) /\ Ascending(queue')
        /\ Head(queue) \in Job /\ Head(queue).id \in Ids(queue)
        /\ Ids(queue') = Ids(queue) \ {Head(queue).id}
        /\ \A a \in Ids(queue') : Head(queue).id < a
    BY <1>1, <2>1, TailJob
  <2>3. CASE RunJob(Head(queue)) /\ UNCHANGED deferred
    <3>1. Over({Head(queue).id})
      BY <2>3, Zenon DEF RunJob
    <3>2. Ids(deferred') = Ids(deferred) /\ Head(queue).id \notin Ids(deferred)
      <4>1. Head(queue).id \in Nat
        BY <2>2, Zenon DEF Job
      <4> QED BY <1>1, <2>2, <2>3, <4>1
    <3>3. Ordered'
      BY <1>1, <2>2, <2>3, <3>2, Zenon DEF Ordered, Ascending
    <3> QED BY <1>1, <2>2, <2>3, <3>1, <3>2, <3>3, JobsOver, Zenon
  <2>4. CASE /\ deferred' = Append(deferred, Head(queue))
             /\ UNCHANGED <<arrived, answered, cancelled, late, engine>>
    <3>1. \A a \in Ids(deferred) : a < Head(queue).id
      BY <1>1, <2>2, Zenon
    <3>2. /\ deferred' \in Seq(Job) /\ Ascending(deferred')
          /\ Ids(deferred') = Ids(deferred) \cup {Head(queue).id}
      BY <1>1, <2>2, <2>4, <3>1, AppendJob, Zenon
    <3>3. Ordered'
      BY <1>1, <2>2, <3>1, <3>2, Zenon DEF Ordered
    <3>4. Accounted'
      BY <1>1, <2>2, <2>4, <3>2, Zenon DEF Accounted
    <3>5. TypeJobs'
      <4>1. Len(queue') <= Capacity
        BY <1>1, <2>2 DEF TypeJobs
      <4> QED BY <1>1, <2>2, <2>4, <3>2, <4>1, Zenon DEF TypeJobs
    <3> QED BY <3>3, <3>4, <3>5, Zenon DEF JobsInv
  <2> QED BY <1>6, <2>3, <2>4, Zenon DEF Receive
<1>7. CASE \/ \E s \in Sessions : DropSession(s) \/ \E kind \in Kinds : Submit(s, kind)
           \/ SetIsolation \/ Close \/ Stop \/ Timeout \/ ViewTick \/ Disconnected
           \/ \E s \in Sessions : Rollback(s)
           \/ UNCHANGED vars
  <2>1. UNCHANGED <<jobs, deferred>>
    BY <1>7, Zenon DEF DropSession, Submit, SetIsolation, Close, Stop, Timeout, ViewTick, Disconnected, Rollback,
                vars, runtime
  <2> QED BY <1>1, <2>1 DEF jobs, JobsInv, TypeJobs, Ordered, Accounted, Ascending, Ids
<1> QED BY <1>2, <1>3, <1>4, <1>5, <1>6, <1>7, Zenon DEF Next, Runtime

LEMMA EndedStep ==
  ASSUME TypeClients, TypeRuntime, Ended, [Next]_vars
  PROVE  Ended'
<1> USE DEF Ended
<1>1. CASE connected
  <2>1. pc # "stopped" /\ ~Stop /\ (\A s \in Sessions : ~Rollback(s))
    BY <1>1, Zenon DEF Stop, Rollback
  <2>2. CASE Disconnected
    BY <1>1, <2>2, Zenon DEF Disconnected, HungUp, clients, jobs
  <2>3. CASE ~Disconnected
    <3>1. UNCHANGED connected /\ pc' # "stopped"
      BY <2>1, <2>3, Zenon
         DEF Next, Runtime, Send, DropSession, Submit, Cancel, TimePasses, SetIsolation, Close,
             RunDeferred, Receive, Timeout, ViewTick, Wait, runtime, vars
    <3> QED BY <1>1, <3>1, Zenon
  <2> QED BY <2>2, <2>3, Zenon
<1>2. CASE ~connected
  <2>1. queue = <<>> /\ closed /\ \A s \in Sessions : sending[s] = None
    BY <1>2, Zenon DEF HungUp
  <2>2. /\ \A s \in Sessions : ~Send(s) /\ \A kind \in Kinds : ~Submit(s, kind)
        /\ ~Receive /\ ~SetIsolation /\ ~Close /\ \A h : ~Wait(h)
    BY <1>2, <2>1, Zenon DEF Send, Submit, Receive, SetIsolation, Close, Wait
  <2>3. UNCHANGED <<queue, closed, sending>> /\ ~connected'
    <3>1. ASSUME NEW s \in Sessions, DropSession(s)
          PROVE  UNCHANGED <<queue, closed, sending>> /\ ~connected'
      BY <1>2, <2>1, <3>1, Zenon DEF DropSession, jobs, runtime
    <3>2. ASSUME NEW j \in Waiting, Cancel(j) \/ TimePasses(j)
          PROVE  UNCHANGED <<queue, closed, sending>> /\ ~connected'
      BY <1>2, <3>2 DEF Cancel, TimePasses, clients, runtime
    <3>3. CASE \/ RunDeferred \/ Stop \/ Timeout \/ ViewTick \/ Disconnected
               \/ \E s \in Sessions : Rollback(s)
               \/ UNCHANGED vars
      BY <1>2, <3>3 DEF RunDeferred, Stop, Timeout, ViewTick, Disconnected, Rollback,
                        vars, clients, jobs, runtime
    <3> QED BY <2>2, <3>1, <3>2, <3>3, Zenon DEF Next, Runtime
  <2>4. HungUp'
    BY <2>1, <2>3, Zenon DEF HungUp
  <2>5. pc' = "stopped" => open' = {} /\ deferred' = <<>>
    <3>1. CASE pc = "stopped"
      <4>1. UNCHANGED <<open, deferred>>
        BY <2>2, <3>1, Zenon
           DEF Next, Runtime, DropSession, Cancel, TimePasses, RunDeferred, Stop, Timeout, ViewTick,
               Disconnected, Rollback, vars, runtime, engine
      <4> QED BY <3>1, <4>1, Zenon
    <3>2. CASE Stop
      <4>1. open = {} /\ deferred = <<>> /\ UNCHANGED <<open, deferred>>
        BY <3>2, Zenon DEF Stop, Holder, engine
      <4> QED BY <4>1, Zenon
    <3>3. CASE pc # "stopped" /\ ~Stop
      <4>1. pc' # "stopped"
        BY <2>2, <3>3, Zenon
           DEF Next, Runtime, DropSession, Cancel, TimePasses, RunDeferred, Timeout, ViewTick,
               Disconnected, Rollback, vars, runtime
      <4> QED BY <4>1, Zenon
    <3> QED BY <3>1, <3>2, <3>3, Zenon
  <2> QED BY <2>1, <2>3, <2>4, <2>5, Zenon
<1> QED BY <1>1, <1>2, Zenon DEF TypeRuntime

\* What Alone says of the step that runs a job.
LEMMA RunsAlone ==
  ASSUME TypeRuntime, JobsInv, Alone, serial, switches = 0, NEW job,
         \/ RunDeferred /\ job = Head(deferred)
         \/ Receive /\ MayRun(holder, job) /\ job = Head(queue)
  PROVE  job \in Job /\ RunJob(job) /\ open \subseteq {job.session}
<1>1. CASE RunDeferred /\ job = Head(deferred)
  <2>1. job \in Job /\ RunJob(job)
    BY <1>1, TailJob, Zenon DEF RunDeferred, JobsInv, TypeJobs, Ordered
  <2>2. open = {}
    BY <1>1, SessionsAssumption, Zenon DEF RunDeferred, Holder, First, TypeRuntime
  <2> QED BY <2>1, <2>2, Zenon
<1>2. CASE Receive /\ MayRun(holder, job) /\ job = Head(queue)
  <2>1. job \in Job /\ RunJob(job)
    BY <1>2, TailJob, Zenon DEF Receive, JobsInv, TypeJobs, Ordered
  <2>2. open = {holder} \ {None}
    BY <1>2, Zenon DEF Receive, Alone
  <2> QED BY <1>2, <2>1, <2>2, Zenon DEF MayRun
<1> QED BY <1>1, <1>2, Zenon

LEMMA AloneStep ==
  ASSUME TypeClients, TypeRuntime, JobsInv, Alone, [Next]_vars
  PROVE  Alone'
<1>1. SUFFICES ASSUME serial', switches' = 0
               PROVE  /\ \A r, s \in open' : r = s
                      /\ pc' = "recv" => open' = {holder'} \ {None}
  BY Zenon DEF Alone
<1>2. CASE SetIsolation
  <2>1. switches' = switches + 1 /\ switches < MaxSwitches
    BY <1>2, Zenon DEF SetIsolation
  <2> QED BY <1>1, <2>1 DEF TypeClients
<1>3. CASE ~SetIsolation
  <2>1. /\ UNCHANGED <<serial, switches>> /\ serial /\ switches = 0
        /\ \A r, s \in open : r = s
        /\ pc = "recv" => open = {holder} \ {None}
    <3>1. UNCHANGED <<serial, switches>>
      BY <1>3, Zenon
         DEF Next, Runtime, Send, DropSession, Submit, Cancel, TimePasses, Close, RunDeferred,
             Stop, Receive, Timeout, ViewTick, Disconnected, Rollback, Wait, clients, vars
    <3> QED BY <1>1, <3>1, Zenon DEF Alone
  <2>2. ASSUME NEW job,
               \/ RunDeferred /\ job = Head(deferred)
               \/ Receive /\ MayRun(holder, job) /\ job = Head(queue)
        PROVE  (\A r, s \in open' : r = s) /\ pc' # "recv"
    <3>1. job \in Job /\ RunJob(job) /\ open \subseteq {job.session}
      BY <2>1, <2>2, RunsAlone, Zenon
    <3>2. open' \subseteq {job.session}
      BY <3>1, RunJobDoes, Zenon
    <3>3. pc' # "recv"
      BY <2>2, Zenon DEF RunDeferred, Receive
    <3> QED BY <3>2, <3>3, Zenon
  <2>3. ASSUME NEW h \in Sessions \cup {None}, Wait(h)
        PROVE  UNCHANGED open /\ open = {holder'} \ {None}
    <3>1. UNCHANGED open /\ holder' = h /\ Holder(h)
      BY <2>3, Zenon DEF Wait
    <3>2. open = {h} \ {None}
      BY <2>1, <3>1, SessionsAssumption, Zenon DEF Holder, First, TypeRuntime
    <3> QED BY <3>1, <3>2, Zenon
  <2>4. CASE Receive /\ ~MayRun(holder, Head(queue))
    BY <2>1, <2>4, Zenon DEF Receive, engine
  <2>5. ASSUME NEW s \in Sessions, Rollback(s)
        PROVE  open' \subseteq open /\ pc' # "recv"
    BY <2>5, Zenon DEF Rollback, runtime
  <2>6. CASE Stop \/ Timeout \/ ViewTick \/ Disconnected
    BY <2>1, <2>6, Zenon DEF Stop, Timeout, ViewTick, Disconnected, engine
  <2>7. CASE \/ \E s \in Sessions : Send(s) \/ DropSession(s) \/ \E kind \in Kinds : Submit(s, kind)
             \/ \E j \in Waiting : Cancel(j) \/ TimePasses(j)
             \/ Close \/ UNCHANGED vars
    <3>1. UNCHANGED <<pc, holder, open>>
      BY <2>7, Zenon DEF Send, DropSession, Submit, Cancel, TimePasses, Close, vars, runtime, engine
    <3> QED BY <2>1, <3>1, Zenon
  <2> QED BY <1>3, <2>1, <2>2, <2>3, <2>4, <2>5, <2>6, <2>7, Zenon DEF Next, Runtime
<1> QED BY <1>2, <1>3, Zenon

-----------------------------------------------------------------------------
(***************************************************************************)
(* The theorems.                                                           *)
(***************************************************************************)

LEMMA IInvInit == Init => IInv
<1> SUFFICES ASSUME Init PROVE IInv
  BY Zenon
<1>1. TypeClients
  BY SessionsAssumption, Zenon DEF Init, TypeClients
<1>2. TypeRuntime /\ Ended
  BY Zenon DEF Init, TypeRuntime, Ended
<1>3. JobsInv
  <2>1. /\ queue = <<>> /\ deferred = <<>> /\ arrived = 0 /\ answered \cup cancelled \cup late = {}
        /\ Len(<<>>) = 0 /\ 1 .. 0 = {} /\ <<>> \in Seq(Job) /\ 0 <= Capacity
    BY SessionsAssumption DEF Init
  <2> QED BY <2>1, Zenon DEF JobsInv, TypeJobs, Ordered, Accounted, Ascending, Ids
<1>4. Alone
  BY Zenon DEF Init, Alone
<1> QED BY <1>1, <1>2, <1>3, <1>4, Zenon DEF IInv

LEMMA IInvStep == IInv /\ [Next]_vars => IInv'
  BY ClientTypes, RuntimeTypes, JobsStep, EndedStep, AloneStep, Zenon DEF IInv, JobsInv

LEMMA IInvAlways == Spec => []IInv
  BY IInvInit, IInvStep, PTL DEF Spec

\* The number of jobs of a list is the number of their ids.
LEMMA CountedOnce ==
  ASSUME NEW q \in Seq(Job), Ascending(q)
  PROVE  IsFiniteSet(Ids(q)) /\ Cardinality(Ids(q)) = Len(q)
<1>1. PICK f : f = [i \in 1 .. Len(q) |-> q[i].id]
  BY Zenon
<1>2. Len(q) \in Nat
  OBVIOUS
<1>3. \A i, j \in 1 .. Len(q) : f[i] = f[j] => i = j
  BY <1>1, AscendingInjective, Zenon
<1>4. f \in Bijection(1 .. Len(q), Ids(q))
  <2>1. f \in [1 .. Len(q) -> Ids(q)] /\ \A a \in Ids(q) : \E i \in 1 .. Len(q) : f[i] = a
    BY <1>1, Zenon DEF Ids
  <2> QED BY <1>3, <2>1, Zenon DEF Bijection, Injection, Surjection, IsInjective
<1>5. ExistsBijection(1 .. Len(q), Ids(q))
  BY <1>4, Zenon DEF ExistsBijection
<1>6. IsFiniteSet(1 .. Len(q)) /\ Cardinality(1 .. Len(q)) = Len(q)
  BY <1>2, FS_Interval, SMTT(30)
<1> QED BY <1>5, <1>6, FS_Bijection, Zenon

\* A statement without a result is in the channel or in the runtime's list,
\* and in one of them once, for any number of sessions and statements.
THEOREM StatementsKept == Spec => []NothingLost
<1>1. ASSUME IInv PROVE NothingLost
  <2>1. /\ TypeJobs /\ queue \in Seq(Job) /\ deferred \in Seq(Job)
        /\ Ascending(queue) /\ Ascending(deferred)
    BY <1>1, Zenon DEF IInv, JobsInv, TypeJobs, Ordered
  <2>2. Ids(queue) \cap Ids(deferred) = {}
    <3>1. \A a \in Ids(queue) : a \in Nat
      BY <1>1 DEF IInv, JobsInv, Accounted
    <3> QED BY <1>1, <3>1 DEF IInv, JobsInv, Ordered
  <2>3. Cardinality(Ids(queue) \cup Ids(deferred)) = Len(queue) + Len(deferred)
    <3>1. /\ IsFiniteSet(Ids(queue)) /\ Cardinality(Ids(queue)) = Len(queue)
          /\ IsFiniteSet(Ids(deferred)) /\ Cardinality(Ids(deferred)) = Len(deferred)
      BY <2>1, CountedOnce, Zenon
    <3>2. Cardinality(Ids(queue) \cap Ids(deferred)) = 0
      BY <2>2, FS_EmptySet, Zenon
    <3>3. Cardinality(Ids(queue) \cup Ids(deferred)) =
            Cardinality(Ids(queue)) + Cardinality(Ids(deferred))
              - Cardinality(Ids(queue) \cap Ids(deferred))
      BY <3>1, FS_Union, Zenon
    <3>4. Len(queue) \in Nat /\ Len(deferred) \in Nat
      BY <2>1
    <3> QED BY <3>1, <3>2, <3>3, <3>4
  <2> QED BY <1>1, <2>1, <2>3, WaitingIds, Zenon DEF NothingLost, IInv, JobsInv, Accounted
<1> QED BY <1>1, IInvAlways, PTL

\* close waits for a thread that has answered every statement accepted and
\* rolled back every transaction.
THEOREM StopsClean == Spec => []CleanStop
<1>1. IInv => CleanStop
  BY Zenon DEF IInv, Ended, CleanStop, HungUp
<1> QED BY <1>1, IInvAlways, PTL

\* Under Serializable a statement runs only when no other session is in a
\* transaction, as long as the level has not been switched.
THEOREM SerializableExclusive == Spec => Exclusive
<1>1. ASSUME IInv, [Next]_vars, serial, switches = 0, NEW j \in Waiting, Runs(j)
      PROVE  open \subseteq {j.session}
  <2>1. /\ TypeJobs /\ queue \in Seq(Job) /\ deferred \in Seq(Job)
        /\ Ascending(queue) /\ Ascending(deferred) /\ TypeRuntime /\ JobsInv /\ Alone
    BY <1>1, Zenon DEF IInv, JobsInv, TypeJobs, Ordered
  <2>2. \/ RunDeferred
        \/ Receive /\ MayRun(holder, Head(queue))
    BY <1>1, Zenon
       DEF Runs, Next, Runtime, Send, DropSession, Submit, Cancel, TimePasses, SetIsolation, Close,
           Stop, Receive, Timeout, ViewTick, Disconnected, Rollback, Wait, vars, jobs
  <2>3. PICK job : \/ RunDeferred /\ job = Head(deferred)
                   \/ Receive /\ MayRun(holder, job) /\ job = Head(queue)
    BY <2>2, Zenon
  <2>4. job \in Job /\ RunJob(job) /\ open \subseteq {job.session}
    BY <1>1, <2>1, <2>3, RunsAlone, Zenon
  <2>5. j.id = job.id
    BY <1>1, <2>4, Zenon DEF Runs, RunJob, Over
  <2>6. job \in Waiting
    BY <2>1, <2>3 DEF Waiting, Range, RunDeferred, Receive
  <2>7. j = job
    BY <2>1, <2>5, <2>6, OneJobPerId, Zenon
  <2> QED BY <2>4, <2>7, Zenon
<1>2. IInv /\ [Next]_vars =>
        [serial /\ switches = 0 => \A j \in Waiting : Runs(j) => open \subseteq {j.session}]_vars
  BY <1>1, Zenon
<1> QED BY <1>2, IInvAlways, PTL DEF Spec, Exclusive
=============================================================================
