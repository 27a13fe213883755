---------------------------- MODULE WorkflowProofs ----------------------------
(***************************************************************************)
(* Proofs about Workflow and its planners, for any finite set of tasks,    *)
(* any models and dependencies, and any number of failures.                *)
(***************************************************************************)
EXTENDS Workflow, FiniteSetTheorems, SequenceTheorems, WellFoundedInduction, TLAPS

(* The planners.  Their recursions are over finite sets of tasks, and each *)
(* is shown to be well-founded, so that its function satisfies its         *)
(* definition; what holds of it follows by descent.                        *)

(* There is no infinite descent in Nat: a set of numbers each of which     *)
(* has a smaller one in the set is empty.                                  *)
LEMMA NatDescent ==
  ASSUME NEW Bad \in SUBSET Nat, \A n \in Bad : \E k \in Bad : k < n
  PROVE  Bad = {}
<1>. SUFFICES ASSUME Bad # {} PROVE FALSE
  OBVIOUS
<1>2. PICK n \in Bad : \A k \in Bad : ~(<<k, n>> \in OpToRel(<, Nat))
  BY WFMin, NatLessThanWellFounded
<1>3. \A k \in Bad : ~(k < n)
  BY <1>2 DEF OpToRel
<1> QED
  BY <1>2, <1>3

(* The same of any set whose elements have a size.                         *)
LEMMA Descent ==
  ASSUME NEW D, NEW w, NEW Bad, w \in [D -> Nat], Bad \subseteq D,
         \A x \in Bad : \E y \in Bad : w[y] < w[x]
  PROVE  Bad = {}
<1>. DEFINE T == {w[x] : x \in Bad}
<1>1. T \in SUBSET Nat /\ \A n \in T : \E k \in T : k < n
  OBVIOUS
<1>2. T = {}
  <2>. HIDE DEF T
  <2> QED
    BY <1>1, NatDescent
<1> QED
  BY <1>2

(* A recursion over D stops, or goes on at something smaller.              *)
Descends(D, w, bound, stop, next) ==
  /\ w \in [D -> Nat] /\ bound \in Nat /\ stop \subseteq D
  /\ \A x \in D : w[x] < bound
  /\ \A x \in D : x \notin stop => next[x] \in D /\ w[next[x]] < w[x]

(* a before b, or after it.                                                *)
Joined(after, a, b) == IF after THEN b \o a ELSE a \o b

(* What such a recursion computes.                                         *)
Unrolled(f, D, stop, part, after, next) ==
  /\ f = [x \in D |-> f[x]]
  /\ \A x \in D : f[x] = IF x \in stop THEN <<>> ELSE Joined(after, part[x], f[next[x]])

(* A function that is defined by a recursion that descends exists.         *)
LEMMA Unrolls ==
  ASSUME NEW D, NEW w, NEW bound, NEW stop, NEW part, NEW after, NEW next,
         Descends(D, w, bound, stop, next)
  PROVE  \E f : Unrolled(f, D, stop, part, after, next)
<1>. USE DEF Descends
<1>. DEFINE Body(f) == [x \in D |-> IF x \in stop THEN <<>> ELSE Joined(after, part[x], f[next[x]])]
            UpTo(n) == \E f : \A x \in D : w[x] < n => f[x] = Body(f)[x]
            Bad     == {n \in Nat : ~UpTo(n)}
<1>1. ASSUME NEW n \in Bad PROVE \E k \in Bad : k < n
  <2>1. n # 0
    BY <1>1
  <2>2. ASSUME UpTo(n - 1) PROVE FALSE
    <3>1. PICK f : \A x \in D : w[x] < n - 1 => f[x] = Body(f)[x]
      BY <2>2
    <3>. DEFINE g == Body(f)
    <3>2. ASSUME NEW x \in D, w[x] < n PROVE g[x] = Body(g)[x]
      <4>1. CASE x \in stop
        BY <4>1
      <4>2. CASE x \notin stop
        <5>1. next[x] \in D /\ w[next[x]] < n - 1
          BY <3>2, <4>2
        <5>2. f[next[x]] = g[next[x]]
          BY <3>1, <5>1
        <5> QED
          BY <4>2, <5>1, <5>2
      <4> QED
        BY <4>1, <4>2
    <3>3. UpTo(n)
      BY <3>2
    <3> QED
      BY <3>3, <1>1
  <2>3. n - 1 \in Bad
    BY <2>1, <2>2
  <2> QED
    BY <2>1, <2>3
<1>2. Bad = {}
  <2>1. Bad \in SUBSET Nat /\ \A n \in Bad : \E k \in Bad : k < n
    BY <1>1
  <2>. HIDE DEF Bad
  <2> QED
    BY <2>1, NatDescent
<1>3. PICK f : \A x \in D : f[x] = Body(f)[x]
  <2>1. UpTo(bound)
    BY <1>2
  <2> QED
    BY <2>1
<1>. DEFINE g == Body(f)
<1>4. \A x \in D : f[x] = g[x]
  BY <1>3
<1>5. \A x \in D : g[x] = IF x \in stop THEN <<>> ELSE Joined(after, part[x], g[next[x]])
  BY <1>4
<1>6. g = [x \in D |-> g[x]]
  OBVIOUS
<1>. HIDE DEF g
<1> QED
  BY <1>5, <1>6 DEF Unrolled

(* What Least chooses.                                                     *)
LEMMA LeastIsLeast ==
  ASSUME NEW S \in SUBSET Nat, S # {}
  PROVE  Least(S) \in S /\ \A y \in S : Least(S) <= y
<1>1. \E x \in S : \A y \in S : x <= y
  <2>1. SUFFICES ASSUME \A x \in S : \E y \in S : ~(x <= y) PROVE FALSE
    OBVIOUS
  <2>2. \A x \in S : \E y \in S : y < x
    BY <2>1
  <2> QED
    BY <2>2, NatDescent
<1> QED
  BY <1>1 DEF Least

(* The tasks of m that are ready.                                          *)
Now(dep, route, m, rest) == {t \in Ready(dep, rest) : route[t] = m}

RunOne(f, dep, route, m, rest) ==
  IF Now(dep, route, m, rest) = {} THEN <<>>
  ELSE <<Least(Now(dep, route, m, rest))>> \o f[rest \ {Least(Now(dep, route, m, rest))}]

(* The task that a residency runs next.                                    *)
LEMMA LeastNow ==
  ASSUME NEW dep, NEW route, NEW m, NEW rest \in SUBSET Tasks, Now(dep, route, m, rest) # {}
  PROVE  Least(Now(dep, route, m, rest)) \in rest /\ Least(Now(dep, route, m, rest)) \in Now(dep, route, m, rest)
<1>1. Now(dep, route, m, rest) \in SUBSET Nat
  BY TasksAssumption DEF Now, Ready
<1>2. Least(Now(dep, route, m, rest)) \in Now(dep, route, m, rest)
  BY <1>1, LeastIsLeast
<1> QED
  BY <1>2 DEF Now, Ready

(* Fewer tasks remain after some have run.                                 *)
LEMMA TasksShrink ==
  ASSUME NEW rest \in SUBSET Tasks, NEW out \in SUBSET rest, out # {}
  PROVE  /\ IsFiniteSet(rest) /\ Cardinality(rest) \in Nat /\ Cardinality(rest) <= Cardinality(Tasks)
         /\ rest \ out \in SUBSET Tasks /\ Cardinality(rest \ out) \in Nat
         /\ Cardinality(rest \ out) < Cardinality(rest)
<1>1. IsFiniteSet(Tasks)
  BY TasksAssumption
<1>2. IsFiniteSet(rest) /\ Cardinality(rest) <= Cardinality(Tasks) /\ Cardinality(Tasks) \in Nat
  BY <1>1, FS_Subset, FS_CardinalityType
<1>3. rest \ out \in SUBSET rest /\ rest \ out # rest
  OBVIOUS
<1>4. /\ IsFiniteSet(rest \ out) /\ Cardinality(rest \ out) <= Cardinality(rest)
      /\ Cardinality(rest) = Cardinality(rest \ out) => rest = rest \ out
  BY <1>2, <1>3, FS_Subset
<1>5. Cardinality(rest) \in Nat /\ Cardinality(rest \ out) \in Nat
  BY <1>2, <1>4, FS_CardinalityType
<1> QED
  BY <1>2, <1>3, <1>4, <1>5

(* How many tasks remain.                                                  *)
Size == [rest \in SUBSET Tasks |-> Cardinality(rest)]

(* It is at most that of all tasks.                                        *)
LEMMA SizeIsBounded ==
  /\ Size \in [SUBSET Tasks -> Nat] /\ Cardinality(Tasks) + 1 \in Nat
  /\ \A rest \in SUBSET Tasks : Size[rest] < Cardinality(Tasks) + 1
<1>1. \A rest \in SUBSET Tasks : IsFiniteSet(rest) /\ Cardinality(rest) \in Nat /\ Cardinality(rest) <= Cardinality(Tasks)
  BY TasksAssumption, FS_Subset, FS_CardinalityType
<1>2. Cardinality(Tasks) \in Nat
  BY TasksAssumption, FS_CardinalityType
<1> QED
  BY <1>1, <1>2 DEF Size

(* A recursion that takes tasks away from those that remain descends.      *)
LEMMA TasksDescend ==
  ASSUME NEW stop, NEW next, stop \subseteq SUBSET Tasks,
         \A rest \in SUBSET Tasks : rest \notin stop =>
           \E out \in SUBSET rest : out # {} /\ next[rest] = rest \ out
  PROVE  Descends(SUBSET Tasks, Size, Cardinality(Tasks) + 1, stop, next)
<1>1. ASSUME NEW rest \in SUBSET Tasks, rest \notin stop
      PROVE  next[rest] \in SUBSET Tasks /\ Size[next[rest]] < Size[rest]
  <2>1. PICK out \in SUBSET rest : out # {} /\ next[rest] = rest \ out
    BY <1>1
  <2>2. rest \ out \in SUBSET Tasks /\ Cardinality(rest \ out) < Cardinality(rest)
    BY <2>1, TasksShrink
  <2> QED
    BY <2>1, <2>2 DEF Size
<1> QED
  BY <1>1, SizeIsBounded DEF Descends

(* Residency runs the least task that is ready and goes on without it.     *)
LEMMA ResidencyUnfolds ==
  ASSUME NEW dep, NEW route, NEW m
  PROVE  \A rest \in SUBSET Tasks :
           LET now == Now(dep, route, m, rest)
           IN Residency(dep, route, m, rest) =
                IF now = {} THEN <<>>
                ELSE <<Least(now)>> \o Residency(dep, route, m, rest \ {Least(now)})
<1>. DEFINE stop == {rest \in SUBSET Tasks : Now(dep, route, m, rest) = {}}
            part == [rest \in SUBSET Tasks |-> <<Least(Now(dep, route, m, rest))>>]
            next == [rest \in SUBSET Tasks |-> rest \ {Least(Now(dep, route, m, rest))}]
<1>1. ASSUME NEW rest \in SUBSET Tasks, rest \notin stop
      PROVE  \E out \in SUBSET rest : out # {} /\ next[rest] = rest \ out
  <2>1. Least(Now(dep, route, m, rest)) \in rest
    BY <1>1, LeastNow
  <2> QED
    BY <2>1
<1>2. Descends(SUBSET Tasks, Size, Cardinality(Tasks) + 1, stop, next)
  <2>1. stop \subseteq SUBSET Tasks
    OBVIOUS
  <2>. HIDE DEF stop, next
  <2> QED
    BY <1>1, <2>1, TasksDescend
<1>3. PICK g : Unrolled(g, SUBSET Tasks, stop, part, FALSE, next)
  <2>. HIDE DEF stop, part, next
  <2> QED
    BY <1>2, Unrolls
<1>. DEFINE Run(f) == [rest \in SUBSET Tasks |-> RunOne(f, dep, route, m, rest)]
<1>4. \A rest \in SUBSET Tasks : g[rest] = RunOne(g, dep, route, m, rest)
  BY <1>3 DEF RunOne, Unrolled, Joined
<1>5. g = Run(g)
  BY <1>3, <1>4 DEF Unrolled
<1>. DEFINE h == CHOOSE f : f = Run(f)
<1>6. h = Run(h)
  <2>. HIDE DEF Run
  <2> QED
    BY <1>5
<1>7. \A rest : Residency(dep, route, m, rest) = h[rest]
  BY DEF Residency, RunOne, Now
<1>8. \A rest \in SUBSET Tasks : h[rest] = RunOne(h, dep, route, m, rest)
  <2>1. \A rest \in SUBSET Tasks : Run(h)[rest] = RunOne(h, dep, route, m, rest)
    OBVIOUS
  <2>. HIDE DEF h, Run
  <2> QED
    BY <1>6, <2>1
<1>. HIDE DEF h
<1> QED
  BY <1>7, <1>8 DEF RunOne

InOrder(dep, before, s) ==
  \A i \in DOMAIN s : dep[s[i]] \subseteq before \cup {s[j] : j \in 1 .. i - 1}

(* No element comes twice.                                                 *)
Distinct(s) == \A i, j \in DOMAIN s : s[i] = s[j] => i = j

(* The elements of two sequences, one after the other.                     *)
LEMMA Concatenation ==
  ASSUME NEW s \in Seq(Tasks), NEW u \in Seq(Tasks)
  PROVE  /\ s \o u \in Seq(Tasks)
         /\ Len(s \o u) = Len(s) + Len(u)
         /\ Elements(s \o u) = Elements(s) \cup Elements(u)
         /\ Distinct(s) /\ Distinct(u) /\ Elements(s) \cap Elements(u) = {} => Distinct(s \o u)
<1>1. /\ s \o u \in Seq(Tasks) /\ Len(s \o u) = Len(s) + Len(u)
      /\ Len(s) \in Nat /\ Len(u) \in Nat
      /\ DOMAIN s = 1 .. Len(s) /\ DOMAIN u = 1 .. Len(u) /\ DOMAIN (s \o u) = 1 .. Len(s) + Len(u)
  OBVIOUS
<1>2. /\ \A i \in 1 .. Len(s) : (s \o u)[i] = s[i]
      /\ \A i \in 1 .. Len(u) : (s \o u)[i + Len(s)] = u[i]
      /\ \A i \in DOMAIN (s \o u) : i \in 1 .. Len(s) \/ i - Len(s) \in 1 .. Len(u)
      /\ \A i \in DOMAIN (s \o u) : i \notin 1 .. Len(s) => (s \o u)[i] = u[i - Len(s)]
  BY <1>1
<1>3. Elements(s \o u) = Elements(s) \cup Elements(u)
  <2>1. ASSUME NEW i \in DOMAIN (s \o u) PROVE (s \o u)[i] \in Elements(s) \cup Elements(u)
    BY <1>1, <1>2 DEF Elements
  <2>2. ASSUME NEW i \in DOMAIN s PROVE s[i] \in Elements(s \o u)
    <3>1. i \in DOMAIN (s \o u) /\ (s \o u)[i] = s[i]
      BY <1>1, <1>2
    <3> QED
      BY <3>1 DEF Elements
  <2>3. ASSUME NEW i \in DOMAIN u PROVE u[i] \in Elements(s \o u)
    <3>1. i + Len(s) \in DOMAIN (s \o u) /\ (s \o u)[i + Len(s)] = u[i]
      BY <1>1, <1>2
    <3> QED
      BY <3>1 DEF Elements
  <2> QED
    BY <2>1, <2>2, <2>3 DEF Elements
<1>4. ASSUME Distinct(s), Distinct(u), Elements(s) \cap Elements(u) = {} PROVE Distinct(s \o u)
  <2>1. SUFFICES ASSUME NEW i \in DOMAIN (s \o u), NEW j \in DOMAIN (s \o u), (s \o u)[i] = (s \o u)[j]
                 PROVE  i = j
    BY DEF Distinct
  <2>2. CASE i \in 1 .. Len(s) /\ j \in 1 .. Len(s)
    BY <1>1, <1>2, <1>4, <2>1, <2>2 DEF Distinct
  <2>3. CASE i \notin 1 .. Len(s) /\ j \notin 1 .. Len(s)
    BY <1>1, <1>2, <1>4, <2>1, <2>3 DEF Distinct
  <2>4. CASE i \in 1 .. Len(s) /\ j \notin 1 .. Len(s)
    <3>1. s[i] \in Elements(s) /\ u[j - Len(s)] \in Elements(u)
      BY <1>1, <1>2, <2>4 DEF Elements
    <3> QED
      BY <1>2, <1>4, <2>1, <2>4, <3>1
  <2>5. CASE i \notin 1 .. Len(s) /\ j \in 1 .. Len(s)
    <3>1. s[j] \in Elements(s) /\ u[i - Len(s)] \in Elements(u)
      BY <1>1, <1>2, <2>5 DEF Elements
    <3> QED
      BY <1>2, <1>4, <2>1, <2>5, <3>1
  <2> QED
    BY <2>2, <2>3, <2>4, <2>5
<1> QED
  BY <1>1, <1>3, <1>4

(* What can run after what ran before it can run after both.               *)
LEMMA OneAfterAnother ==
  ASSUME NEW dep, NEW before, NEW s \in Seq(Tasks), NEW u \in Seq(Tasks),
         InOrder(dep, before, s), InOrder(dep, before \cup Elements(s), u)
  PROVE  InOrder(dep, before, s \o u)
<1>1. /\ Len(s) \in Nat /\ Len(u) \in Nat
      /\ DOMAIN s = 1 .. Len(s) /\ DOMAIN u = 1 .. Len(u) /\ DOMAIN (s \o u) = 1 .. Len(s) + Len(u)
      /\ \A i \in 1 .. Len(s) : (s \o u)[i] = s[i]
      /\ \A i \in 1 .. Len(u) : (s \o u)[i + Len(s)] = u[i]
  OBVIOUS
<1>2. SUFFICES ASSUME NEW i \in DOMAIN (s \o u), NEW d \in dep[(s \o u)[i]], d \notin before
               PROVE  \E j \in 1 .. i - 1 : d = (s \o u)[j]
  BY DEF InOrder
<1>3. CASE i \in 1 .. Len(s)
  <2>1. PICK j \in 1 .. i - 1 : d = s[j]
    BY <1>1, <1>2, <1>3 DEF InOrder
  <2> QED
    BY <1>1, <1>3, <2>1
<1>4. CASE i \notin 1 .. Len(s)
  <2>1. i - Len(s) \in DOMAIN u /\ (s \o u)[i] = u[i - Len(s)]
    BY <1>1, <1>4
  <2>2. d \in Elements(s) \/ \E j \in 1 .. i - Len(s) - 1 : d = u[j]
    BY <1>2, <2>1 DEF InOrder
  <2>3. CASE d \in Elements(s)
    <3>1. PICK j \in 1 .. Len(s) : d = s[j]
      BY <1>1, <2>3 DEF Elements
    <3>2. j \in 1 .. i - 1
      BY <1>1, <1>4
    <3> QED
      BY <1>1, <3>1, <3>2
  <2>4. ASSUME NEW j \in 1 .. i - Len(s) - 1, d = u[j] PROVE \E k \in 1 .. i - 1 : d = (s \o u)[k]
    <3>1. j \in 1 .. Len(u) /\ j + Len(s) \in 1 .. i - 1
      BY <1>1, <2>1
    <3> QED
      BY <1>1, <2>4, <3>1
  <2> QED
    BY <2>2, <2>3, <2>4
<1> QED
  BY <1>3, <1>4

(* A sequence of one task.                                                 *)
LEMMA Alone ==
  ASSUME NEW t \in Tasks
  PROVE  /\ <<t>> \in Seq(Tasks) /\ Elements(<<t>>) = {t} /\ Distinct(<<t>>) /\ Len(<<t>>) = 1
         /\ \A dep, before : dep[t] \subseteq before => InOrder(dep, before, <<t>>)
BY DEF Elements, Distinct, InOrder

(* A sequence of none.                                                     *)
LEMMA Nothing ==
  /\ <<>> \in Seq(Tasks) /\ Elements(<<>>) = {} /\ Distinct(<<>>) /\ Len(<<>>) = 0
  /\ \A dep, before : InOrder(dep, before, <<>>)
BY DEF Elements, Distinct, InOrder

(* What a group has to be: tasks of its model that can run one after       *)
(* another.                                                                *)
GroupOf(dep, route, m, rest, s) ==
  /\ s \in Seq(Tasks) /\ Elements(s) \subseteq rest /\ Distinct(s)
  /\ \A t \in Elements(s) : route[t] = m
  /\ InOrder(dep, Tasks \ rest, s)

(* A residency runs tasks of its model, each once and after all it         *)
(* depends on, and at least one if one is ready.                           *)
LEMMA ResidencyRuns ==
  ASSUME NEW dep \in [Tasks -> SUBSET Tasks], NEW route, NEW m, NEW rest \in SUBSET Tasks
  PROVE  /\ GroupOf(dep, route, m, rest, Residency(dep, route, m, rest))
         /\ Now(dep, route, m, rest) # {} => Residency(dep, route, m, rest) # <<>>
<1>. DEFINE s(r) == Residency(dep, route, m, r)
            Bad  == {r \in SUBSET Tasks : ~GroupOf(dep, route, m, r, s(r))}
            now(r) == Least(Now(dep, route, m, r))
<1>1. \A r \in SUBSET Tasks : s(r) = IF Now(dep, route, m, r) = {} THEN <<>> ELSE <<now(r)>> \o s(r \ {now(r)})
  BY ResidencyUnfolds
<1>2. ASSUME NEW r \in SUBSET Tasks, Now(dep, route, m, r) # {}
      PROVE  /\ now(r) \in r /\ now(r) \in Tasks /\ dep[now(r)] \cap r = {} /\ route[now(r)] = m
             /\ r \ {now(r)} \in SUBSET Tasks /\ Cardinality(r \ {now(r)}) < Cardinality(r)
             /\ Cardinality(r \ {now(r)}) \in Nat /\ Cardinality(r) \in Nat
  <2>1. now(r) \in r /\ now(r) \in Now(dep, route, m, r)
    BY <1>2, LeastNow
  <2>2. {now(r)} \in SUBSET r /\ {now(r)} # {}
    BY <2>1
  <2> QED
    BY <2>1, <2>2, TasksShrink DEF Now, Ready
<1>3. ASSUME NEW r \in SUBSET Tasks, Now(dep, route, m, r) # {}, r \ {now(r)} \notin Bad
      PROVE  GroupOf(dep, route, m, r, s(r))
  <2>. DEFINE t == now(r)  u == s(r \ {now(r)})
  <2>1. t \in r /\ t \in Tasks /\ dep[t] \cap r = {} /\ route[t] = m /\ r \ {t} \in SUBSET Tasks /\ dep[t] \subseteq Tasks
    BY <1>2, <1>3
  <2>2. GroupOf(dep, route, m, r \ {t}, u)
    BY <1>3, <2>1
  <2>3. s(r) = <<t>> \o u
    BY <1>1, <1>3
  <2>. HIDE DEF t, u, s
  <2>4. <<t>> \in Seq(Tasks) /\ Elements(<<t>>) = {t} /\ Distinct(<<t>>) /\ InOrder(dep, Tasks \ r, <<t>>)
    BY <2>1, Alone
  <2>5. u \in Seq(Tasks) /\ Distinct(u) /\ {t} \cap Elements(u) = {} /\ Elements(u) \subseteq r
    BY <2>2 DEF GroupOf
  <2>6. InOrder(dep, (Tasks \ r) \cup Elements(<<t>>), u)
    <3>1. (Tasks \ r) \cup Elements(<<t>>) = Tasks \ (r \ {t})
      BY <2>1, <2>4
    <3> QED
      BY <2>2, <3>1 DEF GroupOf
  <2>7. InOrder(dep, Tasks \ r, s(r))
    BY <2>3, <2>4, <2>5, <2>6, OneAfterAnother
  <2>8. s(r) \in Seq(Tasks) /\ Elements(s(r)) = {t} \cup Elements(u) /\ Distinct(s(r))
    BY <2>3, <2>4, <2>5, Concatenation
  <2> QED
    BY <2>1, <2>2, <2>5, <2>7, <2>8 DEF GroupOf
<1>4. ASSUME NEW r \in SUBSET Tasks, Now(dep, route, m, r) = {} PROVE GroupOf(dep, route, m, r, s(r))
  <2>1. s(r) = <<>>
    BY <1>1, <1>4
  <2> QED
    BY <2>1, Nothing DEF GroupOf
<1>5. \A r \in Bad : \E q \in Bad : Size[q] < Size[r]
  <2>1. SUFFICES ASSUME NEW r \in Bad PROVE \E q \in Bad : Size[q] < Size[r]
    OBVIOUS
  <2>2. Now(dep, route, m, r) # {}
    BY <1>4
  <2>3. r \ {now(r)} \in Bad
    BY <1>3, <2>2
  <2> QED
    BY <1>2, <2>2, <2>3 DEF Size
<1>6. Bad = {}
  <2>1. Bad \subseteq SUBSET Tasks
    OBVIOUS
  <2>. HIDE DEF Bad
  <2> QED
    BY <1>5, <2>1, SizeIsBounded, Descent
<1>7. ASSUME Now(dep, route, m, rest) # {} PROVE s(rest) # <<>>
  <2>1. s(rest) = <<now(rest)>> \o s(rest \ {now(rest)}) /\ rest \ {now(rest)} \in SUBSET Tasks
    BY <1>1, <1>2, <1>7
  <2>2. s(rest \ {now(rest)}) \in Seq(Tasks) /\ now(rest) \in Tasks
    BY <1>2, <1>6, <1>7, <2>1 DEF GroupOf
  <2>. HIDE DEF s, now
  <2>3. <<now(rest)>> \in Seq(Tasks) /\ Len(<<now(rest)>>) = 1
    BY <2>2, Alone
  <2>4. Len(s(rest)) = 1 + Len(s(rest \ {now(rest)})) /\ Len(s(rest \ {now(rest)})) \in Nat
    BY <2>1, <2>2, <2>3, Concatenation
  <2> QED
    BY <2>4, Nothing
<1> QED
  BY <1>6, <1>7

(* The tasks in the order of their ids (Batch).                            *)
Sort(f, rest) == IF rest = {} THEN <<>> ELSE <<Least(rest)>> \o f[rest \ {Least(rest)}]
Sorted == CHOOSE f : f = [rest \in SUBSET Tasks |-> Sort(f, rest)]

(* Sorted is what its definition says.                                     *)
LEMMA SortedUnfolds ==
  \A rest \in SUBSET Tasks : Sorted[rest] = Sort(Sorted, rest)
<1>. DEFINE stop   == {{}}
            part   == [rest \in SUBSET Tasks |-> <<Least(rest)>>]
            next   == [rest \in SUBSET Tasks |-> rest \ {Least(rest)}]
            Srt(f) == [rest \in SUBSET Tasks |-> Sort(f, rest)]
<1>1. ASSUME NEW rest \in SUBSET Tasks, rest \notin stop
      PROVE  \E out \in SUBSET rest : out # {} /\ next[rest] = rest \ out
  <2>1. rest \in SUBSET Nat /\ rest # {}
    BY <1>1, TasksAssumption
  <2>2. Least(rest) \in rest
    BY <2>1, LeastIsLeast
  <2> QED
    BY <2>2
<1>2. PICK g : Unrolled(g, SUBSET Tasks, stop, part, FALSE, next)
  <2>1. stop \subseteq SUBSET Tasks
    OBVIOUS
  <2>. HIDE DEF stop, part, next
  <2>2. Descends(SUBSET Tasks, Size, Cardinality(Tasks) + 1, stop, next)
    BY <1>1, <2>1, TasksDescend
  <2> QED
    BY <2>2, Unrolls
<1>3. \A rest \in SUBSET Tasks : g[rest] = Sort(g, rest)
  BY <1>2 DEF Sort, Unrolled, Joined
<1>4. g = Srt(g)
  BY <1>2, <1>3 DEF Unrolled
<1>5. Sorted = Srt(Sorted)
  <2>1. Sorted = CHOOSE f : f = Srt(f)
    BY DEF Sorted
  <2>. HIDE DEF Srt
  <2> QED
    BY <1>4, <2>1
<1>6. \A rest \in SUBSET Tasks : Srt(Sorted)[rest] = Sort(Sorted, rest)
  OBVIOUS
<1> QED
  <2>. HIDE DEF Srt
  <2> QED
    BY <1>5, <1>6

(* It holds tasks of the set, each once, and at least one.                 *)
LEMMA SortedOnce ==
  ASSUME NEW rest \in SUBSET Tasks
  PROVE  /\ Sorted[rest] \in Seq(Tasks) /\ Elements(Sorted[rest]) \subseteq rest /\ Distinct(Sorted[rest])
         /\ rest # {} => Sorted[rest] # <<>>
<1>. DEFINE OK(r) == Sorted[r] \in Seq(Tasks) /\ Elements(Sorted[r]) \subseteq r /\ Distinct(Sorted[r])
            Bad  == {r \in SUBSET Tasks : ~OK(r)}
<1>1. ASSUME NEW r \in SUBSET Tasks, r # {}
      PROVE  /\ Least(r) \in r /\ Sorted[r] = <<Least(r)>> \o Sorted[r \ {Least(r)}]
             /\ r \ {Least(r)} \in SUBSET Tasks /\ Cardinality(r \ {Least(r)}) < Cardinality(r)
             /\ Cardinality(r \ {Least(r)}) \in Nat /\ Cardinality(r) \in Nat
  <2>1. r \in SUBSET Nat
    BY TasksAssumption
  <2>2. Least(r) \in r
    BY <1>1, <2>1, LeastIsLeast
  <2>3. {Least(r)} \in SUBSET r /\ {Least(r)} # {}
    BY <2>2
  <2> QED
    BY <1>1, <2>2, <2>3, TasksShrink, SortedUnfolds DEF Sort
<1>2. ASSUME NEW r \in SUBSET Tasks, r # {}, OK(r \ {Least(r)})
      PROVE  OK(r) /\ Sorted[r] # <<>>
  <2>. DEFINE t == Least(r)  u == Sorted[r \ {t}]
  <2>1. t \in r /\ t \in Tasks /\ Sorted[r] = <<t>> \o u
    BY <1>1, <1>2
  <2>2. u \in Seq(Tasks) /\ Distinct(u) /\ Elements(u) \subseteq r /\ {t} \cap Elements(u) = {}
    BY <1>2
  <2>. HIDE DEF t, u
  <2>3. <<t>> \in Seq(Tasks) /\ Elements(<<t>>) = {t} /\ Distinct(<<t>>) /\ Len(<<t>>) = 1
    BY <2>1, Alone
  <2>4. /\ <<t>> \o u \in Seq(Tasks) /\ Elements(<<t>> \o u) = {t} \cup Elements(u) /\ Distinct(<<t>> \o u)
        /\ Len(<<t>> \o u) = 1 + Len(u)
    BY <2>2, <2>3, Concatenation
  <2>5. <<t>> \o u # <<>>
    BY <2>2, <2>4, Nothing
  <2> QED
    BY <2>1, <2>2, <2>4, <2>5
<1>3. OK({})
  BY SortedUnfolds, Nothing DEF Sort
<1>4. Bad = {}
  <2>1. \A r \in Bad : \E q \in Bad : Size[q] < Size[r]
    BY <1>1, <1>2, <1>3 DEF Size
  <2>2. Bad \subseteq SUBSET Tasks
    OBVIOUS
  <2>. HIDE DEF Bad
  <2> QED
    BY <2>1, <2>2, SizeIsBounded, Descent
<1> QED
  BY <1>1, <1>2, <1>4

(* A batch is a group, too.                                                *)
LEMMA BatchRuns ==
  ASSUME NEW dep \in [Tasks -> SUBSET Tasks], NEW route, NEW m, NEW rest \in SUBSET Tasks
  PROVE  /\ GroupOf(dep, route, m, rest, Batch(dep, route, m, rest))
         /\ Now(dep, route, m, rest) # {} => Batch(dep, route, m, rest) # <<>>
<1>. DEFINE now == Now(dep, route, m, rest)
            s   == Batch(dep, route, m, rest)
<1>1. s = Sorted[now]
  BY DEF Batch, Sorted, Sort, Now
<1>2. now \in SUBSET Tasks /\ \A t \in now : t \in rest /\ route[t] = m /\ dep[t] \cap rest = {}
  BY DEF Now, Ready
<1>3. s \in Seq(Tasks) /\ Elements(s) \subseteq now /\ Distinct(s) /\ (now # {} => s # <<>>)
  BY <1>1, <1>2, SortedOnce
<1>. HIDE DEF s, now
<1>4. InOrder(dep, Tasks \ rest, s)
  BY <1>2, <1>3 DEF InOrder, Elements
<1> QED
  BY <1>2, <1>3, <1>4 DEF GroupOf, now, s

Group == [model : Models, tasks : Seq(Tasks), switch : BOOLEAN]

(* What Order joins up to its n-th group.                                  *)
OrderedUpTo(f, plan) ==
  f[0] = <<>> /\ \A n \in 1 .. Len(plan) : f[n] = f[n - 1] \o plan[n].tasks

(* Order joins the tasks of the groups, one group after another.           *)
LEMMA OrderUnfolds ==
  ASSUME NEW plan, Len(plan) \in Nat
  PROVE  \E f : OrderedUpTo(f, plan) /\ Order(plan) = f[Len(plan)]
<1>. DEFINE D      == 0 .. Len(plan)
            self   == [n \in D |-> n]
            part   == [n \in D |-> plan[n].tasks]
            next   == [n \in D |-> n - 1]
            upTo(f) == [n \in 0 .. Len(plan) |-> IF n = 0 THEN <<>> ELSE f[n - 1] \o plan[n].tasks]
<1>1. Descends(D, self, Len(plan) + 1, {0}, next)
  BY DEF Descends
<1>2. PICK g : Unrolled(g, D, {0}, part, TRUE, next)
  <2>. HIDE DEF D, self, part, next
  <2> QED
    BY <1>1, Unrolls
<1>3. \A n \in 0 .. Len(plan) : g[n] = IF n = 0 THEN <<>> ELSE g[n - 1] \o plan[n].tasks
  BY <1>2 DEF Unrolled, Joined
<1>4. g = upTo(g)
  BY <1>2, <1>3 DEF Unrolled
<1>. DEFINE h == CHOOSE f : f = upTo(f)
<1>5. h = upTo(h)
  <2>. HIDE DEF upTo
  <2> QED
    BY <1>4
<1>6. Order(plan) = h[Len(plan)]
  BY DEF Order
<1>7. \A n \in 0 .. Len(plan) : upTo(h)[n] = IF n = 0 THEN <<>> ELSE h[n - 1] \o plan[n].tasks
  OBVIOUS
<1>8. \A n \in 0 .. Len(plan) : h[n] = IF n = 0 THEN <<>> ELSE h[n - 1] \o plan[n].tasks
  <2>. HIDE DEF h, upTo
  <2> QED
    BY <1>5, <1>7
<1>. HIDE DEF h
<1>9. OrderedUpTo(h, plan)
  <2>1. h[0] = <<>>
    BY <1>8
  <2>2. ASSUME NEW n \in 1 .. Len(plan) PROVE h[n] = h[n - 1] \o plan[n].tasks
    <3>1. n \in 0 .. Len(plan) /\ n # 0
      BY <2>2
    <3> QED
      BY <1>8, <3>1, Zenon
  <2> QED
    BY <2>1, <2>2 DEF OrderedUpTo
<1> QED
  BY <1>6, <1>9

(* The parts of a group.                                                   *)
LEMMA GroupParts ==
  /\ \A g \in Group : g.model \in Models /\ g.tasks \in Seq(Tasks) /\ g.switch \in BOOLEAN
  /\ \A plan \in Seq(Group) : Len(plan) \in Nat
BY DEF Group

(* The groups of a plan.                                                   *)
LEMMA GroupsOfPlan ==
  ASSUME NEW plan \in Seq(Group), NEW n \in 1 .. Len(plan)
  PROVE  /\ n \in Nat /\ plan[n] \in Group
         /\ plan[n].model \in Models /\ plan[n].tasks \in Seq(Tasks) /\ plan[n].switch \in BOOLEAN
<1>1. n \in Nat /\ plan[n] \in Group
  OBVIOUS
<1> QED
  BY <1>1, GroupParts

(* What is joined are tasks.                                               *)
LEMMA OrderTypes ==
  ASSUME NEW plan \in Seq(Group), NEW f, OrderedUpTo(f, plan)
  PROVE  \A n \in 0 .. Len(plan) : f[n] \in Seq(Tasks)
<1>1. Len(plan) \in Nat
  BY GroupParts
<1>. DEFINE Bad == {n \in 0 .. Len(plan) : f[n] \notin Seq(Tasks)}
<1>2. ASSUME NEW n \in Bad PROVE \E k \in Bad : k < n
  <2>1. n \in 0 .. Len(plan) /\ f[n] \notin Seq(Tasks)
    OBVIOUS
  <2>2. f[0] \in Seq(Tasks)
    BY Nothing DEF OrderedUpTo
  <2>3. n # 0
    BY <2>1, <2>2
  <2>4. n \in 1 .. Len(plan) /\ n - 1 \in 0 .. Len(plan) /\ n - 1 < n
    BY <1>1, <2>1, <2>3
  <2>5. f[n] = f[n - 1] \o plan[n].tasks
    BY <2>4 DEF OrderedUpTo
  <2>6. plan[n].tasks \in Seq(Tasks)
    BY <2>4, GroupsOfPlan
  <2>7. f[n - 1] \notin Seq(Tasks)
    BY <2>1, <2>5, <2>6
  <2> QED
    BY <2>4, <2>7
<1>3. Bad = {}
  <2>1. Bad \in SUBSET Nat
    BY <1>1
  <2>. HIDE DEF Bad
  <2> QED
    BY <1>2, <2>1, NatDescent
<1> QED
  BY <1>3

(* So is the order of a plan.                                              *)
LEMMA OrderOfTasks ==
  ASSUME NEW plan \in Seq(Group)
  PROVE  Order(plan) \in Seq(Tasks)
<1>1. Len(plan) \in Nat
  BY GroupParts
<1>2. PICK f : OrderedUpTo(f, plan) /\ Order(plan) = f[Len(plan)]
  BY <1>1, OrderUnfolds
<1>3. Len(plan) \in 0 .. Len(plan)
  BY <1>1
<1> QED
  BY <1>2, <1>3, OrderTypes

(* The order of no group is empty.                                         *)
LEMMA OrderOfNone == Order(<<>>) = <<>>
<1>1. Len(<<>>) = 0
  OBVIOUS
<1>2. PICK f : OrderedUpTo(f, <<>>) /\ Order(<<>>) = f[Len(<<>>)]
  BY <1>1, OrderUnfolds
<1> QED
  BY <1>1, <1>2 DEF OrderedUpTo

(* The order of a plan begins with the tasks of its first group.           *)
LEMMA OrderOfGroup ==
  ASSUME NEW g \in Group, NEW rest \in Seq(Group)
  PROVE  Order(<<g>> \o rest) = g.tasks \o Order(rest)
<1>. DEFINE plan == <<g>> \o rest
            N    == Len(rest)
            Meets(f, h, n) == f[n + 1] = g.tasks \o h[n]
<1>1. N \in Nat
  BY GroupParts
<1>2. Len(plan) = N + 1 /\ plan[1] = g
  OBVIOUS
<1>3. ASSUME NEW n \in 1 .. N PROVE plan[n + 1] = rest[n]
  BY <1>3
<1>. HIDE DEF plan
<1>4. PICK f : OrderedUpTo(f, plan) /\ Order(plan) = f[Len(plan)]
  BY <1>1, <1>2, OrderUnfolds
<1>5. PICK h : OrderedUpTo(h, rest) /\ Order(rest) = h[N]
  BY <1>1, OrderUnfolds
<1>6. \A n \in 0 .. N : h[n] \in Seq(Tasks)
  BY <1>5, OrderTypes
<1>7. g.tasks \in Seq(Tasks)
  BY GroupParts
<1>. DEFINE Bad == {n \in 0 .. N : ~Meets(f, h, n)}
<1>8. f[1] = g.tasks \o h[0]
  <2>1. 1 \in 1 .. Len(plan)
    BY <1>1, <1>2
  <2>2. f[1] = f[1 - 1] \o plan[1].tasks /\ f[0] = <<>> /\ h[0] = <<>>
    BY <1>4, <1>5, <2>1 DEF OrderedUpTo
  <2>3. 1 - 1 = 0
    OBVIOUS
  <2>4. f[1] = <<>> \o g.tasks
    BY <1>2, <2>2, <2>3
  <2> QED
    BY <1>7, <2>2, <2>4, ConcatEmptySeq
<1>9. ASSUME NEW n \in 1 .. N, f[n] = g.tasks \o h[n - 1] PROVE f[n + 1] = g.tasks \o h[n]
  <2>. PICK k : k = n + 1
    OBVIOUS
  <2>1. n - 1 \in 0 .. N /\ k \in 1 .. Len(plan) /\ k - 1 = n
    BY <1>1, <1>2, <1>9
  <2>2. f[k] = f[k - 1] \o plan[k].tasks
    BY <1>4, <2>1 DEF OrderedUpTo
  <2>3. h[n] = h[n - 1] \o rest[n].tasks
    BY <1>5 DEF OrderedUpTo, N
  <2>4. rest[n].tasks \in Seq(Tasks) /\ h[n - 1] \in Seq(Tasks)
    BY <1>6, <2>1, GroupsOfPlan DEF N
  <2>5. f[n + 1] = (g.tasks \o h[n - 1]) \o rest[n].tasks
    BY <1>3, <1>9, <2>1, <2>2
  <2>6. (g.tasks \o h[n - 1]) \o rest[n].tasks = g.tasks \o (h[n - 1] \o rest[n].tasks)
    <3>1. \A s, t, u \in Seq(Tasks) : (s \o t) \o u = s \o (t \o u)
      BY ConcatAssociative
    <3> QED
      BY <1>7, <2>4, <3>1, Zenon
  <2> QED
    BY <2>3, <2>5, <2>6
<1>. HIDE DEF Meets, N
<1>10. ASSUME NEW n \in Bad PROVE \E k \in Bad : k < n
  <2>1. n \in 0 .. N /\ ~Meets(f, h, n)
    OBVIOUS
  <2>2. n # 0
    <3>1. Meets(f, h, 0)
      <4>1. 0 + 1 = 1
        OBVIOUS
      <4>2. f[0 + 1] = g.tasks \o h[0]
        BY <1>8, <4>1
      <4> QED
        BY <4>2, Zenon DEF Meets
    <3> QED
      BY <2>1, <3>1
  <2>3. n \in 1 .. N /\ n - 1 \in 0 .. N /\ n - 1 + 1 = n /\ n - 1 < n
    BY <1>1, <2>1, <2>2
  <2>4. ~Meets(f, h, n - 1)
    <3>1. n - 1 + 1 = n
      BY <2>3
    <3>2. f[n] # g.tasks \o h[n - 1]
      BY <1>9, <2>1, <2>3 DEF Meets
    <3> QED
      BY <3>1, <3>2 DEF Meets
  <2> QED
    BY <2>3, <2>4
<1>11. Bad = {}
  <2>1. Bad \in SUBSET Nat
    BY <1>1
  <2>. HIDE DEF Bad
  <2> QED
    BY <1>10, <2>1, NatDescent
<1>12. f[N + 1] = g.tasks \o h[N]
  <2>1. N \in 0 .. N
    BY <1>1
  <2> QED
    BY <1>11, <2>1 DEF Meets
<1> QED
  BY <1>2, <1>4, <1>5, <1>12 DEF plan, N

(* A sequence of distinct tasks is as long as it has elements.             *)
LEMMA DistinctTasks ==
  ASSUME NEW s \in Seq(Tasks), Distinct(s)
  PROVE  /\ Elements(s) \subseteq Tasks /\ IsFiniteSet(Elements(s))
         /\ Cardinality(Elements(s)) = Len(s) /\ Len(s) <= Cardinality(Tasks)
<1>1. Len(s) \in Nat /\ DOMAIN s = 1 .. Len(s) /\ s \in [1 .. Len(s) -> Tasks]
  OBVIOUS
<1>2. Elements(s) \subseteq Tasks
  BY <1>1 DEF Elements
<1>3. s \in Bijection(1 .. Len(s), Elements(s))
  BY <1>1 DEF Distinct, Elements, Bijection, Injection, Surjection, IsInjective
<1>4. ExistsBijection(1 .. Len(s), Elements(s))
  BY <1>3 DEF ExistsBijection
<1>5. Cardinality(Elements(s)) = Len(s)
  BY <1>1, <1>4, FS_CountingElements
<1>6. IsFiniteSet(Elements(s)) /\ Cardinality(Elements(s)) <= Cardinality(Tasks)
  BY <1>2, TasksAssumption, FS_Subset
<1> QED
  BY <1>2, <1>5, <1>6

(* The models that ready tasks want.                                       *)
LEMMA ReadyModelsAre ==
  ASSUME NEW dep, NEW route \in Routes, NEW rest \in SUBSET Tasks, Ready(dep, rest) # {}
  PROVE  /\ ReadyModels(dep, route, rest) # {} /\ ReadyModels(dep, route, rest) \subseteq Models
         /\ ReadyModels(dep, route, rest) \in SUBSET Nat
<1>1. ReadyModels(dep, route, rest) # {}
  BY DEF ReadyModels
<1>2. ReadyModels(dep, route, rest) \subseteq Models
  BY DEF ReadyModels, Ready, Routes
<1> QED
  BY <1>1, <1>2, PlanModelsAssumption

(* The model that is chosen next is one that a ready task wants.           *)
LEMMA NextModelIsReady ==
  ASSUME NEW dep \in [Tasks -> SUBSET Tasks], NEW route \in Routes, NEW hot, NEW rest \in SUBSET Tasks,
         Ready(dep, rest) # {}
  PROVE  NextModel(dep, route, hot, rest) \in ReadyModels(dep, route, rest)
<1>. DEFINE ready    == ReadyModels(dep, route, rest)
            score(m) == Len(Residency(dep, route, m, rest))
            best     == {m \in ready : \A n \in ready : score(m) >= score(n)}
            short    == [m \in ready |-> Cardinality(Tasks) - score(m)]
            Bad      == {m \in ready : m \notin best}
<1>1. \A m \in ready : score(m) \in Nat /\ score(m) <= Cardinality(Tasks)
  <2>1. SUFFICES ASSUME NEW m \in ready PROVE score(m) \in Nat /\ score(m) <= Cardinality(Tasks)
    OBVIOUS
  <2>2. GroupOf(dep, route, m, rest, Residency(dep, route, m, rest))
    BY ResidencyRuns
  <2>3. Residency(dep, route, m, rest) \in Seq(Tasks) /\ Distinct(Residency(dep, route, m, rest))
    BY <2>2 DEF GroupOf
  <2> QED
    BY <2>3, DistinctTasks
<1>2. Cardinality(Tasks) \in Nat
  BY TasksAssumption, FS_CardinalityType
<1>3. ready # {} /\ ready \subseteq Nat
  BY ReadyModelsAre
<1>. HIDE DEF ready, score
<1>4. short \in [ready -> Nat]
  BY <1>1, <1>2
<1>5. best # {}
  <2>1. SUFFICES ASSUME best = {} PROVE FALSE
    OBVIOUS
  <2>2. \A m \in ready : \E n \in ready : short[n] < short[m]
    <3>1. SUFFICES ASSUME NEW m \in ready PROVE \E n \in ready : short[n] < short[m]
      OBVIOUS
    <3>2. PICK n \in ready : ~(score(m) >= score(n))
      BY <2>1
    <3> QED
      BY <1>1, <1>2, <3>2
  <2>3. ready \subseteq ready
    OBVIOUS
  <2>. HIDE DEF short
  <2> QED
    BY <1>3, <1>4, <2>2, <2>3, Descent
<1>6. Least(best) \in ready
  <2>1. best \in SUBSET Nat /\ best \subseteq ready
    BY <1>3
  <2>. HIDE DEF best
  <2> QED
    BY <1>5, <2>1, LeastIsLeast
<1>7. NextModel(dep, route, hot, rest) = IF hot \in ready THEN hot ELSE Least(best)
  BY DEF NextModel, ready, score
<1> QED
  <2>. HIDE DEF best
  <2>1. NextModel(dep, route, hot, rest) \in ready
    BY <1>6, <1>7
  <2> QED
    BY <2>1 DEF ready

OfTheirModels(route, plan) ==
  \A i \in DOMAIN plan : \A t \in Elements(plan[i].tasks) : route[t] = plan[i].model

(* What remains to be planned, and what is hot.                            *)
PlanStates == (SUBSET Tasks) \X Models

(* The group that is planned at a state of a planner, and what is hot      *)
(* after it.                                                               *)
Plannable(dep, route, group, after) ==
  \A rest \in SUBSET Tasks, hot \in Models :
    Ready(dep, rest) # {} =>
      /\ group[<<rest, hot>>] \in Group /\ after[<<rest, hot>>] \in Models
      /\ group[<<rest, hot>>].tasks # <<>>
      /\ GroupOf(dep, route, group[<<rest, hot>>].model, rest, group[<<rest, hot>>].tasks)

Planned(f, dep, group, after) ==
  \A at \in PlanStates :
    f[at] = IF Ready(dep, at[1]) = {} THEN <<>>
            ELSE <<group[at]>> \o f[<<at[1] \ Elements(group[at].tasks), after[at]>>]

(* What a plan of the tasks that remain is: it runs each at most once,     *)
(* after all it depends on, and leaves none that is ready.                 *)
PlanOf(dep, route, rest, plan) ==
  /\ plan \in Seq(Group)
  /\ Elements(Order(plan)) \subseteq rest /\ Distinct(Order(plan))
  /\ InOrder(dep, Tasks \ rest, Order(plan))
  /\ OfTheirModels(route, plan) /\ \A i \in DOMAIN plan : plan[i].tasks # <<>>
  /\ Ready(dep, rest \ Elements(Order(plan))) = {}

(* A sequence that is not empty has an element.                            *)
LEMMA ElementsOfSome ==
  ASSUME NEW s \in Seq(Tasks), s # <<>>
  PROVE  Elements(s) # {}
<1>1. Len(s) \in Nat /\ Len(s) # 0 /\ DOMAIN s = 1 .. Len(s)
  OBVIOUS
<1>2. 1 \in DOMAIN s
  BY <1>1
<1> QED
  BY <1>2 DEF Elements

(* A group before a plan of what remains after it.                         *)
LEMMA PlanOfGroup ==
  ASSUME NEW dep, NEW route, NEW rest \in SUBSET Tasks, NEW g \in Group, NEW p,
         GroupOf(dep, route, g.model, rest, g.tasks), g.tasks # <<>>,
         PlanOf(dep, route, rest \ Elements(g.tasks), p)
  PROVE  PlanOf(dep, route, rest, <<g>> \o p)
<1>. DEFINE plan == <<g>> \o p
            ran == Elements(g.tasks)
            tail == Order(p)
<1>1. g.tasks \in Seq(Tasks) /\ p \in Seq(Group) /\ tail \in Seq(Tasks)
  BY GroupParts, OrderOfTasks DEF PlanOf
<1>2. plan \in Seq(Group)
  BY <1>1
<1>3. Order(plan) = g.tasks \o tail
  BY <1>1, OrderOfGroup
<1>4. /\ ran \subseteq rest /\ Distinct(g.tasks) /\ InOrder(dep, Tasks \ rest, g.tasks)
      /\ \A t \in ran : route[t] = g.model
  BY DEF GroupOf
<1>5. /\ Elements(tail) \subseteq rest \ ran /\ Distinct(tail)
      /\ InOrder(dep, Tasks \ (rest \ ran), tail)
      /\ Ready(dep, (rest \ ran) \ Elements(tail)) = {}
  BY DEF PlanOf
<1>6. OfTheirModels(route, plan) /\ \A i \in DOMAIN plan : plan[i].tasks # <<>>
  <2>1. /\ OfTheirModels(route, p) /\ \A i \in DOMAIN p : p[i].tasks # <<>>
    BY DEF PlanOf
  <2>2. /\ DOMAIN p = 1 .. Len(p) /\ Len(p) \in Nat /\ DOMAIN plan = 1 .. Len(p) + 1
        /\ plan[1] = g /\ \A i \in DOMAIN plan : i # 1 => i - 1 \in DOMAIN p /\ plan[i] = p[i - 1]
    BY <1>1
  <2>3. ASSUME NEW i \in DOMAIN plan
        PROVE plan[i].tasks # <<>> /\ \A t \in Elements(plan[i].tasks) : route[t] = plan[i].model
    <3>. HIDE DEF plan
    <3>1. CASE i = 1
      BY <1>4, <2>2, <3>1
    <3>2. CASE i # 1
      <4>1. i - 1 \in DOMAIN p /\ plan[i] = p[i - 1]
        BY <2>2, <3>2
      <4>2. p[i - 1].tasks # <<>> /\ \A t \in Elements(p[i - 1].tasks) : route[t] = p[i - 1].model
        BY <2>1, <4>1 DEF OfTheirModels
      <4> QED
        BY <4>1, <4>2
    <3> QED
      BY <3>1, <3>2
  <2>. HIDE DEF plan
  <2> QED
    BY <2>3 DEF OfTheirModels
<1>. HIDE DEF plan, tail
<1>7. ran \cap Elements(tail) = {} /\ (Tasks \ rest) \cup ran = Tasks \ (rest \ ran)
  BY <1>4, <1>5
<1>8. Elements(Order(plan)) = ran \cup Elements(tail) /\ Distinct(Order(plan))
  BY <1>1, <1>3, <1>4, <1>5, <1>7, Concatenation
<1>9. InOrder(dep, Tasks \ rest, Order(plan))
  BY <1>1, <1>3, <1>4, <1>5, <1>7, OneAfterAnother
<1>10. rest \ Elements(Order(plan)) = (rest \ ran) \ Elements(tail)
  BY <1>8
<1>11. PlanOf(dep, route, rest, plan)
  BY <1>2, <1>4, <1>5, <1>6, <1>8, <1>9, <1>10 DEF PlanOf
<1> QED
  BY <1>11 DEF plan

(* Where no task is ready the plan ends.                                   *)
LEMMA PlanOfNothing ==
  ASSUME NEW dep, NEW route, NEW rest \in SUBSET Tasks, Ready(dep, rest) = {}
  PROVE  PlanOf(dep, route, rest, <<>>)
<1>1. Order(<<>>) = <<>> /\ Elements(<<>>) = {} /\ Distinct(<<>>) /\ InOrder(dep, Tasks \ rest, <<>>)
  BY OrderOfNone, Nothing
<1>2. rest \ {} = rest
  OBVIOUS
<1>3. OfTheirModels(route, <<>>) /\ <<>> \in Seq(Group) /\ DOMAIN <<>> = {}
  BY DEF OfTheirModels
<1> QED
  BY <1>1, <1>2, <1>3 DEF PlanOf

(* A planner whose next group is always one that can run plans soundly.    *)
LEMMA PlannersPlan ==
  ASSUME NEW f, NEW dep, NEW route, NEW group, NEW after,
         Plannable(dep, route, group, after), Planned(f, dep, group, after)
  PROVE  \A rest \in SUBSET Tasks, hot \in Models : PlanOf(dep, route, rest, f[<<rest, hot>>])
<1>. DEFINE OK(rest) == \A hot \in Models : PlanOf(dep, route, rest, f[<<rest, hot>>])
            Bad      == {rest \in SUBSET Tasks : ~OK(rest)}
<1>1. ASSUME NEW rest \in Bad PROVE \E q \in Bad : Size[q] < Size[rest]
  <2>1. PICK hot \in Models : ~PlanOf(dep, route, rest, f[<<rest, hot>>])
    OBVIOUS
  <2>0. /\ <<rest, hot>> \in PlanStates /\ <<rest, hot>>[1] = rest
    BY DEF PlanStates
  <2>2. Ready(dep, rest) # {}
    BY <2>0, <2>1, PlanOfNothing DEF Planned
  <2>. DEFINE g == group[<<rest, hot>>]
              q == rest \ Elements(g.tasks)
              p == f[<<q, after[<<rest, hot>>]>>]
  <2>3. /\ g \in Group /\ after[<<rest, hot>>] \in Models /\ g.tasks # <<>>
        /\ GroupOf(dep, route, g.model, rest, g.tasks) /\ f[<<rest, hot>>] = <<g>> \o p
    BY <2>0, <2>2 DEF Plannable, Planned
  <2>4. ~PlanOf(dep, route, q, p)
    BY <2>1, <2>3, PlanOfGroup
  <2>5. q \in Bad
    BY <2>3, <2>4
  <2>6. Elements(g.tasks) \in SUBSET rest /\ Elements(g.tasks) # {}
    BY <2>3, ElementsOfSome DEF GroupOf
  <2>7. Cardinality(q) < Cardinality(rest)
    BY <2>6, TasksShrink
  <2> QED
    BY <2>5, <2>7 DEF Size
<1>2. Bad = {}
  <2>1. Bad \subseteq SUBSET Tasks
    OBVIOUS
  <2>. HIDE DEF Bad
  <2> QED
    BY <1>1, <2>1, SizeIsBounded, Descent
<1> QED
  BY <1>2

(* A recursion that plans some of the remaining tasks descends.            *)
LEMMA PlanStatesDescend ==
  ASSUME NEW stop, NEW next, stop \subseteq PlanStates,
         \A at \in PlanStates : at \notin stop =>
           /\ next[at] \in PlanStates
           /\ \E out \in SUBSET at[1] : out # {} /\ next[at][1] = at[1] \ out
  PROVE  Descends(PlanStates, [at \in PlanStates |-> Size[at[1]]], Cardinality(Tasks) + 1, stop, next)
<1>. DEFINE w == [at \in PlanStates |-> Size[at[1]]]
<1>1. \A at \in PlanStates : at[1] \in SUBSET Tasks
  BY DEF PlanStates
<1>2. ASSUME NEW at \in PlanStates, at \notin stop
      PROVE  next[at] \in PlanStates /\ Size[next[at][1]] < Size[at[1]]
  <2>1. PICK out \in SUBSET at[1] : out # {} /\ next[at] \in PlanStates /\ next[at][1] = at[1] \ out
    BY <1>2
  <2>2. at[1] \ out \in SUBSET Tasks /\ Cardinality(at[1] \ out) < Cardinality(at[1])
    BY <1>1, <2>1, TasksShrink
  <2> QED
    BY <1>1, <2>1, <2>2 DEF Size
<1> QED
  BY <1>1, <1>2, SizeIsBounded DEF Descends

(* Such a planner's plans exist.                                           *)
LEMMA PlansExist ==
  ASSUME NEW dep, NEW route, NEW group, NEW after, Plannable(dep, route, group, after)
  PROVE  \E f : f = [at \in PlanStates |-> f[at]] /\ Planned(f, dep, group, after)
<1>. DEFINE stop == {at \in PlanStates : Ready(dep, at[1]) = {}}
            part == [at \in PlanStates |-> <<group[at]>>]
            next == [at \in PlanStates |-> <<at[1] \ Elements(group[at].tasks), after[at]>>]
            w    == [at \in PlanStates |-> Size[at[1]]]
<1>1. ASSUME NEW at \in PlanStates, at \notin stop
      PROVE  /\ next[at] \in PlanStates
             /\ \E out \in SUBSET at[1] : out # {} /\ next[at][1] = at[1] \ out
  <2>1. PICK rest \in SUBSET Tasks, hot \in Models : at = <<rest, hot>>
    BY DEF PlanStates
  <2>. DEFINE g == group[<<rest, hot>>]
  <2>2. g \in Group /\ g.tasks # <<>> /\ GroupOf(dep, route, g.model, rest, g.tasks) /\ after[at] \in Models
    BY <1>1, <2>1 DEF Plannable
  <2>3. g.tasks \in Seq(Tasks)
    BY <2>2, GroupParts
  <2>4. Elements(g.tasks) # {} /\ Elements(g.tasks) \in SUBSET rest
    BY <2>2, <2>3, ElementsOfSome DEF GroupOf
  <2>5. next[at] = <<rest \ Elements(g.tasks), after[at]>>
    BY <2>1
  <2>. HIDE DEF g, next
  <2> QED
    BY <2>1, <2>2, <2>4, <2>5 DEF PlanStates
<1>2. Descends(PlanStates, w, Cardinality(Tasks) + 1, stop, next)
  <2>1. stop \subseteq PlanStates
    OBVIOUS
  <2>. HIDE DEF stop, next
  <2> QED
    BY <1>1, <2>1, PlanStatesDescend
<1>3. PICK f : Unrolled(f, PlanStates, stop, part, FALSE, next)
  <2>. HIDE DEF stop, part, next, w
  <2> QED
    BY <1>2, Unrolls
<1>4. Planned(f, dep, group, after)
  BY <1>3 DEF Unrolled, Joined, Planned
<1>5. f = [at \in PlanStates |-> f[at]]
  BY <1>3 DEF Unrolled
<1> QED
  BY <1>4, <1>5

(* What is hot after a group is a text model.                              *)
LEMMA HotAfterModel == \A m \in Models : HotAfter(m) \in Models \ Transactional
BY PlanModelsAssumption DEF HotAfter

(* The group autorouting.py plans next.                                    *)
NextGroup(dep, route, at) ==
  LET m == NextModel(dep, route, at[2], at[1])
  IN [model |-> m, tasks |-> Residency(dep, route, m, at[1]), switch |-> m # at[2]]

PlanStep(f, dep, route, at) ==
  IF Ready(dep, at[1]) = {} THEN <<>>
  ELSE <<NextGroup(dep, route, at)>>
         \o f[<<at[1] \ Elements(NextGroup(dep, route, at).tasks), HotAfter(NextGroup(dep, route, at).model)>>]

PlanFrom(dep, route) == CHOOSE f : f = [at \in PlanStates |-> PlanStep(f, dep, route, at)]

NextGroups(dep, route) == [at \in PlanStates |-> NextGroup(dep, route, at)]
HotsAfter(dep, route)  == [at \in PlanStates |-> HotAfter(NextGroup(dep, route, at).model)]

(* The group autorouting.py plans next can run.                            *)
LEMMA NextGroupRuns ==
  ASSUME NEW dep \in [Tasks -> SUBSET Tasks], NEW route \in Routes,
         NEW rest \in SUBSET Tasks, NEW hot \in Models, Ready(dep, rest) # {}
  PROVE  LET g == NextGroup(dep, route, <<rest, hot>>)
         IN /\ g \in Group /\ g.tasks # <<>> /\ GroupOf(dep, route, g.model, rest, g.tasks)
            /\ (g.switch <=> g.model # hot)
<1>. DEFINE m == NextModel(dep, route, hot, rest)
            s == Residency(dep, route, m, rest)
            g == NextGroup(dep, route, <<rest, hot>>)
<1>1. m \in ReadyModels(dep, route, rest)
  BY NextModelIsReady
<1>2. m \in Models /\ Now(dep, route, m, rest) # {}
  BY <1>1 DEF ReadyModels, Now, Ready, Routes
<1>3. GroupOf(dep, route, m, rest, s) /\ s # <<>>
  BY <1>2, ResidencyRuns
<1>4. g = [model |-> m, tasks |-> s, switch |-> m # hot]
  BY DEF NextGroup
<1>5. s \in Seq(Tasks)
  BY <1>3 DEF GroupOf
<1>. HIDE DEF m, s, g
<1>6. g.model = m /\ g.tasks = s /\ (g.switch <=> m # hot)
  BY <1>4
<1>7. g \in Group
  <2>1. (m # hot) \in BOOLEAN
    OBVIOUS
  <2> QED
    BY <1>2, <1>4, <1>5, <2>1 DEF Group
<1>8. /\ g \in Group /\ g.tasks # <<>> /\ GroupOf(dep, route, g.model, rest, g.tasks)
      /\ (g.switch <=> g.model # hot)
  BY <1>3, <1>6, <1>7
<1> QED
  BY <1>8 DEF g

(* So autorouting.py is such a planner.                                    *)
LEMMA PlanUnfolds ==
  ASSUME NEW dep \in [Tasks -> SUBSET Tasks], NEW route \in Routes
  PROVE  /\ Plannable(dep, route, NextGroups(dep, route), HotsAfter(dep, route))
         /\ Planned(PlanFrom(dep, route), dep, NextGroups(dep, route), HotsAfter(dep, route))
         /\ \A hot \in Models : Plan(dep, route, hot) = PlanFrom(dep, route)[<<Tasks, hot>>]
<1>. DEFINE group   == NextGroups(dep, route)
            after   == HotsAfter(dep, route)
            Step(f) == [at \in PlanStates |-> PlanStep(f, dep, route, at)]
            h       == PlanFrom(dep, route)
<1>1. Plannable(dep, route, group, after)
  <2>1. SUFFICES ASSUME NEW rest \in SUBSET Tasks, NEW hot \in Models, Ready(dep, rest) # {}
                 PROVE  /\ group[<<rest, hot>>] \in Group /\ after[<<rest, hot>>] \in Models
                        /\ group[<<rest, hot>>].tasks # <<>>
                        /\ GroupOf(dep, route, group[<<rest, hot>>].model, rest, group[<<rest, hot>>].tasks)
    BY DEF Plannable
  <2>. DEFINE g == NextGroup(dep, route, <<rest, hot>>)
  <2>2. g \in Group /\ g.tasks # <<>> /\ GroupOf(dep, route, g.model, rest, g.tasks)
    BY <2>1, NextGroupRuns
  <2>3. HotAfter(g.model) \in Models
    BY <2>2, GroupParts, HotAfterModel
  <2>4. group[<<rest, hot>>] = g /\ after[<<rest, hot>>] = HotAfter(g.model)
    BY DEF NextGroups, HotsAfter, PlanStates
  <2>. HIDE DEF g, group, after
  <2> QED
    BY <2>2, <2>3, <2>4
<1>2. PICK k : k = [at \in PlanStates |-> k[at]] /\ Planned(k, dep, group, after)
  <2>. HIDE DEF group, after
  <2> QED
    BY <1>1, PlansExist
<1>3. \A at \in PlanStates : k[at] = PlanStep(k, dep, route, at)
  BY <1>2 DEF Planned, PlanStep, NextGroups, HotsAfter
<1>4. k = Step(k)
  BY <1>2, <1>3
<1>5. h = Step(h)
  <2>1. h = CHOOSE f : f = Step(f)
    BY DEF PlanFrom
  <2>. HIDE DEF Step, h
  <2> QED
    BY <1>4, <2>1
<1>6. \A at \in PlanStates : Step(h)[at] = PlanStep(h, dep, route, at)
  OBVIOUS
<1>7. \A at \in PlanStates : h[at] = PlanStep(h, dep, route, at)
  <2>. HIDE DEF Step, h
  <2> QED
    BY <1>5, <1>6
<1>8. Planned(h, dep, group, after)
  <2>. HIDE DEF h
  <2> QED
    BY <1>7 DEF Planned, PlanStep, NextGroups, HotsAfter
<1>9. ASSUME NEW hot \in Models PROVE Plan(dep, route, hot) = h[<<Tasks, hot>>]
  BY DEF Plan, PlanFrom, PlanStep, NextGroup, PlanStates
<1> QED
  BY <1>1, <1>8, <1>9

(* The group routing_planner.py shows next.                                *)
PreviewGroup(dep, route, at) ==
  LET ready == ReadyModels(dep, route, at[1])
      m     == IF at[2] \in ready THEN at[2] ELSE Least(ready)
  IN [model |-> m, tasks |-> Batch(dep, route, m, at[1]), switch |-> m # at[2]]

PreviewStep(f, dep, route, at) ==
  IF Ready(dep, at[1]) = {} THEN <<>>
  ELSE <<PreviewGroup(dep, route, at)>>
         \o f[<<at[1] \ Elements(PreviewGroup(dep, route, at).tasks), PreviewGroup(dep, route, at).model>>]

PreviewFrom(dep, route) == CHOOSE f : f = [at \in PlanStates |-> PreviewStep(f, dep, route, at)]

PreviewGroups(dep, route)    == [at \in PlanStates |-> PreviewGroup(dep, route, at)]
HotsAfterPreview(dep, route) == [at \in PlanStates |-> PreviewGroup(dep, route, at).model]

(* The group routing_planner.py shows next can run.                        *)
LEMMA PreviewGroupRuns ==
  ASSUME NEW dep \in [Tasks -> SUBSET Tasks], NEW route \in Routes,
         NEW rest \in SUBSET Tasks, NEW hot \in Models, Ready(dep, rest) # {}
  PROVE  LET g == PreviewGroup(dep, route, <<rest, hot>>)
         IN g \in Group /\ g.tasks # <<>> /\ GroupOf(dep, route, g.model, rest, g.tasks)
<1>. DEFINE ready == ReadyModels(dep, route, rest)
            m == IF hot \in ready THEN hot ELSE Least(ready)
            s == Batch(dep, route, m, rest)
            g == PreviewGroup(dep, route, <<rest, hot>>)
<1>1. m \in ready
  <2>1. ready \in SUBSET Nat /\ ready # {}
    BY ReadyModelsAre
  <2>. HIDE DEF ready
  <2> QED
    BY <2>1, LeastIsLeast
<1>. HIDE DEF m
<1>2. m \in Models /\ Now(dep, route, m, rest) # {}
  BY <1>1 DEF ReadyModels, Now, Ready, Routes
<1>3. GroupOf(dep, route, m, rest, s) /\ s # <<>>
  BY <1>2, BatchRuns
<1>4. g = [model |-> m, tasks |-> s, switch |-> m # hot]
  BY DEF PreviewGroup, m
<1>5. s \in Seq(Tasks)
  BY <1>3 DEF GroupOf
<1>. HIDE DEF s, g
<1>6. g.model = m /\ g.tasks = s
  BY <1>4
<1>7. g \in Group
  <2>1. (m # hot) \in BOOLEAN
    OBVIOUS
  <2> QED
    BY <1>2, <1>4, <1>5, <2>1 DEF Group
<1>8. g \in Group /\ g.tasks # <<>> /\ GroupOf(dep, route, g.model, rest, g.tasks)
  BY <1>3, <1>6, <1>7
<1> QED
  BY <1>8 DEF g

(* So routing_planner.py is such a planner.                                *)
LEMMA PreviewUnfolds ==
  ASSUME NEW dep \in [Tasks -> SUBSET Tasks], NEW route \in Routes
  PROVE  /\ Plannable(dep, route, PreviewGroups(dep, route), HotsAfterPreview(dep, route))
         /\ Planned(PreviewFrom(dep, route), dep, PreviewGroups(dep, route), HotsAfterPreview(dep, route))
         /\ \A hot \in Models : Preview(dep, route, hot) = PreviewFrom(dep, route)[<<Tasks, hot>>]
<1>. DEFINE group   == PreviewGroups(dep, route)
            after   == HotsAfterPreview(dep, route)
            Step(f) == [at \in PlanStates |-> PreviewStep(f, dep, route, at)]
            h       == PreviewFrom(dep, route)
<1>1. Plannable(dep, route, group, after)
  <2>1. SUFFICES ASSUME NEW rest \in SUBSET Tasks, NEW hot \in Models, Ready(dep, rest) # {}
                 PROVE  /\ group[<<rest, hot>>] \in Group /\ after[<<rest, hot>>] \in Models
                        /\ group[<<rest, hot>>].tasks # <<>>
                        /\ GroupOf(dep, route, group[<<rest, hot>>].model, rest, group[<<rest, hot>>].tasks)
    BY DEF Plannable
  <2>. DEFINE g == PreviewGroup(dep, route, <<rest, hot>>)
  <2>2. g \in Group /\ g.tasks # <<>> /\ GroupOf(dep, route, g.model, rest, g.tasks)
    BY <2>1, PreviewGroupRuns
  <2>3. g.model \in Models
    BY <2>2, GroupParts
  <2>4. group[<<rest, hot>>] = g /\ after[<<rest, hot>>] = g.model
    BY DEF PreviewGroups, HotsAfterPreview, PlanStates
  <2>. HIDE DEF g, group, after
  <2> QED
    BY <2>2, <2>3, <2>4
<1>2. PICK k : k = [at \in PlanStates |-> k[at]] /\ Planned(k, dep, group, after)
  <2>. HIDE DEF group, after
  <2> QED
    BY <1>1, PlansExist
<1>3. \A at \in PlanStates : k[at] = PreviewStep(k, dep, route, at)
  BY <1>2 DEF Planned, PreviewStep, PreviewGroups, HotsAfterPreview
<1>4. k = Step(k)
  BY <1>2, <1>3
<1>5. h = Step(h)
  <2>1. h = CHOOSE f : f = Step(f)
    BY DEF PreviewFrom
  <2>. HIDE DEF Step, h
  <2> QED
    BY <1>4, <2>1
<1>6. \A at \in PlanStates : Step(h)[at] = PreviewStep(h, dep, route, at)
  OBVIOUS
<1>7. \A at \in PlanStates : h[at] = PreviewStep(h, dep, route, at)
  <2>. HIDE DEF Step, h
  <2> QED
    BY <1>5, <1>6
<1>8. Planned(h, dep, group, after)
  <2>. HIDE DEF h
  <2> QED
    BY <1>7 DEF Planned, PreviewStep, PreviewGroups, HotsAfterPreview
<1>9. ASSUME NEW hot \in Models PROVE Preview(dep, route, hot) = h[<<Tasks, hot>>]
  BY DEF Preview, PreviewFrom, PreviewStep, PreviewGroup, PlanStates
<1> QED
  BY <1>1, <1>8, <1>9

(* A group that counts its switch, before a plan that counts its own.      *)
LEMMA SwitchesOfGroup ==
  ASSUME NEW g \in Group, NEW p \in Seq(Group), NEW hot, g.switch <=> g.model # hot,
         CountsSwitches(p, HotAfter(g.model))
  PROVE  CountsSwitches(<<g>> \o p, hot)
<1>. DEFINE plan == <<g>> \o p
<1>1. /\ DOMAIN p = 1 .. Len(p) /\ Len(p) \in Nat /\ DOMAIN plan = 1 .. Len(p) + 1 /\ plan[1] = g
      /\ \A i \in DOMAIN plan : i # 1 => i - 1 \in DOMAIN p /\ plan[i] = p[i - 1]
  OBVIOUS
<1>. HIDE DEF plan
<1>2. ASSUME NEW i \in DOMAIN plan PROVE plan[i].switch <=> plan[i].model # LoadedBefore(plan, hot, i)
  <2>1. CASE i = 1
    BY <1>1, <2>1 DEF LoadedBefore
  <2>2. CASE i = 2
    <3>1. 1 \in DOMAIN p /\ plan[2] = p[1] /\ plan[1] = g
      BY <1>1, <2>2
    <3>2. p[1].switch <=> p[1].model # HotAfter(g.model)
      BY <3>1 DEF CountsSwitches, LoadedBefore
    <3>3. LoadedBefore(plan, hot, i) = HotAfter(g.model)
      <4>1. 2 - 1 = 1 /\ 2 # 1
        OBVIOUS
      <4> QED
        BY <2>2, <3>1, <4>1 DEF LoadedBefore
    <3> QED
      BY <2>2, <3>1, <3>2, <3>3
  <2>3. CASE i # 1 /\ i # 2
    <3>. PICK k : k = i - 1
      OBVIOUS
    <3>1. k \in DOMAIN p /\ plan[i] = p[k] /\ k # 1 /\ k - 1 \in DOMAIN p /\ plan[k] = p[k - 1]
      BY <1>1, <2>3
    <3>2. p[k].switch <=> p[k].model # HotAfter(p[k - 1].model)
      BY <3>1 DEF CountsSwitches, LoadedBefore
    <3>3. LoadedBefore(plan, hot, i) = HotAfter(plan[k].model)
      BY <2>3 DEF LoadedBefore
    <3> QED
      BY <3>1, <3>2, <3>3
  <2> QED
    BY <2>1, <2>2, <2>3
<1> QED
  BY <1>2 DEF CountsSwitches, plan

(* The plans of autorouting.py count their switches.                       *)
LEMMA PlanCountsSwitches ==
  ASSUME NEW dep \in [Tasks -> SUBSET Tasks], NEW route \in Routes
  PROVE  \A rest \in SUBSET Tasks, hot \in Models : CountsSwitches(PlanFrom(dep, route)[<<rest, hot>>], hot)
<1>. DEFINE f        == PlanFrom(dep, route)
            OK(rest) == \A hot \in Models : CountsSwitches(f[<<rest, hot>>], hot)
            Bad      == {rest \in SUBSET Tasks : ~OK(rest)}
<1>1. ASSUME NEW rest \in Bad PROVE \E q \in Bad : Size[q] < Size[rest]
  <2>1. PICK hot \in Models : ~CountsSwitches(f[<<rest, hot>>], hot)
    OBVIOUS
  <2>. DEFINE g == NextGroup(dep, route, <<rest, hot>>)
              q == rest \ Elements(g.tasks)
              p == f[<<q, HotAfter(g.model)>>]
  <2>2. f[<<rest, hot>>] = IF Ready(dep, rest) = {} THEN <<>> ELSE <<g>> \o p
    <3>1. Planned(f, dep, NextGroups(dep, route), HotsAfter(dep, route))
      BY PlanUnfolds
    <3>2. <<rest, hot>> \in PlanStates /\ <<rest, hot>>[1] = rest
      BY DEF PlanStates
    <3>3. NextGroups(dep, route)[<<rest, hot>>] = g /\ HotsAfter(dep, route)[<<rest, hot>>] = HotAfter(g.model)
      BY <3>2 DEF NextGroups, HotsAfter
    <3>. HIDE DEF f, g
    <3> QED
      BY <3>1, <3>2, <3>3 DEF Planned
  <2>3. Ready(dep, rest) # {}
    <3>1. CountsSwitches(<<>>, hot)
      BY DEF CountsSwitches
    <3> QED
      BY <2>1, <2>2, <3>1
  <2>4. /\ g \in Group /\ g.tasks # <<>> /\ GroupOf(dep, route, g.model, rest, g.tasks)
        /\ (g.switch <=> g.model # hot)
    BY <2>3, NextGroupRuns
  <2>5. HotAfter(g.model) \in Models /\ q \in SUBSET Tasks
    BY <2>4, GroupParts, HotAfterModel
  <2>6. p \in Seq(Group)
    <3>1. PlanOf(dep, route, q, p)
      <4>. HIDE DEF g, q
      <4> QED
        BY <2>5, PlanUnfolds, PlannersPlan
    <3> QED
      BY <3>1 DEF PlanOf
  <2>7. ~CountsSwitches(p, HotAfter(g.model))
    <3>. HIDE DEF f, g, p
    <3> QED
      BY <2>1, <2>2, <2>3, <2>4, <2>6, SwitchesOfGroup
  <2>8. q \in Bad
    BY <2>5, <2>7
  <2>9. g.tasks \in Seq(Tasks) /\ Elements(g.tasks) \in SUBSET rest
    BY <2>4, GroupParts DEF GroupOf
  <2>10. Elements(g.tasks) # {}
    BY <2>4, <2>9, ElementsOfSome
  <2>11. Cardinality(q) < Cardinality(rest)
    BY <2>9, <2>10, TasksShrink
  <2> QED
    BY <2>8, <2>11 DEF Size
<1>2. Bad = {}
  <2>1. Bad \subseteq SUBSET Tasks
    OBVIOUS
  <2>. HIDE DEF Bad
  <2> QED
    BY <1>1, <2>1, SizeIsBounded, Descent
<1> QED
  BY <1>2

(* Tasks that wait for each other are run by no plan.                      *)
LEMMA CyclesNeverRun ==
  ASSUME NEW dep, NEW order \in Seq(Tasks), InOrder(dep, {}, order),
         NEW S \in SUBSET Tasks, \A t \in S : dep[t] \cap S # {}
  PROVE  Elements(order) \cap S = {}
<1>. DEFINE Bad == {i \in DOMAIN order : order[i] \in S}
<1>1. DOMAIN order \subseteq Nat
  OBVIOUS
<1>2. ASSUME NEW i \in Bad PROVE \E k \in Bad : k < i
  <2>1. PICK d \in dep[order[i]] : d \in S
    BY <1>2
  <2>2. PICK j \in 1 .. i - 1 : d = order[j]
    BY <2>1 DEF InOrder
  <2>3. j \in DOMAIN order /\ j < i
    BY <2>2
  <2> QED
    BY <2>1, <2>2, <2>3
<1>3. Bad = {}
  <2>1. Bad \in SUBSET Nat
    BY <1>1
  <2>. HIDE DEF Bad
  <2> QED
    BY <1>2, <2>1, NatDescent
<1> QED
  BY <1>3 DEF Elements

(* A plan is refused exactly if tasks wait for each other.                 *)
LEMMA RefusedIfCyclic ==
  ASSUME NEW dep \in [Tasks -> SUBSET Tasks], NEW route, NEW plan, PlanOf(dep, route, Tasks, plan)
  PROVE  /\ Refused(plan) <=> ~Acyclic(dep)
         /\ Acyclic(dep) => Runs(dep, route, plan)
<1>. DEFINE order == Order(plan)
            unrun  == Tasks \ Elements(order)
<1>1. order \in Seq(Tasks) /\ plan \in Seq(Group)
  BY OrderOfTasks DEF PlanOf
<1>2. /\ Elements(order) \subseteq Tasks /\ Distinct(order) /\ InOrder(dep, Tasks \ Tasks, order)
      /\ Ready(dep, unrun) = {}
  BY DEF PlanOf
<1>3. InOrder(dep, {}, order)
  <2>1. Tasks \ Tasks = {}
    OBVIOUS
  <2> QED
    BY <1>2, <2>1
<1>. HIDE DEF order
<1>4. ASSUME Acyclic(dep) PROVE Elements(order) = Tasks
  <2>1. \A t \in unrun : dep[t] \cap unrun # {}
    BY <1>2 DEF Ready
  <2>2. unrun = {}
    BY <1>4, <2>1 DEF Acyclic
  <2> QED
    BY <1>2, <2>2
<1>5. ASSUME ~Acyclic(dep) PROVE Elements(order) # Tasks
  <2>1. PICK S \in (SUBSET Tasks) \ {{}} : \A t \in S : dep[t] \cap S # {}
    BY <1>5 DEF Acyclic
  <2>2. Elements(order) \cap S = {}
    BY <1>1, <1>3, <2>1, CyclesNeverRun
  <2> QED
    BY <2>1, <2>2
<1>6. ASSUME Acyclic(dep) PROVE Runs(dep, route, plan)
  <2>. DEFINE at(t) == CHOOSE i \in DOMAIN order : order[i] = t
  <2>1. Len(order) = Cardinality(Tasks) /\ Elements(order) = Tasks
    BY <1>1, <1>2, <1>4, <1>6, DistinctTasks
  <2>2. \A t \in Tasks : at(t) \in DOMAIN order /\ order[at(t)] = t
    BY <2>1 DEF Elements
  <2>3. ASSUME NEW t \in Tasks, NEW d \in dep[t] PROVE at(d) < at(t)
    <3>1. d \in Tasks /\ at(t) \in DOMAIN order /\ order[at(t)] = t /\ at(d) \in DOMAIN order /\ order[at(d)] = d
      BY <2>2
    <3>. HIDE DEF at
    <3>2. PICK j \in 1 .. at(t) - 1 : d = order[j]
      BY <1>3, <2>3, <3>1 DEF InOrder
    <3>3. j \in DOMAIN order /\ j < at(t)
      BY <1>1, <3>1, <3>2
    <3>4. at(d) = j
      BY <1>2, <3>1, <3>2, <3>3 DEF Distinct
    <3> QED
      BY <3>3, <3>4
  <2>4. /\ \A i \in DOMAIN plan : plan[i].tasks # <<>>
        /\ \A i \in DOMAIN plan : \A t \in Elements(plan[i].tasks) : route[t] = plan[i].model
    BY DEF PlanOf, OfTheirModels
  <2> QED
    BY <2>1, <2>3, <2>4 DEF Runs, order
<1> QED
  BY <1>4, <1>5, <1>6 DEF Refused, order

(* What both planners make of all tasks.                                   *)
LEMMA PlanIsPlan ==
  ASSUME NEW dep \in [Tasks -> SUBSET Tasks], NEW route \in Routes, NEW hot \in Models
  PROVE  /\ PlanOf(dep, route, Tasks, Plan(dep, route, hot))
         /\ PlanOf(dep, route, Tasks, Preview(dep, route, hot))
         /\ CountsSwitches(Plan(dep, route, hot), hot)
<1>1. Tasks \in SUBSET Tasks
  OBVIOUS
<1>2. PlanOf(dep, route, Tasks, PlanFrom(dep, route)[<<Tasks, hot>>])
  BY <1>1, PlanUnfolds, PlannersPlan
<1>3. PlanOf(dep, route, Tasks, PreviewFrom(dep, route)[<<Tasks, hot>>])
  BY <1>1, PreviewUnfolds, PlannersPlan
<1>4. CountsSwitches(PlanFrom(dep, route)[<<Tasks, hot>>], hot)
  BY <1>1, PlanCountsSwitches
<1> QED
  BY <1>2, <1>3, <1>4, PlanUnfolds, PreviewUnfolds

(* Both planners, for any tasks, dependencies, routes and active model: a  *)
(* plan is refused exactly if tasks wait for each other; otherwise it runs *)
(* each task once, after all it depends on, in a group of its model, and   *)
(* counts the switches this takes.                                         *)
THEOREM PlannersAreSound ==
  ASSUME NEW dep \in CleanTasks, NEW route \in Routes, NEW hot \in Models
  PROVE  /\ Refused(Plan(dep, route, hot)) <=> ~Acyclic(dep)
         /\ Refused(Preview(dep, route, hot)) <=> ~Acyclic(dep)
         /\ Acyclic(dep) => /\ Runs(dep, route, Plan(dep, route, hot))
                            /\ Runs(dep, route, Preview(dep, route, hot))
                            /\ CountsSwitches(Plan(dep, route, hot), hot)
<1>1. dep \in [Tasks -> SUBSET Tasks]
  BY DEF CleanTasks
<1> QED
  BY <1>1, PlanIsPlan, RefusedIfCyclic

-----------------------------------------------------------------------------
(* The executor.                                                           *)

(* The executor has begun with the first group that is left.               *)
InGroup ==
  \/ pc \in {"switch", "task", "polling", "release", "releaseFailed"}
  \/ pc = "status" /\ goal = "switch"

(* The tasks that have yet to run.                                         *)
Ahead == IF InGroup THEN doing \o Order(Tail(left)) ELSE Order(left)

(* No more tasks will run.                                                 *)
Ended == pc \in {"abort", "over"} \/ goal = "abort"

PlanTypes == left \in Seq(Group) /\ doing \in Seq(Tasks)

(* How the executor gets to where it is.                                   *)
Ways ==
  /\ outcome # "none" => pc = "over"
  /\ goal # "none" => pc \in {"status", "restore", "abort", "over"}
  /\ pc = "status" => goal # "none"
  /\ pc = "repair" => current # None
  /\ pc = "restore" => goal \in {"settle", "end"}
  /\ goal = "abort" => pc \in {"status", "over"}
  /\ goal = "end" => left = <<>>
  /\ gaveUp => Ended

(* The group the executor is in.                                           *)
GroupAtHand ==
  /\ InGroup => left # <<>> /\ \A t \in Elements(doing) : model[t] = left[1].model
  /\ pc = "switch" \/ (pc = "status" /\ goal = "switch") => left[1].model \in TextModels
  /\ pc \in {"polling", "release", "releaseFailed"} => doing # <<>> /\ model[doing[1]] = Image
  /\ OfTheirModels(model, left)

(* What has run, and what has yet to.                                      *)
WorkRemains ==
  /\ ~Ended => InOrder(deps, done, Ahead)
  /\ ~Ended /\ pc # "plan" => Tasks \subseteq done \cup Elements(Ahead)
  /\ ResultsInOrder

JobReleased == graphics = "busy" /\ ~gaveUp => pc \in {"polling", "releaseFailed"}

(* What the executor knows of the GPU if no one disturbs it.               *)
GpuKnown ==
  /\ ~disturbed =>
       /\ pc = "group" => SingleHealthy(current)
       /\ pc = "task" /\ left[1].model \in TextModels => SingleHealthy(left[1].model)
       /\ pc = "settle" => current = Default
       /\ pc = "switch" => graphics = "cold"
  /\ GpuAsReported

Calm == ~disturbed /\ ~gaveUp /\ default = Default

(* Without a failure nothing is out of order.                              *)
NoFailureYet ==
  failures = 0 /\ Calm =>
    /\ pc \notin {"repair", "abort", "releaseFailed"}
    /\ pc \in {"plan", "slot", "start"} => SingleHealthy(active)
    /\ pc = "task" => graphics = "cold"
    /\ pc = "polling" => graphics # "cold"
    /\ pc = "status" => /\ goal \in {"switch", "settle", "end"}
                        /\ SingleHealthy(IF goal = "switch" THEN left[1].model ELSE Default)

(* One failure is followed by a restore that succeeds.                     *)
OneFailure ==
  /\ failures <= 1 /\ Calm /\ pc = "status" /\ goal = "abort" => failures = 1 /\ SingleHealthy(Default)
  /\ OneFailureRecovered

PlanAsMade == pc = "plan" /\ ~disturbed => left = Plan(deps, model, active)

IInv ==
  /\ TypeOK /\ PlanTypes /\ Ways /\ GroupAtHand /\ WorkRemains /\ JobReleased
  /\ GpuKnown /\ NoFailureYet /\ OneFailure /\ PlanAsMade

-----------------------------------------------------------------------------
(* What the constants are.                                                 *)
LEMMA Constants ==
  /\ Default \in TextModels /\ Image \in Transactional /\ None \notin Models
  /\ MaxFailures \in Nat /\ MaxFailures >= 1
  /\ \A m \in Models : HotAfter(m) \in TextModels
  /\ \A m \in TextModels : HotAfter(m) = m
  /\ \A m \in Transactional : HotAfter(m) = Default
BY PlanModelsAssumption, WorkflowAssumption DEF TextModels, HotAfter

(* Some tasks, then others.                                                *)
Both(s, u) == s \o u

(* The first of some tasks can run, and the others after it.               *)
LEMMA FirstRuns ==
  ASSUME NEW dep, NEW before, NEW s \in Seq(Tasks), s # <<>>, NEW u \in Seq(Tasks),
         InOrder(dep, before, Both(s, u))
  PROVE  /\ dep[s[1]] \subseteq before
         /\ InOrder(dep, before \cup {s[1]}, Both(Tail(s), u))
         /\ \A t \in Elements(Both(s, u)) : t = s[1] \/ t \in Elements(Both(Tail(s), u))
<1>. DEFINE v == s \o u
            r == Tail(s) \o u
<1>1. /\ DOMAIN v = 1 .. Len(r) + 1 /\ DOMAIN r = 1 .. Len(r) /\ Len(r) \in Nat
      /\ v[1] = s[1] /\ \A i \in DOMAIN r : v[i + 1] = r[i]
  OBVIOUS
<1>2. InOrder(dep, before, v)
  BY DEF Both
<1>. HIDE DEF v, r
<1>3. dep[v[1]] \subseteq before
  <2>1. 1 \in DOMAIN v /\ 1 .. 1 - 1 = {}
    BY <1>1
  <2> QED
    BY <1>2, <2>1 DEF InOrder
<1>4. ASSUME NEW i \in DOMAIN r, NEW d \in dep[r[i]], d \notin before, d # s[1]
      PROVE  \E j \in 1 .. i - 1 : d = r[j]
  <2>. PICK k : k = i + 1
    OBVIOUS
  <2>1. k \in DOMAIN v /\ v[k] = r[i] /\ k - 1 = i
    BY <1>1
  <2>2. PICK j \in 1 .. k - 1 : d = v[j]
    BY <1>2, <1>4, <2>1 DEF InOrder
  <2>3. j # 1
    BY <1>1, <1>4, <2>2
  <2>. PICK l : l = j - 1
    OBVIOUS
  <2>4. l \in DOMAIN r /\ l \in 1 .. i - 1 /\ j = l + 1
    BY <1>1, <2>1, <2>2, <2>3
  <2>5. d = r[l]
    BY <1>1, <2>2, <2>4
  <2> QED
    BY <2>4, <2>5
<1>5. InOrder(dep, before \cup {s[1]}, r)
  BY <1>4 DEF InOrder
<1>6. \A t \in Elements(v) : t = s[1] \/ t \in Elements(r)
  <2>1. ASSUME NEW i \in DOMAIN v PROVE v[i] = s[1] \/ v[i] \in Elements(r)
    <3>1. CASE i = 1
      BY <1>1, <3>1
    <3>2. CASE i # 1
      <4>. PICK l : l = i - 1
        OBVIOUS
      <4>1. l \in DOMAIN r /\ i = l + 1
        BY <1>1, <3>2
      <4> QED
        BY <1>1, <4>1 DEF Elements
    <3> QED
      BY <3>1, <3>2
  <2> QED
    BY <2>1 DEF Elements
<1> QED
  BY <1>1, <1>3, <1>5, <1>6 DEF v, r, Both

(* The elements of a sequence of tasks.                                    *)
LEMMA TasksOf ==
  ASSUME NEW s \in Seq(Tasks)
  PROVE  /\ Elements(s) \subseteq Tasks
         /\ s # <<>> => /\ s[1] \in Elements(s) /\ Tail(s) \in Seq(Tasks)
                        /\ Elements(Tail(s)) \subseteq Elements(s)
<1>1. Elements(s) \subseteq Tasks
  BY DEF Elements
<1>2. ASSUME s # <<>> PROVE s[1] \in Elements(s) /\ Tail(s) \in Seq(Tasks)
  <2>1. 1 \in DOMAIN s
    BY <1>2
  <2> QED
    BY <1>2, <2>1 DEF Elements
<1>3. ASSUME s # <<>>, NEW i \in DOMAIN Tail(s) PROVE Tail(s)[i] \in Elements(s)
  <2>. PICK k : k = i + 1
    OBVIOUS
  <2>1. k \in DOMAIN s /\ Tail(s)[i] = s[k]
    BY <1>3
  <2> QED
    BY <2>1 DEF Elements
<1> QED
  BY <1>1, <1>2, <1>3 DEF Elements

(* A plan that is not empty: its first group, and the others.              *)
LEMMA OrderOfFirst ==
  ASSUME NEW p \in Seq(Group), p # <<>>
  PROVE  /\ p[1] \in Group /\ Tail(p) \in Seq(Group)
         /\ \A i \in DOMAIN Tail(p) : i + 1 \in DOMAIN p /\ Tail(p)[i] = p[i + 1]
         /\ Order(p) = p[1].tasks \o Order(Tail(p))
<1>1. p[1] \in Group /\ Tail(p) \in Seq(Group)
  OBVIOUS
<1>2. p = <<p[1]>> \o Tail(p)
  OBVIOUS
<1>3. Order(<<p[1]>> \o Tail(p)) = p[1].tasks \o Order(Tail(p))
  BY <1>1, OrderOfGroup
<1>4. \A i \in DOMAIN Tail(p) : i + 1 \in DOMAIN p /\ Tail(p)[i] = p[i + 1]
  OBVIOUS
<1> QED
  BY <1>1, <1>2, <1>3, <1>4
(* The group that is first, and the plan of the others.                    *)
LEMMA FirstGroup ==
  ASSUME PlanTypes, GroupAtHand, left # <<>>
  PROVE  /\ left[1].model \in Models /\ HotAfter(left[1].model) \in TextModels
         /\ left[1].tasks \in Seq(Tasks) /\ Elements(left[1].tasks) \subseteq Tasks
         /\ \A t \in Elements(left[1].tasks) : model[t] = left[1].model
         /\ Tail(left) \in Seq(Group) /\ OfTheirModels(model, Tail(left))
         /\ \A i \in DOMAIN Tail(left) : Tail(left)[i].model \in Models
<1>1. /\ left[1] \in Group /\ Tail(left) \in Seq(Group)
      /\ \A i \in DOMAIN Tail(left) : i + 1 \in DOMAIN left /\ Tail(left)[i] = left[i + 1]
  BY OrderOfFirst DEF PlanTypes
<1>2. 1 \in DOMAIN left
  BY DEF PlanTypes
<1>3. left[1].model \in Models /\ left[1].tasks \in Seq(Tasks)
  BY <1>1, GroupParts
<1>4. Elements(left[1].tasks) \subseteq Tasks
  BY <1>3, TasksOf
<1>5. \A t \in Elements(left[1].tasks) : model[t] = left[1].model
  BY <1>2 DEF OfTheirModels, GroupAtHand
<1>6. OfTheirModels(model, Tail(left))
  BY <1>1 DEF OfTheirModels, GroupAtHand
<1>7. \A i \in DOMAIN Tail(left) : Tail(left)[i].model \in Models
  <2>1. DOMAIN Tail(left) = 1 .. Len(Tail(left))
    BY <1>1
  <2> QED
    BY <1>1, <2>1, GroupsOfPlan
<1> QED
  BY <1>1, <1>3, <1>4, <1>5, <1>6, <1>7, Constants

(* What is ahead does not change with the place in the workflow.           *)
LEMMA WorkStays ==
  ASSUME WorkRemains, UNCHANGED <<deps, left, doing, done>>,
         Ended' \/ (~Ended /\ (InGroup' <=> InGroup) /\ (pc = "plan" => pc' = "plan")),
         outcome' # "ok" \/ outcome' = outcome
  PROVE  WorkRemains'
<1>1. ResultsInOrder'
  BY DEF WorkRemains, ResultsInOrder
<1>2. CASE Ended'
  BY <1>1, <1>2 DEF WorkRemains
<1>3. CASE ~Ended /\ (InGroup' <=> InGroup) /\ (pc = "plan" => pc' = "plan")
  <2>1. Ahead' = Ahead
    BY <1>3 DEF Ahead
  <2>2. InOrder(deps, done, Ahead)'
    BY <1>3, <2>1 DEF WorkRemains
  <2>3. pc' # "plan" => (Tasks \subseteq done \cup Elements(Ahead))'
    BY <1>3, <2>1 DEF WorkRemains
  <2> QED
    BY <1>1, <2>2, <2>3 DEF WorkRemains
<1> QED
  BY <1>2, <1>3

(* A task has run.                                                         *)
LEMMA WorkTaken ==
  ASSUME WorkRemains, PlanTypes, ~Ended, InGroup, left # <<>>, doing # <<>>, Done,
         UNCHANGED <<deps, left, goal, outcome>>, pc' = "task", outcome # "ok"
  PROVE  WorkRemains'
<1>. DEFINE rest == Order(Tail(left))
            t    == doing[1]
<1>1. doing \in Seq(Tasks) /\ rest \in Seq(Tasks)
  <2>1. left \in Seq(Group) /\ doing \in Seq(Tasks)
    BY DEF PlanTypes
  <2>2. Tail(left) \in Seq(Group)
    BY <2>1, OrderOfFirst
  <2> QED
    BY <2>1, <2>2, OrderOfTasks
<1>2. Ahead = doing \o rest /\ Ahead' = Tail(doing) \o rest
  BY DEF Ahead, InGroup, Done
<1>3. /\ InOrder(deps, done, doing \o rest) /\ Tasks \subseteq done \cup Elements(doing \o rest)
      /\ \A d \in done : deps[d] \subseteq done
  BY <1>2 DEF WorkRemains, ResultsInOrder, InGroup
<1>. HIDE DEF rest
<1>4. /\ deps[t] \subseteq done /\ InOrder(deps, done \cup {t}, Tail(doing) \o rest)
      /\ \A d \in Elements(doing \o rest) : d = t \/ d \in Elements(Tail(doing) \o rest)
  <2>1. InOrder(deps, done, Both(doing, rest))
    BY <1>3 DEF Both
  <2>2. /\ deps[doing[1]] \subseteq done
        /\ InOrder(deps, done \cup {doing[1]}, Both(Tail(doing), rest))
        /\ \A d \in Elements(Both(doing, rest)) : d = doing[1] \/ d \in Elements(Both(Tail(doing), rest))
    BY <1>1, <2>1, FirstRuns
  <2> QED
    BY <2>2 DEF Both
<1>5. done' = done \cup {t}
  BY DEF Done
<1>. HIDE DEF t
<1>6. (\A d \in done : deps[d] \subseteq done)'
  BY <1>3, <1>4, <1>5
<1>7. InOrder(deps, done, Ahead)'
  BY <1>2, <1>4, <1>5
<1>8. (Tasks \subseteq done \cup Elements(Ahead))'
  BY <1>2, <1>3, <1>4, <1>5
<1> QED
  BY <1>6, <1>7, <1>8 DEF WorkRemains, ResultsInOrder

(* Nothing is ahead.                                                       *)
LEMMA WorkDone ==
  ASSUME WorkRemains, ~Ended, ~InGroup, pc # "plan", left = <<>>, done \subseteq Tasks
  PROVE  done = Tasks
<1>1. Ahead = <<>>
  BY OrderOfNone DEF Ahead
<1>2. Elements(Ahead) = {}
  BY <1>1, Nothing
<1> QED
  BY <1>2 DEF WorkRemains

(* Every workflow begins like that.                                        *)
LEMMA InvInit ==
  ASSUME Init
  PROVE  IInv
<1>1. deps \in [Tasks -> SUBSET Tasks] /\ model \in Routes /\ active \in TextModels /\ active \in Models
  BY DEF Init, CleanTasks, TextModels
<1>2. PlanOf(deps, model, Tasks, left)
  BY <1>1, PlanIsPlan DEF Init
<1>3. left \in Seq(Group) /\ InOrder(deps, Tasks \ Tasks, Order(left)) /\ OfTheirModels(model, left)
  BY <1>2 DEF PlanOf
<1>4. PlanTypes
  BY <1>3, Nothing DEF PlanTypes, Init
<1>5. InOrder(deps, {}, Order(left))
  <2>1. Tasks \ Tasks = {}
    OBVIOUS
  <2> QED
    BY <1>3, <2>1
<1>6. TypeOK
  <2>1. \A i \in DOMAIN left : left[i].model \in Models
    <3>1. DOMAIN left = 1 .. Len(left)
      BY <1>3
    <3> QED
      BY <1>3, <3>1, GroupsOfPlan
  <2>2. Elements(doing) = {}
    BY Nothing DEF Init
  <2>3. up \subseteq TextModels /\ graphics \in {"cold", "warm", "busy"}
    BY <1>1 DEF Init
  <2>4. failures \in 0 .. MaxFailures
    BY Constants DEF Init
  <2> QED
    BY <1>1, <2>1, <2>2, <2>3, <2>4 DEF TypeOK, Init, Routes
<1>7. Ways
  BY DEF Ways, Init, Ended
<1>8. GroupAtHand
  BY <1>3 DEF GroupAtHand, Init, InGroup
<1>9. WorkRemains
  BY <1>5 DEF WorkRemains, ResultsInOrder, Init, Ahead, InGroup
<1>10. JobReleased /\ GpuKnown /\ NoFailureYet /\ OneFailure
  BY DEF Init, JobReleased, GpuKnown, GpuAsReported, NoFailureYet, OneFailure, OneFailureRecovered, SingleHealthy
<1>11. PlanAsMade
  BY DEF PlanAsMade, Init
<1> QED
  BY <1>4, <1>6, <1>7, <1>8, <1>9, <1>10, <1>11 DEF IInv

(* A task has run: what there is to do is still in order.                  *)
LEMMA TaskRuns ==
  ASSUME IInv, InGroup, pc \notin {"switch", "status"}, doing # <<>>, Done,
         UNCHANGED <<deps, model, left, goal, outcome>>, pc' = "task"
  PROVE  PlanTypes' /\ GroupAtHand' /\ WorkRemains' /\ Elements(doing') \subseteq Tasks /\ done' \subseteq Tasks
<1>. USE DEF IInv
<1>1. /\ doing[1] \in Elements(doing) /\ doing' \in Seq(Tasks)
      /\ Elements(doing') \subseteq Elements(doing) /\ Elements(doing) \subseteq Tasks
  BY TasksOf DEF PlanTypes, Done
<1>2. PlanTypes'
  BY <1>1 DEF PlanTypes
<1>3. GroupAtHand'
  BY <1>1 DEF GroupAtHand, InGroup
<1>4. WorkRemains'
  <2>1. left # <<>>
    BY DEF GroupAtHand
  <2>2. ~Ended /\ outcome # "ok"
    BY DEF Ended, Ways, InGroup
  <2> QED
    BY <2>1, <2>2, WorkTaken
<1>5. done' \subseteq Tasks
  BY <1>1 DEF Done, TypeOK
<1> QED
  BY <1>1, <1>2, <1>3, <1>4, <1>5

(* The plan is made, or refused.                                           *)
LEMMA PlansStep ==
  ASSUME IInv, Plans
  PROVE  IInv'
<1>. USE DEF IInv, Plans, Goes, Ends, input, world, book
<1>1. TypeOK'
  BY Constants DEF TypeOK
<1>2. PlanTypes'
  BY DEF PlanTypes
<1>3. Ways'
  BY DEF Ways, Ended
<1>4. GroupAtHand'
  BY DEF GroupAtHand, InGroup, Ways
<1>5. WorkRemains'
  <2>1. CASE Ended'
    BY <2>1 DEF WorkRemains, ResultsInOrder, Ended, Ways
  <2>2. CASE ~Ended'
    <3>1. ~Refused(left) /\ Ahead = Order(left) /\ Ahead' = Ahead
      BY <2>2 DEF Ahead, InGroup, Ended, Ways
    <3>2. (Tasks \subseteq done \cup Elements(Ahead))'
      BY <3>1 DEF Refused
    <3> QED
      BY <3>1, <3>2 DEF WorkRemains, ResultsInOrder, Ended, Ways
  <2> QED
    BY <2>1, <2>2
<1>6. JobReleased'
  BY DEF JobReleased, Ways, Ended
<1>7. GpuKnown'
  BY Constants DEF GpuKnown, GpuAsReported, SingleHealthy, TypeOK, Ways
<1>8. NoFailureYet'
  BY Constants DEF NoFailureYet, Calm, GpuKnown, SingleHealthy, TypeOK, Ways, JobReleased, Ended
<1>9. OneFailure'
  BY Constants DEF OneFailure, OneFailureRecovered, NoFailureYet, Calm, SingleHealthy, TypeOK, Ways, JobReleased, Ended
<1>10. PlanAsMade'
  BY DEF PlanAsMade, JobReleased, Ways, Ended
<1> QED
  BY <1>1, <1>2, <1>3, <1>4, <1>5, <1>6, <1>7, <1>8, <1>9, <1>10

(* The workflow lock is had, or is busy.                                   *)
LEMMA TakesSlotStep ==
  ASSUME IInv, TakesSlot
  PROVE  IInv'
<1>. USE DEF IInv, TakesSlot, Goes, Ends, input, world, book
<1>1. TypeOK'
  BY Constants DEF TypeOK
<1>2. PlanTypes'
  BY DEF PlanTypes
<1>3. Ways'
  BY DEF Ways, Ended
<1>4. GroupAtHand'
  BY DEF GroupAtHand, InGroup, Ways
<1>5. WorkRemains'
  BY WorkStays DEF Ways, InGroup, Ended
<1>6. JobReleased'
  BY DEF JobReleased, Ways, Ended
<1>7. GpuKnown'
  BY Constants DEF GpuKnown, GpuAsReported, SingleHealthy, TypeOK, Ways
<1>8. NoFailureYet'
  BY Constants DEF NoFailureYet, Calm, GpuKnown, SingleHealthy, TypeOK, Ways, JobReleased, Ended
<1>9. OneFailure'
  BY Constants DEF OneFailure, OneFailureRecovered, NoFailureYet, Calm, SingleHealthy, TypeOK, Ways, JobReleased, Ended
<1>10. PlanAsMade'
  BY DEF PlanAsMade, JobReleased, Ways, Ended
<1> QED
  BY <1>1, <1>2, <1>3, <1>4, <1>5, <1>6, <1>7, <1>8, <1>9, <1>10

(* The model that is active is taken for current, or is repaired.          *)
LEMMA StartsStep ==
  ASSUME IInv, Starts
  PROVE  IInv'
<1>. USE DEF IInv, Starts, SingleHealthy, Goes, Ends, input, world, book
<1>1. TypeOK'
  BY Constants DEF TypeOK
<1>2. PlanTypes'
  BY DEF PlanTypes
<1>3. Ways'
  BY Constants DEF Ways, Ended, TypeOK, TextModels
<1>4. GroupAtHand'
  BY DEF GroupAtHand, InGroup, Ways
<1>5. WorkRemains'
  BY WorkStays DEF Ways, InGroup, Ended
<1>6. JobReleased'
  BY DEF JobReleased, Ways, Ended
<1>7. GpuKnown'
  BY Constants DEF GpuKnown, GpuAsReported, SingleHealthy, TypeOK, Ways
<1>8. NoFailureYet'
  BY Constants DEF NoFailureYet, Calm, GpuKnown, SingleHealthy, TypeOK, Ways, JobReleased, Ended
<1>9. OneFailure'
  BY Constants DEF OneFailure, OneFailureRecovered, NoFailureYet, Calm, SingleHealthy, TypeOK, Ways, JobReleased, Ended
<1>10. PlanAsMade'
  BY DEF PlanAsMade, JobReleased, Ways, Ended
<1> QED
  BY <1>1, <1>2, <1>3, <1>4, <1>5, <1>6, <1>7, <1>8, <1>9, <1>10

(* The current model is loaded again.                                      *)
LEMMA RepairsStep ==
  ASSUME IInv, Repairs
  PROVE  IInv'
<1>. USE DEF IInv, Repairs, Switch, Loads, AnyModel, Fails, Goes, Ends, input, world, book
<1>1. TypeOK'
  <2>1. active' \in TextModels /\ up' \subseteq TextModels /\ graphics' \in {"cold", "warm", "busy"}
    BY DEF TypeOK, Ways
  <2>2. failures' \in 0 .. MaxFailures /\ disturbed' \in BOOLEAN /\ gaveUp' \in BOOLEAN
    BY Constants DEF TypeOK
  <2>3. /\ \A i \in DOMAIN left' : left'[i].model \in Models
        /\ Elements(doing') \subseteq Tasks /\ done' \subseteq Tasks /\ current' \in TextModels \cup {None}
    BY DEF TypeOK
  <2> QED
    BY <2>1, <2>2, <2>3 DEF TypeOK
<1>2. PlanTypes'
  BY DEF PlanTypes
<1>3. Ways'
  BY DEF Ways, Ended
<1>4. GroupAtHand'
  BY DEF GroupAtHand, InGroup, Ways
<1>5. WorkRemains'
  BY WorkStays DEF Ways, InGroup, Ended
<1>6. JobReleased'
  BY DEF JobReleased, Ways, Ended
<1>7. GpuKnown'
  BY Constants DEF GpuKnown, GpuAsReported, SingleHealthy, TypeOK, Ways
<1>8. NoFailureYet'
  BY Constants DEF NoFailureYet, Calm, GpuKnown, SingleHealthy, TypeOK, Ways, JobReleased, Ended
<1>9. OneFailure'
  BY Constants DEF OneFailure, OneFailureRecovered, NoFailureYet, Calm, SingleHealthy, TypeOK, Ways, JobReleased, Ended
<1>10. PlanAsMade'
  BY DEF PlanAsMade, JobReleased, Ways, Ended
<1> QED
  BY <1>1, <1>2, <1>3, <1>4, <1>5, <1>6, <1>7, <1>8, <1>9, <1>10

(* The next group begins, or the workflow comes to its end.                *)
LEMMA TakesGroupStep ==
  ASSUME IInv, TakesGroup
  PROVE  IInv'
<1>. USE DEF IInv, TakesGroup, Goes, Ends, input, world, book
<1>1. left # <<>> =>
      /\ left[1].model \in Models /\ HotAfter(left[1].model) \in TextModels
      /\ left[1].tasks \in Seq(Tasks) /\ Elements(left[1].tasks) \subseteq Tasks
      /\ \A t \in Elements(left[1].tasks) : model[t] = left[1].model
      /\ Tail(left) \in Seq(Group) /\ OfTheirModels(model, Tail(left))
      /\ \A i \in DOMAIN Tail(left) : Tail(left)[i].model \in Models
  BY FirstGroup
<1>2. TypeOK'
  <2>1. active' \in TextModels /\ up' \subseteq TextModels /\ graphics' \in {"cold", "warm", "busy"}
    BY DEF TypeOK
  <2>2. failures' \in 0 .. MaxFailures /\ disturbed' \in BOOLEAN /\ gaveUp' \in BOOLEAN
    BY DEF TypeOK
  <2>3. /\ \A i \in DOMAIN left' : left'[i].model \in Models
        /\ Elements(doing') \subseteq Tasks /\ done' \subseteq Tasks /\ current' \in TextModels \cup {None}
    BY <1>1, Nothing DEF TypeOK
  <2> QED
    BY <2>1, <2>2, <2>3 DEF TypeOK
<1>3. PlanTypes'
  BY <1>1, Nothing DEF PlanTypes
<1>4. Ways'
  BY DEF Ways, Ended
<1>5. GroupAtHand'
  BY <1>1 DEF GroupAtHand, InGroup, Ways, TextModels
<1>6. WorkRemains'
  <2>1. CASE left = <<>>
    <3>1. done = Tasks
      BY <2>1, WorkDone DEF InGroup, Ended, Ways, TypeOK
    <3>2. Ahead' = Ahead
      BY <2>1 DEF Ahead, InGroup, Ways
    <3>3. deps \in [Tasks -> SUBSET Tasks]
      BY DEF TypeOK
    <3> QED
      BY <3>1, <3>2, <3>3 DEF WorkRemains, ResultsInOrder, Ended, Ways
  <2>2. CASE left # <<>>
    <3>1. Ahead' = Ahead
      BY <2>2, OrderOfFirst DEF Ahead, InGroup, Ways, PlanTypes
    <3> QED
      BY <2>2, <3>1 DEF WorkRemains, ResultsInOrder, Ended, Ways
  <2> QED
    BY <2>1, <2>2
<1>7. JobReleased'
  BY DEF JobReleased, Ways, Ended
<1>8. GpuKnown'
  <2>1. CASE left = <<>>
    BY <2>1 DEF GpuKnown, GpuAsReported, SingleHealthy, Ways
  <2>2. CASE left # <<>>
    BY <1>1, <2>2 DEF GpuKnown, GpuAsReported, SingleHealthy, Ways, TextModels
  <2> QED
    BY <2>1, <2>2
<1>9. NoFailureYet'
  BY Constants DEF NoFailureYet, Calm, GpuKnown, SingleHealthy, TypeOK, Ways, JobReleased, Ended
<1>10. OneFailure'
  BY Constants DEF OneFailure, OneFailureRecovered, NoFailureYet, Calm, SingleHealthy, TypeOK, Ways, JobReleased, Ended
<1>11. PlanAsMade'
  BY DEF PlanAsMade, JobReleased, Ways, Ended
<1> QED
  BY <1>2, <1>3, <1>4, <1>5, <1>6, <1>7, <1>8, <1>9, <1>10, <1>11

(* The model of the group is loaded.                                       *)
LEMMA ChangesModelStep ==
  ASSUME IInv, ChangesModel
  PROVE  IInv'
<1>. USE DEF IInv, ChangesModel, Switch, Loads, AnyModel, Fails, Goes, Ends, input, world, book
<1>1. left # <<>> /\ left[1].model \in TextModels
  BY DEF GroupAtHand, InGroup
<1>2. TypeOK'
  <2>1. active' \in TextModels /\ up' \subseteq TextModels /\ graphics' \in {"cold", "warm", "busy"}
    BY Constants, <1>1 DEF TypeOK
  <2>2. failures' \in 0 .. MaxFailures /\ disturbed' \in BOOLEAN /\ gaveUp' \in BOOLEAN
    BY Constants DEF TypeOK
  <2>3. /\ \A i \in DOMAIN left' : left'[i].model \in Models
        /\ Elements(doing') \subseteq Tasks /\ done' \subseteq Tasks /\ current' \in TextModels \cup {None}
    BY DEF TypeOK
  <2> QED
    BY <2>1, <2>2, <2>3 DEF TypeOK
<1>3. PlanTypes'
  BY DEF PlanTypes
<1>4. Ways'
  BY DEF Ways, Ended
<1>5. GroupAtHand'
  BY DEF GroupAtHand, InGroup, Ways
<1>6. WorkRemains'
  BY WorkStays DEF Ways, InGroup, Ended
<1>7. JobReleased'
  BY DEF JobReleased, Ways, Ended
<1>8. GpuKnown'
  BY Constants DEF GpuKnown, GpuAsReported, SingleHealthy, TypeOK, Ways
<1>9. NoFailureYet'
  BY Constants DEF NoFailureYet, Calm, GpuKnown, SingleHealthy, TypeOK, Ways, JobReleased, Ended
<1>10. OneFailure'
  BY Constants DEF OneFailure, OneFailureRecovered, NoFailureYet, Calm, SingleHealthy, TypeOK, Ways, JobReleased, Ended
<1>11. PlanAsMade'
  BY DEF PlanAsMade, JobReleased, Ways, Ended
<1> QED
  BY <1>2, <1>3, <1>4, <1>5, <1>6, <1>7, <1>8, <1>9, <1>10, <1>11

(* A status confirms what was loaded, or does not.                         *)
LEMMA ReadsStatusStep ==
  ASSUME IInv, ReadsStatus
  PROVE  IInv'
<1>. USE DEF IInv, ReadsStatus, Confirms, Goes, Ends, input, world, book
<1>1. goal = "switch" => left # <<>> /\ left[1].model \in TextModels
  BY DEF GroupAtHand, InGroup
<1>2. TypeOK'
  <2>1. active' \in TextModels /\ up' \subseteq TextModels /\ graphics' \in {"cold", "warm", "busy"}
    BY DEF TypeOK
  <2>2. failures' \in 0 .. MaxFailures /\ disturbed' \in BOOLEAN /\ gaveUp' \in BOOLEAN
    BY DEF TypeOK
  <2>3. /\ \A i \in DOMAIN left' : left'[i].model \in Models
        /\ Elements(doing') \subseteq Tasks /\ done' \subseteq Tasks /\ current' \in TextModels \cup {None}
    BY Constants, <1>1 DEF TypeOK
  <2> QED
    BY <2>1, <2>2, <2>3 DEF TypeOK
<1>3. PlanTypes'
  BY DEF PlanTypes
<1>4. Ways'
  BY DEF Ways, Ended
<1>5. GroupAtHand'
  BY DEF GroupAtHand, InGroup, Ways
<1>6. WorkRemains'
  <2>1. CASE goal # "end"
    BY <2>1, WorkStays DEF Ways, InGroup, Ended
  <2>2. CASE goal = "end"
    <3>1. done = Tasks
      BY <2>2, WorkDone DEF InGroup, Ended, Ways, TypeOK
    <3>2. deps \in [Tasks -> SUBSET Tasks]
      BY DEF TypeOK
    <3> QED
      BY <2>2, <3>1, <3>2 DEF WorkRemains, ResultsInOrder, Ended
  <2> QED
    BY <2>1, <2>2
<1>7. JobReleased'
  BY DEF JobReleased, Ways, Ended
<1>8. GpuKnown'
  <2>1. CASE goal = "switch"
    BY <2>1, <1>1 DEF GpuKnown, GpuAsReported, SingleHealthy, Ways
  <2>2. CASE goal = "start"
    BY <2>2 DEF GpuKnown, GpuAsReported, SingleHealthy, Ways
  <2>3. CASE goal = "settle"
    BY <2>3 DEF GpuKnown, GpuAsReported, SingleHealthy, Ways
  <2>4. CASE goal = "end"
    <3>1. (outcome' = "ok" /\ SingleHealthy(Default)) \/ outcome' = "none"
      BY <2>4 DEF Ways, SingleHealthy
    <3>2. pc' \in {"over", "abort"} /\ (SingleHealthy(Default) => SingleHealthy(Default)')
      BY <2>4 DEF SingleHealthy
    <3> QED
      BY <3>1, <3>2 DEF GpuKnown, GpuAsReported
  <2>5. CASE goal = "abort"
    BY <2>5 DEF GpuKnown, GpuAsReported, SingleHealthy, Ways
  <2> QED
    BY <2>1, <2>2, <2>3, <2>4, <2>5 DEF Ways, TypeOK
<1>9. NoFailureYet'
  BY Constants DEF NoFailureYet, Calm, GpuKnown, SingleHealthy, TypeOK, Ways, JobReleased, Ended
<1>10. OneFailure'
  BY Constants DEF OneFailure, OneFailureRecovered, NoFailureYet, Calm, SingleHealthy, TypeOK, Ways, JobReleased, Ended
<1>11. PlanAsMade'
  BY DEF PlanAsMade, JobReleased, Ways, Ended
<1> QED
  BY <1>2, <1>3, <1>4, <1>5, <1>6, <1>7, <1>8, <1>9, <1>10, <1>11

(* A group has run.                                                        *)
LEMMA GroupEndsStep ==
  ASSUME IInv, GroupEnds
  PROVE  IInv'
<1>. USE DEF IInv, GroupEnds, Goes, Ends, input, world, book
<1>1. /\ left # <<>> /\ left[1].model \in Models /\ HotAfter(left[1].model) \in TextModels
      /\ Tail(left) \in Seq(Group) /\ OfTheirModels(model, Tail(left))
      /\ \A i \in DOMAIN Tail(left) : Tail(left)[i].model \in Models
  <2>1. left # <<>>
    BY DEF GroupAtHand, InGroup
  <2> QED
    BY <2>1, FirstGroup
<1>2. TypeOK'
  <2>1. active' \in TextModels /\ up' \subseteq TextModels /\ graphics' \in {"cold", "warm", "busy"}
    BY DEF TypeOK
  <2>2. failures' \in 0 .. MaxFailures /\ disturbed' \in BOOLEAN /\ gaveUp' \in BOOLEAN
    BY DEF TypeOK
  <2>3. /\ \A i \in DOMAIN left' : left'[i].model \in Models
        /\ Elements(doing') \subseteq Tasks /\ done' \subseteq Tasks /\ current' \in TextModels \cup {None}
    BY <1>1 DEF TypeOK
  <2> QED
    BY <2>1, <2>2, <2>3 DEF TypeOK
<1>3. PlanTypes'
  BY <1>1 DEF PlanTypes
<1>4. Ways'
  BY DEF Ways, Ended
<1>5. GroupAtHand'
  BY <1>1 DEF GroupAtHand, InGroup, Ways
<1>6. WorkRemains'
  <2>1. Ahead = <<>> \o Order(Tail(left)) /\ Ahead' = Order(Tail(left))
    BY DEF Ahead, InGroup, Ways
  <2>2. Order(Tail(left)) \in Seq(Tasks)
    BY <1>1, OrderOfTasks
  <2>3. <<>> \o Order(Tail(left)) = Order(Tail(left))
    BY <2>2, ConcatEmptySeq
  <2>4. Ahead' = Ahead
    BY <2>1, <2>3
  <2> QED
    BY <2>4 DEF WorkRemains, ResultsInOrder, Ended, Ways
<1>7. JobReleased'
  BY DEF JobReleased, Ways, Ended
<1>8. GpuKnown'
  BY <1>1, Constants DEF GpuKnown, GpuAsReported, SingleHealthy, Ways, TextModels
<1>9. NoFailureYet'
  BY Constants DEF NoFailureYet, Calm, GpuKnown, SingleHealthy, TypeOK, Ways, JobReleased, Ended
<1>10. OneFailure'
  BY Constants DEF OneFailure, OneFailureRecovered, NoFailureYet, Calm, SingleHealthy, TypeOK, Ways, JobReleased, Ended
<1>11. PlanAsMade'
  BY DEF PlanAsMade, JobReleased, Ways, Ended
<1> QED
  BY <1>2, <1>3, <1>4, <1>5, <1>6, <1>7, <1>8, <1>9, <1>10, <1>11

(* A completion is had, or its model is not up.                            *)
LEMMA RunsTextStep ==
  ASSUME IInv, RunsText
  PROVE  IInv'
<1>. USE DEF IInv, RunsText, AtTask, Done, Dropped, Goes, Ends, input, world, book
<1>1. /\ InGroup /\ pc \notin {"switch", "status"} /\ doing # <<>>
      /\ (Done /\ pc' = "task") \/ (Dropped /\ pc' = "abort")
      /\ UNCHANGED <<deps, model, left, goal>> /\ outcome' = outcome
      /\ model[doing[1]] = left[1].model
  BY TasksOf DEF InGroup, GroupAtHand, PlanTypes
<1>2. Done => PlanTypes' /\ GroupAtHand' /\ WorkRemains' /\ Elements(doing') \subseteq Tasks /\ done' \subseteq Tasks
  <2>. HIDE DEF Done, Dropped
  <2>. SUFFICES ASSUME Done
                PROVE PlanTypes' /\ GroupAtHand' /\ WorkRemains' /\ Elements(doing') \subseteq Tasks /\ done' \subseteq Tasks
    OBVIOUS
  <2>1. pc' = "task"
    BY <1>1 DEF Done, Dropped
  <2> QED
    BY <1>1, <2>1, TaskRuns
<1>3. TypeOK'
  <2>1. active' \in TextModels /\ up' \subseteq TextModels /\ graphics' \in {"cold", "warm", "busy"}
    BY Constants DEF TypeOK
  <2>2. failures' \in 0 .. MaxFailures /\ disturbed' \in BOOLEAN /\ gaveUp' \in BOOLEAN
    BY Constants DEF TypeOK
  <2>3. /\ \A i \in DOMAIN left' : left'[i].model \in Models
        /\ Elements(doing') \subseteq Tasks /\ done' \subseteq Tasks /\ current' \in TextModels \cup {None}
    BY <1>1, <1>2 DEF TypeOK
  <2> QED
    BY <2>1, <2>2, <2>3 DEF TypeOK
<1>4. PlanTypes'
  <2>1. CASE Done
    BY <1>2, <2>1
  <2>2. CASE Dropped /\ pc' = "abort"
    BY <1>1, <2>2 DEF PlanTypes, InGroup, Ways
  <2> QED
    BY <1>1, <2>1, <2>2
<1>5. Ways'
  BY DEF Ways, Ended
<1>6. GroupAtHand'
  <2>1. CASE Done
    BY <1>2, <2>1
  <2>2. CASE Dropped /\ pc' = "abort"
    BY <1>1, <2>2 DEF GroupAtHand, InGroup, Ways
  <2> QED
    BY <1>1, <2>1, <2>2
<1>7. WorkRemains'
  <2>1. CASE Done
    BY <1>2, <2>1
  <2>2. CASE Dropped /\ pc' = "abort"
    BY <2>2, WorkStays DEF Ways, InGroup, Ended
  <2> QED
    BY <1>1, <2>1, <2>2
<1>8. JobReleased'
  BY DEF JobReleased, Ways, Ended
<1>9. GpuKnown'
  BY Constants DEF GpuKnown, GpuAsReported, SingleHealthy, TypeOK, Ways
<1>10. NoFailureYet'
  BY <1>1, Constants DEF NoFailureYet, Calm, GpuKnown, SingleHealthy, TypeOK, Ways, JobReleased, Ended
<1>11. OneFailure'
  BY Constants DEF OneFailure, OneFailureRecovered, NoFailureYet, Calm, SingleHealthy, TypeOK, Ways, JobReleased, Ended
<1>12. PlanAsMade'
  BY DEF PlanAsMade, JobReleased, Ways, Ended
<1> QED
  BY <1>3, <1>4, <1>5, <1>6, <1>7, <1>8, <1>9, <1>10, <1>11, <1>12

(* An OCR runs, or fails.                                                  *)
LEMMA RunsOcrStep ==
  ASSUME IInv, RunsOcr
  PROVE  IInv'
<1>. USE DEF IInv, RunsOcr, AtTask, Switch, Loads, AnyModel, Fails, Done, Dropped, Goes, Ends, input, world, book
<1>1. /\ InGroup /\ pc \notin {"switch", "status"} /\ doing # <<>>
      /\ (Done /\ pc' = "task") \/ (Dropped /\ pc' = "abort")
      /\ UNCHANGED <<deps, model, left, goal>> /\ outcome' = outcome
      /\ model[doing[1]] = left[1].model
  BY TasksOf DEF InGroup, GroupAtHand, PlanTypes
<1>2. Done => PlanTypes' /\ GroupAtHand' /\ WorkRemains' /\ Elements(doing') \subseteq Tasks /\ done' \subseteq Tasks
  <2>. HIDE DEF Done, Dropped
  <2>. SUFFICES ASSUME Done
                PROVE PlanTypes' /\ GroupAtHand' /\ WorkRemains' /\ Elements(doing') \subseteq Tasks /\ done' \subseteq Tasks
    OBVIOUS
  <2>1. pc' = "task"
    BY <1>1 DEF Done, Dropped
  <2> QED
    BY <1>1, <2>1, TaskRuns
<1>3. TypeOK'
  <2>1. active' \in TextModels /\ up' \subseteq TextModels /\ graphics' \in {"cold", "warm", "busy"}
    BY Constants DEF TypeOK
  <2>2. failures' \in 0 .. MaxFailures /\ disturbed' \in BOOLEAN /\ gaveUp' \in BOOLEAN
    BY Constants DEF TypeOK
  <2>3. /\ \A i \in DOMAIN left' : left'[i].model \in Models
        /\ Elements(doing') \subseteq Tasks /\ done' \subseteq Tasks /\ current' \in TextModels \cup {None}
    BY <1>1, <1>2 DEF TypeOK
  <2> QED
    BY <2>1, <2>2, <2>3 DEF TypeOK
<1>4. PlanTypes'
  <2>1. CASE Done
    BY <1>2, <2>1
  <2>2. CASE Dropped /\ pc' = "abort"
    BY <1>1, <2>2 DEF PlanTypes, InGroup, Ways
  <2> QED
    BY <1>1, <2>1, <2>2
<1>5. Ways'
  BY DEF Ways, Ended
<1>6. GroupAtHand'
  <2>1. CASE Done
    BY <1>2, <2>1
  <2>2. CASE Dropped /\ pc' = "abort"
    BY <1>1, <2>2 DEF GroupAtHand, InGroup, Ways
  <2> QED
    BY <1>1, <2>1, <2>2
<1>7. WorkRemains'
  <2>1. CASE Done
    BY <1>2, <2>1
  <2>2. CASE Dropped /\ pc' = "abort"
    BY <2>2, WorkStays DEF Ways, InGroup, Ended
  <2> QED
    BY <1>1, <2>1, <2>2
<1>8. JobReleased'
  BY DEF JobReleased, Ways, Ended
<1>9. GpuKnown'
  BY <1>1, Constants DEF GpuKnown, GpuAsReported, SingleHealthy, TypeOK, Ways, TextModels
<1>10. NoFailureYet'
  BY Constants DEF NoFailureYet, Calm, GpuKnown, SingleHealthy, TypeOK, Ways, JobReleased, Ended
<1>11. OneFailure'
  BY Constants DEF OneFailure, OneFailureRecovered, NoFailureYet, Calm, SingleHealthy, TypeOK, Ways, JobReleased, Ended
<1>12. PlanAsMade'
  BY DEF PlanAsMade, JobReleased, Ways, Ended
<1> QED
  BY <1>3, <1>4, <1>5, <1>6, <1>7, <1>8, <1>9, <1>10, <1>11, <1>12

(* An image job is posted.                                                 *)
LEMMA PostsJobStep ==
  ASSUME IInv, PostsJob
  PROVE  IInv'
<1>. USE DEF IInv, PostsJob, AtTask, Fails, AfterLostPost, Goes, Ends, input, world, book
<1>1. TypeOK'
  BY Constants DEF TypeOK
<1>2. PlanTypes'
  BY DEF PlanTypes
<1>3. Ways'
  BY DEF Ways, Ended
<1>4. GroupAtHand'
  BY DEF GroupAtHand, InGroup, Ways
<1>5. WorkRemains'
  BY WorkStays DEF Ways, InGroup, Ended
<1>6. JobReleased'
  BY DEF JobReleased, Ways, Ended
<1>7. GpuKnown'
  BY Constants DEF GpuKnown, GpuAsReported, SingleHealthy, TypeOK, Ways
<1>8. NoFailureYet'
  BY Constants DEF NoFailureYet, Calm, GpuKnown, SingleHealthy, TypeOK, Ways, JobReleased, Ended
<1>9. OneFailure'
  BY Constants DEF OneFailure, OneFailureRecovered, NoFailureYet, Calm, SingleHealthy, TypeOK, Ways, JobReleased, Ended
<1>10. PlanAsMade'
  BY DEF PlanAsMade, JobReleased, Ways, Ended
<1> QED
  BY <1>1, <1>2, <1>3, <1>4, <1>5, <1>6, <1>7, <1>8, <1>9, <1>10

(* An image job is asked for.                                              *)
LEMMA PollsJobStep ==
  ASSUME IInv, PollsJob
  PROVE  IInv'
<1>. USE DEF IInv, PollsJob, Fails, Goes, Ends, input, world, book
<1>1. TypeOK'
  BY Constants DEF TypeOK
<1>2. PlanTypes'
  BY DEF PlanTypes
<1>3. Ways'
  BY DEF Ways, Ended
<1>4. GroupAtHand'
  BY DEF GroupAtHand, InGroup, Ways
<1>5. WorkRemains'
  BY WorkStays DEF Ways, InGroup, Ended
<1>6. JobReleased'
  BY DEF JobReleased, Ways, Ended
<1>7. GpuKnown'
  BY Constants DEF GpuKnown, GpuAsReported, SingleHealthy, TypeOK, Ways
<1>8. NoFailureYet'
  BY Constants DEF NoFailureYet, Calm, GpuKnown, SingleHealthy, TypeOK, Ways, JobReleased, Ended
<1>9. OneFailure'
  BY Constants DEF OneFailure, OneFailureRecovered, NoFailureYet, Calm, SingleHealthy, TypeOK, Ways, JobReleased, Ended
<1>10. PlanAsMade'
  BY DEF PlanAsMade, JobReleased, Ways, Ended
<1> QED
  BY <1>1, <1>2, <1>3, <1>4, <1>5, <1>6, <1>7, <1>8, <1>9, <1>10

(* Graphics are released, and their image is kept or not.                  *)
LEMMA ReleasesGraphicsStep ==
  ASSUME IInv, ReleasesGraphics
  PROVE  IInv'
<1>. USE DEF IInv, ReleasesGraphics, TextReturns, AnyModel, Fails, Done, Dropped, Goes, Ends, input, world, book
<1>1. /\ InGroup /\ pc \notin {"switch", "status"} /\ doing # <<>>
      /\ (Done /\ pc' = "task") \/ (Dropped /\ pc' = "abort")
      /\ UNCHANGED <<deps, model, left, goal>> /\ outcome' = outcome
      /\ model[doing[1]] = left[1].model
  BY TasksOf DEF InGroup, GroupAtHand, PlanTypes
<1>2. Done => PlanTypes' /\ GroupAtHand' /\ WorkRemains' /\ Elements(doing') \subseteq Tasks /\ done' \subseteq Tasks
  <2>. HIDE DEF Done, Dropped
  <2>. SUFFICES ASSUME Done
                PROVE PlanTypes' /\ GroupAtHand' /\ WorkRemains' /\ Elements(doing') \subseteq Tasks /\ done' \subseteq Tasks
    OBVIOUS
  <2>1. pc' = "task"
    BY <1>1 DEF Done, Dropped
  <2> QED
    BY <1>1, <2>1, TaskRuns
<1>3. TypeOK'
  <2>1. active' \in TextModels /\ up' \subseteq TextModels /\ graphics' \in {"cold", "warm", "busy"}
    BY Constants DEF TypeOK
  <2>2. failures' \in 0 .. MaxFailures /\ disturbed' \in BOOLEAN /\ gaveUp' \in BOOLEAN
    BY Constants DEF TypeOK
  <2>3. /\ \A i \in DOMAIN left' : left'[i].model \in Models
        /\ Elements(doing') \subseteq Tasks /\ done' \subseteq Tasks /\ current' \in TextModels \cup {None}
    BY <1>1, <1>2 DEF TypeOK
  <2> QED
    BY <2>1, <2>2, <2>3 DEF TypeOK
<1>4. PlanTypes'
  <2>1. CASE Done
    BY <1>2, <2>1
  <2>2. CASE Dropped /\ pc' = "abort"
    BY <1>1, <2>2 DEF PlanTypes, InGroup, Ways
  <2> QED
    BY <1>1, <2>1, <2>2
<1>5. Ways'
  BY DEF Ways, Ended
<1>6. GroupAtHand'
  <2>1. CASE Done
    BY <1>2, <2>1
  <2>2. CASE Dropped /\ pc' = "abort"
    BY <1>1, <2>2 DEF GroupAtHand, InGroup, Ways
  <2> QED
    BY <1>1, <2>1, <2>2
<1>7. WorkRemains'
  <2>1. CASE Done
    BY <1>2, <2>1
  <2>2. CASE Dropped /\ pc' = "abort"
    BY <2>2, WorkStays DEF Ways, InGroup, Ended
  <2> QED
    BY <1>1, <2>1, <2>2
<1>8. JobReleased'
  BY DEF JobReleased, Ways, Ended
<1>9. GpuKnown'
  BY <1>1, Constants DEF GpuKnown, GpuAsReported, SingleHealthy, TypeOK, Ways, TextModels, GroupAtHand
<1>10. NoFailureYet'
  BY Constants DEF NoFailureYet, Calm, GpuKnown, SingleHealthy, TypeOK, Ways, JobReleased, Ended
<1>11. OneFailure'
  BY Constants DEF OneFailure, OneFailureRecovered, NoFailureYet, Calm, SingleHealthy, TypeOK, Ways, JobReleased, Ended
<1>12. PlanAsMade'
  BY DEF PlanAsMade, JobReleased, Ways, Ended
<1> QED
  BY <1>3, <1>4, <1>5, <1>6, <1>7, <1>8, <1>9, <1>10, <1>11, <1>12

(* A release is given up.                                                  *)
LEMMA GivesUpReleaseStep ==
  ASSUME IInv, GivesUpRelease
  PROVE  IInv'
<1>. USE DEF IInv, GivesUpRelease, OutOfAttempts, Goes, Ends, input, world, book
<1>1. TypeOK'
  BY Constants DEF TypeOK
<1>2. PlanTypes'
  BY DEF PlanTypes
<1>3. Ways'
  BY DEF Ways, Ended
<1>4. GroupAtHand'
  BY DEF GroupAtHand, InGroup, Ways
<1>5. WorkRemains'
  BY WorkStays DEF Ways, InGroup, Ended
<1>6. JobReleased'
  BY DEF JobReleased, Ways, Ended
<1>7. GpuKnown'
  BY Constants DEF GpuKnown, GpuAsReported, SingleHealthy, TypeOK, Ways
<1>8. NoFailureYet'
  BY Constants DEF NoFailureYet, Calm, GpuKnown, SingleHealthy, TypeOK, Ways, JobReleased, Ended
<1>9. OneFailure'
  BY Constants DEF OneFailure, OneFailureRecovered, NoFailureYet, Calm, SingleHealthy, TypeOK, Ways, JobReleased, Ended
<1>10. PlanAsMade'
  BY DEF PlanAsMade, JobReleased, Ways, Ended
<1> QED
  BY <1>1, <1>2, <1>3, <1>4, <1>5, <1>6, <1>7, <1>8, <1>9, <1>10

(* The status after a transaction.                                         *)
LEMMA SettlesStep ==
  ASSUME IInv, Settles
  PROVE  IInv'
<1>. USE DEF IInv, Settles, Goes, Ends, input, world, book
<1>1. TypeOK'
  BY Constants DEF TypeOK
<1>2. PlanTypes'
  BY DEF PlanTypes
<1>3. Ways'
  BY DEF Ways, Ended
<1>4. GroupAtHand'
  BY DEF GroupAtHand, InGroup, Ways
<1>5. WorkRemains'
  BY WorkStays DEF Ways, InGroup, Ended
<1>6. JobReleased'
  BY DEF JobReleased, Ways, Ended
<1>7. GpuKnown'
  BY Constants DEF GpuKnown, GpuAsReported, SingleHealthy, TypeOK, Ways
<1>8. NoFailureYet'
  BY Constants DEF NoFailureYet, Calm, GpuKnown, SingleHealthy, TypeOK, Ways, JobReleased, Ended
<1>9. OneFailure'
  BY Constants DEF OneFailure, OneFailureRecovered, NoFailureYet, Calm, SingleHealthy, TypeOK, Ways, JobReleased, Ended
<1>10. PlanAsMade'
  BY DEF PlanAsMade, JobReleased, Ways, Ended
<1> QED
  BY <1>1, <1>2, <1>3, <1>4, <1>5, <1>6, <1>7, <1>8, <1>9, <1>10

(* The default model is restored at the end, or after a transaction.       *)
LEMMA RestoresStep ==
  ASSUME IInv, Restores
  PROVE  IInv'
<1>. USE DEF IInv, Restores, RestoreDefault, Loads, AnyModel, Fails, Goes, Ends, input, world, book
<1>1. TypeOK'
  BY Constants DEF TypeOK
<1>2. PlanTypes'
  BY DEF PlanTypes
<1>3. Ways'
  BY DEF Ways, Ended
<1>4. GroupAtHand'
  BY DEF GroupAtHand, InGroup, Ways
<1>5. WorkRemains'
  BY WorkStays DEF Ways, InGroup, Ended
<1>6. JobReleased'
  BY DEF JobReleased, Ways, Ended
<1>7. GpuKnown'
  BY Constants DEF GpuKnown, GpuAsReported, SingleHealthy, TypeOK, Ways
<1>8. NoFailureYet'
  BY Constants DEF NoFailureYet, Calm, GpuKnown, SingleHealthy, TypeOK, Ways, JobReleased, Ended
<1>9. OneFailure'
  BY Constants DEF OneFailure, OneFailureRecovered, NoFailureYet, Calm, SingleHealthy, TypeOK, Ways, JobReleased, Ended
<1>10. PlanAsMade'
  BY DEF PlanAsMade, JobReleased, Ways, Ended
<1> QED
  BY <1>1, <1>2, <1>3, <1>4, <1>5, <1>6, <1>7, <1>8, <1>9, <1>10

(* The default model is restored after a failure.                          *)
LEMMA AbortsStep ==
  ASSUME IInv, Aborts
  PROVE  IInv'
<1>. USE DEF IInv, Aborts, RestoreDefault, Loads, AnyModel, Fails, Goes, Ends, input, world, book
<1>1. TypeOK'
  BY Constants DEF TypeOK
<1>2. PlanTypes'
  BY DEF PlanTypes
<1>3. Ways'
  BY DEF Ways, Ended
<1>4. GroupAtHand'
  BY DEF GroupAtHand, InGroup, Ways
<1>5. WorkRemains'
  BY WorkStays DEF Ways, InGroup, Ended
<1>6. JobReleased'
  BY DEF JobReleased, Ways, Ended
<1>7. GpuKnown'
  BY Constants DEF GpuKnown, GpuAsReported, SingleHealthy, TypeOK, Ways
<1>8. NoFailureYet'
  BY Constants DEF NoFailureYet, Calm, GpuKnown, SingleHealthy, TypeOK, Ways, JobReleased, Ended
<1>9. OneFailure'
  BY Constants DEF OneFailure, OneFailureRecovered, NoFailureYet, Calm, SingleHealthy, TypeOK, Ways, JobReleased, Ended
<1>10. PlanAsMade'
  BY DEF PlanAsMade, JobReleased, Ways, Ended
<1> QED
  BY <1>1, <1>2, <1>3, <1>4, <1>5, <1>6, <1>7, <1>8, <1>9, <1>10

(* A call that only reads fails.                                           *)
LEMMA ReadFailsStep ==
  ASSUME IInv, ReadFails
  PROVE  IInv'
<1>. USE DEF IInv, ReadFails, CallFails, AtTask, Fails, Goes, Ends, input, world, book
<1>1. TypeOK'
  BY Constants DEF TypeOK
<1>2. PlanTypes'
  BY DEF PlanTypes
<1>3. Ways'
  BY DEF Ways, Ended
<1>4. GroupAtHand'
  BY DEF GroupAtHand, InGroup, Ways
<1>5. WorkRemains'
  BY WorkStays DEF Ways, InGroup, Ended
<1>6. JobReleased'
  BY DEF JobReleased, Ways, Ended
<1>7. GpuKnown'
  BY Constants DEF GpuKnown, GpuAsReported, SingleHealthy, TypeOK, Ways
<1>8. NoFailureYet'
  BY Constants DEF NoFailureYet, Calm, GpuKnown, SingleHealthy, TypeOK, Ways, JobReleased, Ended
<1>9. OneFailure'
  BY Constants DEF OneFailure, OneFailureRecovered, NoFailureYet, Calm, SingleHealthy, TypeOK, Ways, JobReleased, Ended
<1>10. PlanAsMade'
  BY DEF PlanAsMade, JobReleased, Ways, Ended
<1> QED
  BY <1>1, <1>2, <1>3, <1>4, <1>5, <1>6, <1>7, <1>8, <1>9, <1>10

(* An image job ends.                                                      *)
LEMMA JobEndsStep ==
  ASSUME IInv, JobEnds
  PROVE  IInv'
<1>. USE DEF IInv, JobEnds, AnyModel, Fails, Goes, Ends, input, world, book
<1>1. TypeOK'
  BY Constants DEF TypeOK
<1>2. PlanTypes'
  BY DEF PlanTypes
<1>3. Ways'
  BY DEF Ways, Ended
<1>4. GroupAtHand'
  BY DEF GroupAtHand, InGroup, Ways
<1>5. WorkRemains'
  BY WorkStays DEF Ways, InGroup, Ended
<1>6. JobReleased'
  BY DEF JobReleased, Ways, Ended
<1>7. GpuKnown'
  BY Constants DEF GpuKnown, GpuAsReported, SingleHealthy, TypeOK, Ways
<1>8. NoFailureYet'
  BY Constants DEF NoFailureYet, Calm, GpuKnown, SingleHealthy, TypeOK, Ways, JobReleased, Ended
<1>9. OneFailure'
  BY Constants DEF OneFailure, OneFailureRecovered, NoFailureYet, Calm, SingleHealthy, TypeOK, Ways, JobReleased, Ended
<1>10. PlanAsMade'
  BY DEF PlanAsMade, JobReleased, Ways, Ended
<1> QED
  BY <1>1, <1>2, <1>3, <1>4, <1>5, <1>6, <1>7, <1>8, <1>9, <1>10

(* Someone else loads a model, or one breaks.                              *)
LEMMA DisturbsStep ==
  ASSUME IInv, Disturbs
  PROVE  IInv'
<1>. USE DEF IInv, Disturbs, Goes, Ends, input, world, book
<1>1. TypeOK'
  BY Constants DEF TypeOK
<1>2. PlanTypes'
  BY DEF PlanTypes
<1>3. Ways'
  BY DEF Ways, Ended
<1>4. GroupAtHand'
  BY DEF GroupAtHand, InGroup, Ways
<1>5. WorkRemains'
  BY WorkStays DEF Ways, InGroup, Ended
<1>6. JobReleased'
  BY DEF JobReleased, Ways, Ended
<1>7. GpuKnown'
  BY Constants DEF GpuKnown, GpuAsReported, SingleHealthy, TypeOK, Ways
<1>8. NoFailureYet'
  BY Constants DEF NoFailureYet, Calm, GpuKnown, SingleHealthy, TypeOK, Ways, JobReleased, Ended
<1>9. OneFailure'
  BY Constants DEF OneFailure, OneFailureRecovered, NoFailureYet, Calm, SingleHealthy, TypeOK, Ways, JobReleased, Ended
<1>10. PlanAsMade'
  BY DEF PlanAsMade, JobReleased, Ways, Ended
<1> QED
  BY <1>1, <1>2, <1>3, <1>4, <1>5, <1>6, <1>7, <1>8, <1>9, <1>10

(* Nothing changes.                                                        *)
LEMMA Stutters ==
  ASSUME IInv, UNCHANGED vars
  PROVE  IInv'
<1>. USE DEF IInv, vars, input, world, book
<1>1. TypeOK' /\ PlanTypes' /\ Ways' /\ GroupAtHand'
  BY DEF TypeOK, PlanTypes, Ways, Ended, GroupAtHand, InGroup
<1>2. WorkRemains'
  BY DEF WorkRemains, ResultsInOrder, Ended, Ahead, InGroup
<1>3. JobReleased' /\ GpuKnown' /\ NoFailureYet' /\ OneFailure'
  BY DEF JobReleased, GpuKnown, GpuAsReported, NoFailureYet, Calm, OneFailure, OneFailureRecovered, SingleHealthy
<1>4. PlanAsMade'
  BY DEF PlanAsMade
<1> QED
  BY <1>1, <1>2, <1>3, <1>4

(* Every step of a workflow, and of those who disturb it, keeps it.        *)
LEMMA InvNext ==
  ASSUME IInv, [Next]_vars
  PROVE  IInv'
<1>1. CASE Plans
  BY <1>1, PlansStep
<1>2. CASE TakesSlot
  BY <1>2, TakesSlotStep
<1>3. CASE Starts
  BY <1>3, StartsStep
<1>4. CASE Repairs
  BY <1>4, RepairsStep
<1>5. CASE TakesGroup
  BY <1>5, TakesGroupStep
<1>6. CASE ChangesModel
  BY <1>6, ChangesModelStep
<1>7. CASE ReadsStatus
  BY <1>7, ReadsStatusStep
<1>8. CASE GroupEnds
  BY <1>8, GroupEndsStep
<1>9. CASE RunsText
  BY <1>9, RunsTextStep
<1>10. CASE RunsOcr
  BY <1>10, RunsOcrStep
<1>11. CASE PostsJob
  BY <1>11, PostsJobStep
<1>12. CASE PollsJob
  BY <1>12, PollsJobStep
<1>13. CASE ReleasesGraphics
  BY <1>13, ReleasesGraphicsStep
<1>14. CASE GivesUpRelease
  BY <1>14, GivesUpReleaseStep
<1>15. CASE Settles
  BY <1>15, SettlesStep
<1>16. CASE Restores
  BY <1>16, RestoresStep
<1>17. CASE Aborts
  BY <1>17, AbortsStep
<1>18. CASE ReadFails
  BY <1>18, ReadFailsStep
<1>19. CASE JobEnds
  BY <1>19, JobEndsStep
<1>20. CASE Disturbs
  BY <1>20, DisturbsStep
<1>21. CASE UNCHANGED vars
  BY <1>21, Stutters
<1> QED
  BY <1>1, <1>2, <1>3, <1>4, <1>5, <1>6, <1>7, <1>8, <1>9, <1>10, <1>11,
     <1>12, <1>13, <1>14, <1>15, <1>16, <1>17, <1>18, <1>19, <1>20, <1>21 DEF Next, Executes

-----------------------------------------------------------------------------
(* The invariant: what is known at each place of the workflow.             *)
THEOREM Invariance == Spec => []IInv
BY InvInit, InvNext, PTL DEF Spec

(* The variables have their types.                                         *)
THEOREM TypeCorrect == Spec => []TypeOK
<1>1. IInv => TypeOK
  BY DEF IInv
<1> QED
  BY <1>1, Invariance, PTL

(* The plan that is executed, and the preview of it, are refused exactly   *)
(* if tasks wait for each other; otherwise both run each task once, after  *)
(* all it depends on, in a group of its model.                             *)
THEOREM PlansStaySound == Spec => []PlansAreSound
<1>1. ASSUME IInv PROVE PlansAreSound
  <2>. SUFFICES ASSUME pc = "plan", ~disturbed PROVE PlansAreSound
    BY DEF PlansAreSound
  <2>1. /\ deps \in [Tasks -> SUBSET Tasks] /\ model \in Routes /\ active \in Models
        /\ left = Plan(deps, model, active)
    BY <1>1 DEF IInv, TypeOK, PlanAsMade, Routes, TextModels
  <2>. DEFINE preview == Preview(deps, model, active)
  <2>2. PlanOf(deps, model, Tasks, left) /\ PlanOf(deps, model, Tasks, preview) /\ CountsSwitches(left, active)
    BY <2>1, PlanIsPlan
  <2>. HIDE DEF preview
  <2>3. /\ Refused(left) <=> ~Acyclic(deps)
        /\ Acyclic(deps) => Runs(deps, model, left)
    BY <2>1, <2>2, RefusedIfCyclic
  <2>4. /\ Refused(preview) <=> ~Acyclic(deps)
        /\ Acyclic(deps) => Runs(deps, model, preview)
    BY <2>1, <2>2, RefusedIfCyclic
  <2> QED
    BY <2>2, <2>3, <2>4 DEF PlansAreSound, preview
<1> QED
  BY <1>1, Invariance, PTL

(* No task has a result before all it depends on, and a workflow is        *)
(* reported complete only with a result of every task.  What is reported   *)
(* of the GPU is so: "restored" always, "ok" if no one disturbed it.       *)
THEOREM OutcomeStaysTrue == Spec => []OutcomeIsTrue
<1>1. IInv => OutcomeIsTrue
  BY DEF IInv, WorkRemains, GpuKnown, OutcomeIsTrue
<1> QED
  BY <1>1, Invariance, PTL

(* However many calls fail, no image job is left on the GPU.               *)
THEOREM JobsAreReleased == Spec => []NoJobLeftBehind
<1>1. IInv => NoJobLeftBehind
  BY DEF IInv, JobReleased, NoJobLeftBehind
<1> QED
  BY <1>1, Invariance, PTL

(* After one failed call, wherever it is, the default model is restored.   *)
THEOREM OneFailureCostsNoModel == Spec => []OneFailureRecovered
<1>1. IInv => OneFailureRecovered
  BY DEF IInv, OneFailure
<1> QED
  BY <1>1, Invariance, PTL
=============================================================================
