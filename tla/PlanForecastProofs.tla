------------------------- MODULE PlanForecastProofs -------------------------
(***************************************************************************)
(* Proofs about PlanForecast and the calculations of Schedule, for any     *)
(* tasks, dependencies, efforts, projects and calendars the assumptions    *)
(* allow, and any number of edits.                                         *)
(*                                                                         *)
(* The algorithms are recursive functions over a number of steps.  A       *)
(* recursive function is a CHOOSE: Recursion shows that a solution exists, *)
(* and an invariant is carried through its steps by the least step that    *)
(* would break it (LeastLemma, UpTo).  That way                            *)
(*   - Kahn's algorithm orders all tasks exactly if there is no circle,    *)
(*     and the search names one if there is (GraphErrorLemma, CycleLemma); *)
(*   - the passes of _allocate_task are enough, take what each day has     *)
(*     room for and lose nothing (Allocating, AllocateLemma);              *)
(*   - schedule_tasks places every task or none: within the hours and the  *)
(*     limit of every day and in order (WellPlaced, ScheduleLemma);        *)
(*   - the critical path is the heaviest chain of dependencies, from both  *)
(*     ends (HeaviestLemma, CriticalLemma);                                *)
(*   - _schedule_range never ends a task later with less to do, because    *)
(*     the slots of every workstream can be paired up (Dominated), and     *)
(*     never before its predecessors allow (Ranged, RangeAtLeast).         *)
(*                                                                         *)
(* The inductive invariant of the plan is Typed /\ Judged: its stage       *)
(* agrees with validate_graph.  StartedInOrder adds what the transitions   *)
(* keep.                                                                   *)
(***************************************************************************)
EXTENDS PlanForecast, TLAPS, FiniteSetTheorems, WellFoundedInduction, SequenceTheorems

-----------------------------------------------------------------------------
(* Induction and recursion, for sets and functions *)

(* A set of natural numbers has a least element. *)
LEMMA LeastLemma ==
  ASSUME NEW T, T \subseteq Nat, T # {}
  PROVE  \E x \in T : \A y \in T : x <= y
<1> DEFINE Rel == OpToRel(<, Nat)
<1>1. IsWellFoundedOn(Rel, Nat)
  BY NatLessThanWellFounded
<1>2. \A x, y \in Nat : x < y => <<x, y>> \in Rel
  BY DEF OpToRel
<1> HIDE DEF Rel
<1>3. PICK x \in T : \A y \in T : ~ (<<y, x>> \in Rel)
  BY <1>1, WFMin
<1>4. ASSUME NEW y \in T PROVE x <= y
  <2>1. x \in Nat /\ y \in Nat
    OBVIOUS
  <2>2. ~ (y < x)
    BY <1>2, <1>3, <2>1
  <2> QED BY <2>1, <2>2
<1> QED BY <1>4

(* What 0 has and every step keeps, every number up to n has. *)
LEMMA UpTo ==
  ASSUME NEW n \in Nat, NEW S, 0 \in S,
         \A i \in 0..n : i \in S /\ i < n => i + 1 \in S
  PROVE  \A i \in 0..n : i \in S
<1> DEFINE T == {i \in 0..n : i \notin S}
<1>1. SUFFICES ASSUME T # {} PROVE FALSE
  OBVIOUS
<1>2. PICK i \in T : \A j \in T : i <= j
  <2>1. T \subseteq Nat
    OBVIOUS
  <2> HIDE DEF T
  <2> QED BY <1>1, <2>1, LeastLemma
<1>3. i # 0 /\ i - 1 \in 0..n /\ i - 1 < n /\ (i - 1) + 1 = i
  OBVIOUS
<1>4. i - 1 \in S
  BY <1>2, <1>3
<1> QED BY <1>3, <1>4

(* f starts with base and each step makes its next value, up to n. *)
Iterates(f, n, D, base, step) ==
  /\ f \in [0..n -> D] /\ f[0] = base
  /\ \A i \in 1..n : f[i] = step[i][f[i - 1]]

(* A function is defined by its first value and the step from each to the next. *)
LEMMA Recursion ==
  ASSUME NEW n \in Nat, NEW D, NEW base \in D, NEW step \in [1..n -> [D -> D]]
  PROVE  \E f : Iterates(f, n, D, base, step)
<1> DEFINE Good(m, f) == f[0] = base /\ \A i \in 1..m : f[i] = step[i][f[i - 1]]
           S == {m \in 0..n : \E f \in [0..m -> D] : Good(m, f)}
<1>1. 0 \in S
  <2> DEFINE one == [i \in 0..0 |-> base]
  <2>1. one \in [0..0 -> D] /\ Good(0, one)
    OBVIOUS
  <2> HIDE DEF one, Good
  <2> QED BY <2>1
<1>2. ASSUME NEW m \in 0..n, m \in S, m < n PROVE m + 1 \in S
  <2>1. PICK f \in [0..m -> D] : Good(m, f)
    BY <1>2
  <2> DEFINE v == step[m + 1][f[m]]
             g == [i \in 0..(m + 1) |-> IF i = m + 1 THEN v ELSE f[i]]
  <2>2. v \in D
    <3>1. m + 1 \in 1..n /\ m \in 0..m
      BY <1>2
    <3> QED BY <3>1
  <2>3. g \in [0..(m + 1) -> D]
    BY <2>2
  <2>4. g[0] = base
    BY <2>1
  <2>5. ASSUME NEW i \in 1..(m + 1) PROVE g[i] = step[i][g[i - 1]]
    <3>1. CASE i = m + 1
      <4>1. g[i] = v /\ i - 1 = m /\ g[m] = f[m]
        BY <3>1
      <4> QED BY <3>1, <4>1
    <3>2. CASE i \in 1..m
      <4>1. g[i] = f[i] /\ g[i - 1] = f[i - 1]
        BY <3>2
      <4> QED BY <3>2, <4>1, <2>1
    <3> QED BY <3>1, <3>2
  <2>6. Good(m + 1, g)
    BY <2>4, <2>5
  <2>7. m + 1 \in 0..n
    BY <1>2
  <2> HIDE DEF g, Good
  <2> QED BY <2>3, <2>6, <2>7
<1>3. n \in S
  <2> HIDE DEF S
  <2>1. \A i \in 0..n : i \in S /\ i < n => i + 1 \in S
    BY <1>2
  <2>2. \A i \in 0..n : i \in S
    BY <1>1, <2>1, UpTo
  <2> QED BY <2>2
<1> QED BY <1>3 DEF Iterates
(* A set of subsets has every finite subset if it has each whose smaller subsets *)
(* it has.                                                                       *)
LEMMA SmallerSets ==
  ASSUME NEW S, IsFiniteSet(S), NEW A,
         \A s \in SUBSET S : (\A r \in SUBSET s : r # s => r \in A) => s \in A
  PROVE  \A s \in SUBSET S : s \in A
<1> DEFINE R == StrictSubsetOrdering(S)
           T == {s \in SUBSET S : s \notin A}
<1>1. IsWellFoundedOn(R, SUBSET S)
  BY FS_StrictSubsetOrderingWellFounded, FS_FiniteSubsetsOfFinite
<1>2. SUFFICES ASSUME T # {} PROVE FALSE
  OBVIOUS
<1>3. PICK s \in T : \A y \in T : ~ (<<y, s>> \in R)
  <2>1. T \subseteq SUBSET S
    OBVIOUS
  <2> HIDE DEF R, T
  <2> QED BY <1>1, <1>2, <2>1, WFMin
<1>4. \A r \in SUBSET s : r # s => r \in A
  BY <1>3 DEF StrictSubsetOrdering
<1> QED BY <1>3, <1>4

(* .. or the empty one and with each also that with one element more. *)
LEMMA OneMore ==
  ASSUME NEW S, IsFiniteSet(S), NEW A, {} \in A,
         \A s \in SUBSET S : \A x \in S : x \notin s /\ s \in A => s \cup {x} \in A
  PROVE  S \in A
<1>1. ASSUME NEW s \in SUBSET S, \A r \in SUBSET s : r # s => r \in A
      PROVE  s \in A
  <2>1. CASE s = {}
    BY <2>1
  <2>2. CASE s # {}
    <3>1. PICK x : x \in s
      BY <2>2
    <3>2. s \ {x} \in A /\ s \ {x} \in SUBSET S /\ x \in S
      BY <1>1, <3>1
    <3>3. (s \ {x}) \cup {x} = s
      BY <3>1
    <3>4. (s \ {x}) \cup {x} \in A
      BY <3>2
    <3> QED BY <3>3, <3>4
  <2> QED BY <2>1, <2>2
<1>2. \A s \in SUBSET S : s \in A
  BY <1>1, SmallerSets
<1> QED BY <1>2

(* Of a finite set there is an element with the greatest first number, and the *)
(* smallest second number among those.                                         *)
LEMMA BestLemma ==
  ASSUME NEW S, IsFiniteSet(S), S # {}, NEW a, NEW b,
         \A t \in S : a[t] \in Int /\ b[t] \in Int
  PROVE  \E t \in S : \A u \in S : a[t] > a[u] \/ (a[t] = a[u] /\ b[t] <= b[u])
<1> DEFINE Over(t, u) == a[t] > a[u] \/ (a[t] = a[u] /\ b[t] <= b[u])
           A == {s \in SUBSET S : s = {} \/ \E t \in s : \A u \in s : Over(t, u)}
<1>0. \A t, u, v \in S : /\ Over(t, u) /\ Over(u, v) => Over(t, v)
                         /\ Over(t, u) \/ Over(u, t)
  OBVIOUS
<1> HIDE DEF Over
<1>1. ASSUME NEW s \in SUBSET S, NEW x \in S, x \notin s, s \in A
      PROVE  s \cup {x} \in A
  <2>1. CASE s = {}
    <3>1. Over(x, x)
      BY <1>0
    <3> QED BY <2>1, <3>1
  <2>2. CASE s # {}
    <3>1. PICK t \in s : \A u \in s : Over(t, u)
      BY <1>1, <2>2
    <3>2. CASE Over(t, x)
      BY <3>1, <3>2
    <3>3. CASE Over(x, t)
      <4>1. \A u \in s : Over(x, u)
        BY <1>0, <3>1, <3>3
      <4>2. Over(x, x)
        BY <1>0
      <4>3. \A u \in s \cup {x} : Over(x, u)
        BY <4>1, <4>2
      <4> QED BY <4>3
    <3> QED BY <1>0, <3>1, <3>2, <3>3
  <2> QED BY <2>1, <2>2
<1>2. S \in A
  <2>1. {} \in A
    OBVIOUS
  <2> HIDE DEF A
  <2> QED BY <1>1, <2>1, OneMore
<1>3. \E t \in S : \A u \in S : Over(t, u)
  BY <1>2
<1> QED BY <1>3 DEF Over

(* A finite set of numbers has a minimum and a maximum. *)
LEMMA MinMax ==
  ASSUME NEW S \in SUBSET Int, IsFiniteSet(S), S # {}
  PROVE  /\ Min(S) \in S /\ \A x \in S : Min(S) <= x
         /\ Max(S) \in S /\ \A x \in S : x <= Max(S)
<1> DEFINE zero == [x \in S |-> 0]
           same == [x \in S |-> x]
<1>1. \E t \in S : \A u \in S : t <= u
  <2>1. \A t \in S : zero[t] \in Int /\ same[t] \in Int /\ same[t] = t /\ zero[t] = 0
    OBVIOUS
  <2> HIDE DEF zero, same
  <2>2. \E t \in S : \A u \in S : zero[t] > zero[u] \/ (zero[t] = zero[u] /\ same[t] <= same[u])
    BY <2>1, BestLemma
  <2> QED BY <2>1, <2>2
<1>2. \E t \in S : \A u \in S : t >= u
  <2>1. \A t \in S : zero[t] \in Int /\ same[t] \in Int /\ same[t] = t /\ zero[t] = 0
    OBVIOUS
  <2> HIDE DEF zero, same
  <2>2. \E t \in S : \A u \in S : same[t] > same[u] \/ (same[t] = same[u] /\ zero[t] <= zero[u])
    BY <2>1, BestLemma
  <2> QED BY <2>1, <2>2
<1>3. Min(S) \in S /\ \A x \in S : Min(S) <= x
  BY <1>1 DEF Min
<1>4. Max(S) \in S /\ \A x \in S : Max(S) >= x
  BY <1>2 DEF Max
<1> QED BY <1>3, <1>4

-----------------------------------------------------------------------------
(* Sums *)

(* Some element of s. *)
Pick(s) == CHOOSE x \in s : TRUE

(* F[s] is the sum of f over s. *)
Sums(F, f, S) ==
  F = [s \in SUBSET S |-> IF s = {} THEN 0 ELSE f[Pick(s)] + F[s \ {Pick(s)}]]

(* The recursion that adds f up over the subsets of a finite set has a solution. *)
LEMMA SumExists ==
  ASSUME NEW S, IsFiniteSet(S), NEW f
  PROVE  \E F : Sums(F, f, S)
<1> DEFINE Upto(n) == {s \in SUBSET S : Cardinality(s) <= n}
           Part(F, n) ==
             F = [s \in Upto(n) |-> IF s = {} THEN 0 ELSE f[Pick(s)] + F[s \ {Pick(s)}]]
           c == Cardinality(S)
           N == {n \in 0..c : \E F : Part(F, n)}
<1>1. \A s \in SUBSET S : Cardinality(s) \in Nat /\ (s # {} => Pick(s) \in s)
  BY FS_Subset, FS_CardinalityType DEF Pick
<1>2. \A s \in SUBSET S : s # {} =>
        s \ {Pick(s)} \in SUBSET S /\ Cardinality(s \ {Pick(s)}) = Cardinality(s) - 1
  BY <1>1, FS_Subset, FS_RemoveElement
<1>3. \E F : Part(F, 0)
  <2> DEFINE F == [s \in Upto(0) |-> 0]
  <2>1. \A s \in Upto(0) : s = {}
    BY FS_Subset, FS_EmptySet, <1>1
  <2>2. Part(F, 0)
    BY <2>1
  <2> QED BY <2>2
<1>4. ASSUME NEW n \in Nat, \E F : Part(F, n) PROVE \E F : Part(F, n + 1)
  <2>1. PICK F : Part(F, n)
    BY <1>4
  <2> DEFINE G == [s \in Upto(n + 1) |->
                     IF s = {} THEN 0 ELSE f[Pick(s)] + F[s \ {Pick(s)}]]
  <2>2. \A s \in Upto(n) : G[s] = F[s]
    <3>1. \A s \in Upto(n) : s \in Upto(n + 1)
      BY <1>1
    <3>2. \A s \in Upto(n) : F[s] = IF s = {} THEN 0 ELSE f[Pick(s)] + F[s \ {Pick(s)}]
      <4> HIDE DEF Upto
      <4> QED BY <2>1
    <3> HIDE DEF Upto
    <3> QED BY <3>1, <3>2
  <2>3. \A s \in Upto(n + 1) : s # {} => s \ {Pick(s)} \in Upto(n)
    BY <1>1, <1>2
  <2>4. \A s \in Upto(n + 1) :
          G[s] = IF s = {} THEN 0 ELSE f[Pick(s)] + G[s \ {Pick(s)}]
    BY <2>2, <2>3
  <2>5. DOMAIN G = Upto(n + 1) /\ G = [s \in Upto(n + 1) |-> G[s]]
    OBVIOUS
  <2> HIDE DEF G, Upto
  <2>6. Part(G, n + 1)
    BY <2>4, <2>5
  <2> QED BY <2>6
<1>5. c \in Nat
  BY FS_CardinalityType
<1>6. c \in N
  <2>1. 0 \in N /\ \A n \in 0..c : n \in N /\ n < c => n + 1 \in N
    <3> HIDE DEF Part, c
    <3> QED BY <1>3, <1>4, <1>5
  <2> HIDE DEF N, c
  <2>2. \A n \in 0..c : n \in N
    BY <1>5, <2>1, UpTo
  <2> QED BY <1>5, <2>2
<1>7. Upto(c) = SUBSET S
  BY FS_Subset
<1> HIDE DEF Upto, c
<1> QED BY <1>6, <1>7 DEF Sums

(* A sum is a number, whatever is taken out of it first. *)
LEMMA SumsLemma ==
  ASSUME NEW S, IsFiniteSet(S), NEW f, \A x \in S : f[x] \in Nat, NEW F, Sums(F, f, S)
  PROVE  \A s \in SUBSET S : F[s] \in Nat /\ \A x \in s : F[s] = f[x] + F[s \ {x}]
<1> DEFINE A == {s \in SUBSET S : F[s] \in Nat /\ \A x \in s : F[s] = f[x] + F[s \ {x}]}
<1>1. \A s \in SUBSET S : F[s] = IF s = {} THEN 0 ELSE f[Pick(s)] + F[s \ {Pick(s)}]
  BY DEF Sums
<1>2. ASSUME NEW s \in SUBSET S, \A r \in SUBSET s : r # s => r \in A
      PROVE  s \in A
  <2>1. CASE s = {}
    BY <1>1, <2>1
  <2>2. CASE s # {}
    <3> DEFINE p == Pick(s)
    <3>1. p \in s /\ p \in S
      BY <2>2 DEF Pick
    <3>2. F[s] = f[p] + F[s \ {p}]
      BY <1>1, <2>2
    <3> HIDE DEF p
    <3>3. \A x \in s : s \ {x} \in A /\ s \ {x} \in SUBSET S
      BY <1>2
    <3>4. F[s \ {p}] \in Nat /\ f[p] \in Nat
      BY <3>1, <3>3
    <3>5. ASSUME NEW x \in s, x # p PROVE F[s] = f[x] + F[s \ {x}]
      <4>1. F[s \ {p}] = f[x] + F[(s \ {p}) \ {x}]
        BY <3>1, <3>3, <3>5
      <4>2. F[s \ {x}] = f[p] + F[(s \ {x}) \ {p}]
        BY <3>1, <3>3, <3>5
      <4>3. (s \ {p}) \ {x} = (s \ {x}) \ {p}
        OBVIOUS
      <4>4. (s \ {p}) \ {x} \in A
        BY <1>2, <3>1
      <4>5. F[(s \ {p}) \ {x}] \in Nat /\ f[x] \in Nat
        BY <4>4
      <4>6. \A a, b, c \in Nat : a + (b + c) = b + (a + c)
        OBVIOUS
      <4>7. F[s] = f[x] + (f[p] + F[(s \ {p}) \ {x}])
        BY <3>2, <3>4, <4>1, <4>5, <4>6
      <4> QED BY <4>2, <4>3, <4>7
    <3>6. F[s] \in Nat
      BY <3>2, <3>4
    <3>7. \A x \in s : F[s] = f[x] + F[s \ {x}]
      BY <3>2, <3>5
    <3> QED BY <3>6, <3>7
  <2> QED BY <2>1, <2>2
<1> HIDE DEF A
<1>3. \A s \in SUBSET S : s \in A
  BY <1>2, SmallerSets
<1> QED BY <1>3 DEF A

(* Sums of the same function over two sets agree where both are. *)
LEMMA SumsAgree ==
  ASSUME NEW S, IsFiniteSet(S), NEW f, \A x \in S : f[x] \in Nat, NEW F, Sums(F, f, S),
         NEW T \in SUBSET S, NEW G, Sums(G, f, T)
  PROVE  F[T] = G[T]
<1> DEFINE A == {s \in SUBSET T : F[s] = G[s]}
<1>1. /\ \A s \in SUBSET T : F[s] = IF s = {} THEN 0 ELSE f[Pick(s)] + F[s \ {Pick(s)}]
      /\ \A s \in SUBSET T : G[s] = IF s = {} THEN 0 ELSE f[Pick(s)] + G[s \ {Pick(s)}]
  BY DEF Sums
<1>2. ASSUME NEW s \in SUBSET T, \A r \in SUBSET s : r # s => r \in A
      PROVE  s \in A
  <2>1. s # {} => Pick(s) \in s
    BY DEF Pick
  <2>2. s # {} => s \ {Pick(s)} \in A
    BY <1>2, <2>1
  <2> QED BY <1>1, <2>2
<1>3. IsFiniteSet(T)
  BY FS_Subset
<1>4. T \in A
  <2> HIDE DEF A
  <2>1. \A s \in SUBSET T : s \in A
    BY <1>2, <1>3, SmallerSets
  <2> QED BY <2>1
<1> QED BY <1>4

(* The sum of the model. *)
LEMMA SumIs ==
  ASSUME NEW S, IsFiniteSet(S), NEW f
  PROVE  \E F : Sums(F, f, S) /\ SumOf(f, S) = F[S]
<1> DEFINE P(F) == F = [s \in SUBSET S |-> IF s = {} THEN 0
                          ELSE f[CHOOSE x \in s : TRUE] + F[s \ {CHOOSE x \in s : TRUE}]]
           H == CHOOSE F : P(F)
<1>1. \A F : P(F) <=> Sums(F, f, S)
  BY DEF Sums, Pick
<1>2. \E F : P(F)
  <2> HIDE DEF P
  <2> QED BY <1>1, SumExists
<1>3. P(H)
  <2> HIDE DEF P
  <2> QED BY <1>2
<1>4. SumOf(f, S) = H[S]
  BY DEF SumOf, MapThenSumSet, MapThenFoldSet
<1> HIDE DEF P, H
<1> QED BY <1>1, <1>3, <1>4

(* A sum is a number, 0 of nothing, and can be taken apart at any element. *)
LEMMA SumLemma ==
  ASSUME NEW S, IsFiniteSet(S), NEW f, \A x \in S : f[x] \in Nat
  PROVE  /\ SumOf(f, S) \in Nat
         /\ S = {} => SumOf(f, S) = 0
         /\ \A x \in S : SumOf(f, S) = f[x] + SumOf(f, S \ {x})
<1>1. PICK F : Sums(F, f, S) /\ SumOf(f, S) = F[S]
  BY SumIs
<1>2. F[S] \in Nat /\ \A x \in S : F[S] = f[x] + F[S \ {x}]
  BY <1>1, SumsLemma
<1>3. ASSUME NEW x \in S PROVE SumOf(f, S \ {x}) = F[S \ {x}]
  <2>1. IsFiniteSet(S \ {x}) /\ S \ {x} \in SUBSET S
    BY FS_Subset
  <2>2. PICK G : Sums(G, f, S \ {x}) /\ SumOf(f, S \ {x}) = G[S \ {x}]
    BY <2>1, SumIs
  <2> QED BY <1>1, <2>1, <2>2, SumsAgree
<1>4. S = {} => F[S] = 0
  BY <1>1 DEF Sums
<1> QED BY <1>1, <1>2, <1>3, <1>4

(* .. put together. *)
LEMMA SumAdd ==
  ASSUME NEW S, IsFiniteSet(S), NEW f, NEW y, y \notin S, \A x \in S \cup {y} : f[x] \in Nat
  PROVE  /\ SumOf(f, S) \in Nat /\ SumOf(f, S \cup {y}) \in Nat
         /\ SumOf(f, S \cup {y}) = f[y] + SumOf(f, S)
<1>1. IsFiniteSet(S \cup {y}) /\ (S \cup {y}) \ {y} = S /\ y \in S \cup {y}
  BY FS_AddElement
<1> QED BY <1>1, SumLemma

(* Sums over disjoint sets add up. *)
LEMMA SumUnion ==
  ASSUME NEW S, IsFiniteSet(S), NEW T, IsFiniteSet(T), S \cap T = {}, NEW f,
         \A x \in S \cup T : f[x] \in Nat
  PROVE  SumOf(f, S \cup T) = SumOf(f, S) + SumOf(f, T)
<1> DEFINE A == {s \in SUBSET T : SumOf(f, S \cup s) = SumOf(f, S) + SumOf(f, s)}
<1>1. {} \in A
  <2>1. SumOf(f, {}) = 0 /\ SumOf(f, S) \in Nat /\ S \cup {} = S
    BY SumLemma, FS_EmptySet
  <2> QED BY <2>1
<1>2. ASSUME NEW s \in SUBSET T, NEW x \in T, x \notin s, s \in A PROVE s \cup {x} \in A
  <2>1. IsFiniteSet(s) /\ IsFiniteSet(S \cup s)
    BY FS_Subset, FS_Union
  <2>2. x \notin S \cup s /\ (S \cup s) \cup {x} = S \cup (s \cup {x})
    BY <1>2
  <2>3. /\ SumOf(f, (S \cup s) \cup {x}) = f[x] + SumOf(f, S \cup s)
        /\ SumOf(f, s \cup {x}) = f[x] + SumOf(f, s)
        /\ SumOf(f, S \cup s) \in Nat /\ SumOf(f, s) \in Nat
    BY <1>2, <2>1, <2>2, SumAdd
  <2>4. SumOf(f, S) \in Nat
    BY SumLemma
  <2>5. SumOf(f, S \cup s) = SumOf(f, S) + SumOf(f, s) /\ f[x] \in Nat
    BY <1>2
  <2>a. \A a, b, c \in Nat : c + (a + b) = a + (c + b)
    OBVIOUS
  <2>b. SumOf(f, (S \cup s) \cup {x}) = SumOf(f, S) + (f[x] + SumOf(f, s))
    BY <2>3, <2>4, <2>5, <2>a
  <2>6. SumOf(f, S \cup (s \cup {x})) = SumOf(f, S) + SumOf(f, s \cup {x})
    BY <2>2, <2>3, <2>b
  <2> QED BY <2>6
<1>3. T \in A
  <2> HIDE DEF A
  <2> QED BY <1>1, <1>2, OneMore
<1> QED BY <1>3

(* Greater terms give a greater sum. *)
LEMMA SumMonotone ==
  ASSUME NEW S, IsFiniteSet(S), NEW f, NEW g,
         \A x \in S : f[x] \in Nat /\ g[x] \in Nat /\ f[x] <= g[x]
  PROVE  SumOf(f, S) <= SumOf(g, S)
<1> DEFINE A == {s \in SUBSET S : SumOf(f, s) <= SumOf(g, s)}
<1>1. {} \in A
  <2>1. SumOf(f, {}) = 0 /\ SumOf(g, {}) = 0
    BY SumLemma, FS_EmptySet
  <2> QED BY <2>1
<1>2. ASSUME NEW s \in SUBSET S, NEW x \in S, x \notin s, s \in A PROVE s \cup {x} \in A
  <2>1. IsFiniteSet(s)
    BY FS_Subset
  <2>2. /\ SumOf(f, s \cup {x}) = f[x] + SumOf(f, s) /\ SumOf(f, s) \in Nat
        /\ SumOf(g, s \cup {x}) = g[x] + SumOf(g, s) /\ SumOf(g, s) \in Nat
    BY <1>2, <2>1, SumAdd
  <2>3. SumOf(f, s) <= SumOf(g, s) /\ f[x] \in Nat /\ g[x] \in Nat /\ f[x] <= g[x]
    BY <1>2
  <2>4. SumOf(f, s \cup {x}) <= SumOf(g, s \cup {x})
    BY <2>2, <2>3
  <2> QED BY <2>4
<1>3. S \in A
  <2> HIDE DEF A
  <2> QED BY <1>1, <1>2, OneMore
<1> QED BY <1>3

(* Equal terms give an equal sum. *)
LEMMA SumSame ==
  ASSUME NEW S, IsFiniteSet(S), NEW f, NEW g, \A x \in S : f[x] \in Nat /\ f[x] = g[x]
  PROVE  SumOf(f, S) = SumOf(g, S)
<1>1. SumOf(f, S) <= SumOf(g, S) /\ SumOf(g, S) <= SumOf(f, S)
  BY SumMonotone
<1>2. SumOf(f, S) \in Nat /\ SumOf(g, S) \in Nat
  BY SumLemma
<1> QED BY <1>1, <1>2

(* A part of a sum is no greater. *)
LEMMA SumPart ==
  ASSUME NEW S, IsFiniteSet(S), NEW T \in SUBSET S, NEW f, \A x \in S : f[x] \in Nat
  PROVE  SumOf(f, T) <= SumOf(f, S)
<1>1. IsFiniteSet(T) /\ IsFiniteSet(S \ T) /\ T \cup (S \ T) = S /\ T \cap (S \ T) = {}
  BY FS_Subset
<1>2. SumOf(f, T \cup (S \ T)) = SumOf(f, T) + SumOf(f, S \ T)
  BY <1>1, SumUnion
<1>3. SumOf(f, T) \in Nat /\ SumOf(f, S \ T) \in Nat
  BY <1>1, SumLemma
<1>4. SumOf(f, S) = SumOf(f, T) + SumOf(f, S \ T)
  BY <1>1, <1>2
<1>5. \A a, b \in Nat : a <= a + b
  OBVIOUS
<1> QED BY <1>3, <1>4, <1>5

(* A sum of positive terms is no less than their number. *)
LEMMA SumCounts ==
  ASSUME NEW S, IsFiniteSet(S), NEW f, \A x \in S : f[x] \in Nat \ {0}
  PROVE  Cardinality(S) <= SumOf(f, S)
<1> DEFINE A == {s \in SUBSET S : Cardinality(s) <= SumOf(f, s)}
<1>1. {} \in A
  <2>1. SumOf(f, {}) = 0 /\ Cardinality({}) = 0
    BY SumLemma, FS_EmptySet
  <2> QED BY <2>1
<1>2. ASSUME NEW s \in SUBSET S, NEW x \in S, x \notin s, s \in A PROVE s \cup {x} \in A
  <2>1. IsFiniteSet(s)
    BY FS_Subset
  <2>2. SumOf(f, s \cup {x}) = f[x] + SumOf(f, s) /\ SumOf(f, s) \in Nat
    BY <1>2, <2>1, SumAdd
  <2>3. Cardinality(s \cup {x}) = Cardinality(s) + 1 /\ Cardinality(s) \in Nat
    BY <1>2, <2>1, FS_AddElement, FS_CardinalityType
  <2>4. Cardinality(s) <= SumOf(f, s) /\ f[x] \in Nat /\ f[x] >= 1
    BY <1>2
  <2>5. Cardinality(s \cup {x}) <= SumOf(f, s \cup {x})
    BY <2>2, <2>3, <2>4
  <2> QED BY <2>5
<1>3. S \in A
  <2> HIDE DEF A
  <2> QED BY <1>1, <1>2, OneMore
<1> QED BY <1>3

(* The elements of S whose key is k. *)
Keyed(S, key, k) == {x \in S : key[x] = k}

(* A sum by a key: the sums of the elements with each key, added up. *)
LEMMA SumByKey ==
  ASSUME NEW S, IsFiniteSet(S), NEW f, \A x \in S : f[x] \in Nat,
         NEW K, IsFiniteSet(K), NEW key, \A x \in S : key[x] \in K,
         NEW g, \A k \in K : g[k] = SumOf(f, Keyed(S, key, k))
  PROVE  SumOf(f, S) = SumOf(g, K)
<1> DEFINE Of(k) == Keyed(S, key, k)
           In(s) == {x \in S : key[x] \in s}
           A == {s \in SUBSET K : SumOf(f, In(s)) = SumOf(g, s)}
<1>0. \A k \in K : g[k] \in Nat /\ IsFiniteSet(Of(k))
  <2>1. ASSUME NEW k \in K PROVE g[k] \in Nat /\ IsFiniteSet(Of(k))
    <3>1. IsFiniteSet(Of(k)) /\ Of(k) \subseteq S
      BY FS_Subset DEF Keyed
    <3>2. SumOf(f, Of(k)) \in Nat
      BY <3>1, SumLemma
    <3> QED BY <3>1, <3>2
  <2> QED BY <2>1
<1>1. {} \in A
  <2>1. SumOf(f, {}) = 0 /\ SumOf(g, {}) = 0
    BY SumLemma, FS_EmptySet
  <2>2. In({}) = {}
    OBVIOUS
  <2> QED BY <2>1, <2>2
<1>2. ASSUME NEW s \in SUBSET K, NEW k \in K, k \notin s, s \in A PROVE s \cup {k} \in A
  <2>1. IsFiniteSet(s) /\ IsFiniteSet(In(s)) /\ In(s) \subseteq S
    BY FS_Subset
  <2>2. SumOf(g, s \cup {k}) = g[k] + SumOf(g, s) /\ SumOf(g, s) \in Nat
    BY <1>0, <1>2, <2>1, SumAdd
  <2>3. In(s \cup {k}) = In(s) \cup Of(k) /\ In(s) \cap Of(k) = {}
    BY <1>2 DEF Keyed
  <2>4. SumOf(f, In(s) \cup Of(k)) = SumOf(f, In(s)) + SumOf(f, Of(k))
    BY <1>0, <2>1, <2>3, SumUnion
  <2>5. SumOf(f, Of(k)) = g[k] /\ SumOf(f, In(s)) = SumOf(g, s) /\ g[k] \in Nat
    BY <1>0, <1>2
  <2>a. \A a, b \in Nat : a + b = b + a
    OBVIOUS
  <2>b. SumOf(f, In(s) \cup Of(k)) = g[k] + SumOf(g, s)
    <3> HIDE DEF A, In, Of
    <3> QED BY <2>2, <2>4, <2>5, <2>a
  <2>6. SumOf(f, In(s \cup {k})) = SumOf(g, s \cup {k})
    <3> HIDE DEF A, In, Of
    <3> QED BY <2>2, <2>3, <2>b
  <2> QED BY <2>6
<1>3. K \in A
  <2> HIDE DEF A
  <2> QED BY <1>1, <1>2, OneMore
<1>4. In(K) = S
  OBVIOUS
<1> QED BY <1>3, <1>4

-----------------------------------------------------------------------------
(* Graphs *)

(* Predecessors and successors are what the edges say. *)
LEMMA EdgesLemma ==
  ASSUME NEW tasks, NEW edges \in SUBSET (tasks \X tasks)
  PROVE  \A t : /\ Preds(edges, t) \subseteq tasks /\ Succs(edges, t) \subseteq tasks
                /\ \A u : /\ u \in Preds(edges, t) <=> <<u, t>> \in edges
                          /\ u \in Succs(edges, t) <=> <<t, u>> \in edges
<1>1. \A e \in edges : e = <<e[1], e[2]>> /\ e[1] \in tasks /\ e[2] \in tasks
  OBVIOUS
<1> QED BY <1>1 DEF Preds, Succs

(* Every set of tasks has one that waits for none of the set. *)
NoCircle(tasks, edges) ==
  \A S \in (SUBSET tasks) \ {{}} : \E t \in S : Preds(edges, t) \cap S = {}

(* What Kahn's algorithm has popped: different tasks, each behind its predecessors. *)
Ordered(tasks, edges, o) ==
  /\ o \in Seq(tasks)
  /\ \A i, j \in 1..Len(o) : o[i] = o[j] => i = j
  /\ \A i \in 1..Len(o) : \A u \in Preds(edges, o[i]) : \E j \in 1..(i - 1) : o[j] = u

(* A pop adds a task that waits for nothing else, as long as there is one. *)
LEMMA PopLemma ==
  ASSUME NEW tasks \in SUBSET Int, IsFiniteSet(tasks), NEW edges, NEW score,
         \A t \in tasks : score[t] \in Int, NEW o, Ordered(tasks, edges, o)
  PROVE  LET next == PopNext(tasks, edges, score, o) IN
         /\ Ordered(tasks, edges, next)
         /\ \/ next = o /\ Waiting(tasks, edges, Range(o)) = {}
            \/ Len(next) = Len(o) + 1
<1> DEFINE heap == Waiting(tasks, edges, Range(o))
           x == First(heap, score)
           n == Len(o)
           new == Append(o, x)
<1>1. o \in Seq(tasks) /\ n \in Nat /\ DOMAIN o = 1..n
  BY LenProperties DEF Ordered
<1>2. CASE heap = {}
  <2>1. PopNext(tasks, edges, score, o) = o
    BY <1>2 DEF PopNext
  <2> QED BY <1>2, <2>1
<1>3. CASE heap # {}
  <2>1. heap \in SUBSET tasks /\ IsFiniteSet(heap)
    BY FS_Subset DEF Waiting
  <2>2. x \in heap
    <3> DEFINE same == [t \in tasks |-> -t]
               key == [t \in tasks |-> t]
    <3>1. \A t \in heap : score[t] \in Int /\ key[t] \in Int /\ key[t] = t
      BY <2>1
    <3> HIDE DEF heap, key
    <3>2. \E t \in heap : \A u \in heap :
            score[t] > score[u] \/ (score[t] = score[u] /\ key[t] <= key[u])
      BY <1>3, <2>1, <3>1, BestLemma
    <3>3. \E t \in heap : \A u \in heap :
            score[t] > score[u] \/ (score[t] = score[u] /\ t <= u)
      BY <3>1, <3>2
    <3> QED BY <3>3 DEF First
  <2> HIDE DEF x
  <2>3. x \in tasks /\ x \notin Range(o) /\ Preds(edges, x) \subseteq Range(o)
    BY <2>2 DEF Waiting
  <2>4. PopNext(tasks, edges, score, o) = new
    BY <1>3 DEF PopNext, x
  <2>5. /\ new \in Seq(tasks) /\ Len(new) = n + 1
        /\ \A i \in 1..n : new[i] = o[i]
        /\ new[n + 1] = x
    BY <1>1, <2>3, AppendProperties
  <2> HIDE DEF new, heap, n
  <2>6. \A i \in 1..n : o[i] # x
    BY <1>1, <2>3 DEF Range
  <2>7. \A i, j \in 1..n : o[i] = o[j] => i = j
    BY DEF Ordered, n
  <2>8. \A i, j \in 1..(n + 1) : new[i] = new[j] => i = j
    <3>1. \A i \in 1..(n + 1) : i \in 1..n \/ i = n + 1
      BY <1>1
    <3> QED BY <2>5, <2>6, <2>7, <3>1
  <2>9. ASSUME NEW i \in 1..(n + 1), NEW u \in Preds(edges, new[i])
        PROVE  \E j \in 1..(i - 1) : new[j] = u
    <3>1. CASE i \in 1..n
      <4>1. \E j \in 1..(i - 1) : o[j] = u
        BY <2>5, <2>9, <3>1 DEF Ordered, n
      <4>2. 1..(i - 1) \subseteq 1..n
        BY <1>1, <3>1
      <4> QED BY <2>5, <4>1, <4>2
    <3>2. CASE i = n + 1
      <4>1. u \in Range(o)
        BY <2>3, <2>5, <2>9, <3>2
      <4>2. PICK j \in 1..n : o[j] = u
        BY <1>1, <4>1 DEF Range
      <4>3. i - 1 = n
        BY <1>1, <3>2
      <4> QED BY <2>5, <4>2, <4>3
    <3> QED BY <1>1, <3>1, <3>2
  <2>10. Ordered(tasks, edges, new)
    BY <2>5, <2>8, <2>9 DEF Ordered
  <2> QED BY <2>4, <2>5, <2>10 DEF n
<1> QED BY <1>2, <1>3

(* The order of a graph stops when nothing waits any more or all are popped. *)
LEMMA OrderLemma ==
  ASSUME NEW tasks \in SUBSET Int, IsFiniteSet(tasks), NEW edges, NEW score,
         \A t \in tasks : score[t] \in Int
  PROVE  LET o == TopologicalOrder(tasks, edges, score) IN
         /\ Ordered(tasks, edges, o)
         /\ Len(o) = Cardinality(tasks) \/ Waiting(tasks, edges, Range(o)) = {}
<1> DEFINE c == Cardinality(tasks)
           D == {o \in Seq(tasks) : Ordered(tasks, edges, o)}
           step == [i \in 1..c |-> [o \in D |-> PopNext(tasks, edges, score, o)]]
           P(f) == f = [n \in 0..c |-> IF n = 0 THEN <<>>
                                       ELSE PopNext(tasks, edges, score, f[n - 1])]
<1>1. c \in Nat
  BY FS_CardinalityType
<1>2. <<>> \in D
  BY EmptySeq DEF Ordered
<1>3. \A o \in D : PopNext(tasks, edges, score, o) \in D
  <2>1. ASSUME NEW o \in D PROVE Ordered(tasks, edges, PopNext(tasks, edges, score, o))
    BY PopLemma
  <2> QED BY <2>1 DEF Ordered
<1>4. step \in [1..c -> [D -> D]]
  BY <1>3
<1>5. \E f : P(f)
  <2>1. PICK f : Iterates(f, c, D, <<>>, step)
    <3> HIDE DEF c, D, step
    <3> QED BY <1>1, <1>2, <1>4, Recursion
  <2>2. ASSUME NEW n \in 1..c
        PROVE  f[n - 1] \in D /\ f[n] = PopNext(tasks, edges, score, f[n - 1])
    <3>1. n - 1 \in 0..c /\ f \in [0..c -> D] /\ f[n] = step[n][f[n - 1]]
      <4> HIDE DEF c, D, step
      <4> QED BY <1>1, <2>1 DEF Iterates
    <3>2. f[n - 1] \in D
      <4> HIDE DEF D, step
      <4> QED BY <3>1
    <3>3. step[n][f[n - 1]] = PopNext(tasks, edges, score, f[n - 1])
      <4> HIDE DEF c, D
      <4> QED BY <3>2
    <3> QED BY <3>1, <3>2, <3>3
  <2>3. f \in [0..c -> D] /\ f[0] = <<>>
    BY <2>1 DEF Iterates
  <2>4. \A n \in 0..c : f[n] = IF n = 0 THEN <<>> ELSE PopNext(tasks, edges, score, f[n - 1])
    <3>1. \A n \in 0..c : n = 0 \/ n \in 1..c
      BY <1>1
    <3> HIDE DEF D, c
    <3> QED BY <2>2, <2>3, <3>1
  <2> HIDE DEF D, step, c
  <2>5. P(f)
    BY <2>3, <2>4
  <2> QED BY <2>5
<1> DEFINE f == CHOOSE g : P(g)
<1>6. P(f)
  <2> HIDE DEF P
  <2> QED BY <1>5
<1>7. TopologicalOrder(tasks, edges, score) = f[c]
  BY DEF TopologicalOrder
<1> HIDE DEF f
<1>8. \A n \in 0..c : f[n] = IF n = 0 THEN <<>> ELSE PopNext(tasks, edges, score, f[n - 1])
  <2> HIDE DEF c
  <2> QED BY <1>6
<1> HIDE DEF P, c, step
<1> DEFINE Good(n) == /\ f[n] \in D
                      /\ Len(f[n]) = n \/ Waiting(tasks, edges, Range(f[n])) = {}
           A == {n \in 0..c : Good(n)}
<1>9. 0 \in A
  <2>1. f[0] = <<>> /\ Len(<<>>) = 0 /\ 0 \in 0..c
    BY <1>1, <1>8
  <2> HIDE DEF D
  <2> QED BY <1>2, <2>1
<1>10. ASSUME NEW n \in 0..c, n \in A, n < c PROVE n + 1 \in A
  <2>1. n + 1 \in 0..c /\ n + 1 # 0 /\ (n + 1) - 1 = n
    BY <1>1, <1>10
  <2>2. f[n + 1] = PopNext(tasks, edges, score, f[n])
    BY <1>8, <2>1
  <2>3. Good(n)
    BY <1>10
  <2>4. Ordered(tasks, edges, f[n])
    BY <2>3
  <2>5. f[n + 1] \in D
    BY <1>3, <2>2, <2>3
  <2>6. \/ f[n + 1] = f[n] /\ Waiting(tasks, edges, Range(f[n])) = {}
        \/ Len(f[n + 1]) = Len(f[n]) + 1
    <3>1. PICK o : o = f[n]
      OBVIOUS
    <3>2. \/ PopNext(tasks, edges, score, o) = o /\ Waiting(tasks, edges, Range(o)) = {}
          \/ Len(PopNext(tasks, edges, score, o)) = Len(o) + 1
      BY <2>4, <3>1, PopLemma
    <3> QED BY <2>2, <3>1, <3>2
  <2>7. Waiting(tasks, edges, Range(f[n])) = {} => f[n + 1] = f[n]
    BY <2>2 DEF PopNext
  <2>8. Good(n + 1)
    BY <2>3, <2>5, <2>6, <2>7
  <2> QED BY <2>1, <2>8
<1>11. c \in A
  <2> HIDE DEF A
  <2>1. \A n \in 0..c : n \in A
    BY <1>1, <1>9, <1>10, UpTo
  <2> QED BY <1>1, <2>1
<1> QED BY <1>7, <1>11 DEF c

(* The popped tasks are as many as were popped. *)
LEMMA OrderedRange ==
  ASSUME NEW tasks, IsFiniteSet(tasks), NEW edges, NEW o, Ordered(tasks, edges, o)
  PROVE  /\ Len(o) \in Nat /\ DOMAIN o = 1..Len(o)
         /\ Range(o) \subseteq tasks /\ IsFiniteSet(Range(o))
         /\ Cardinality(Range(o)) = Len(o)
         /\ Len(o) = Cardinality(tasks) <=> Range(o) = tasks
<1> DEFINE n == Len(o)
<1>1. n \in Nat /\ DOMAIN o = 1..n /\ o \in [1..n -> tasks]
  BY LenProperties DEF Ordered
<1>2. Range(o) \subseteq tasks
  BY <1>1 DEF Range
<1>3. o \in Surjection(1..n, Range(o)) /\ o \in Injection(1..n, Range(o))
  BY <1>1 DEF Range, Surjection, Injection, IsInjective, Ordered
<1>4. IsFiniteSet(1..n) /\ Cardinality(1..n) = n
  BY <1>1, FS_Interval
<1>5. IsFiniteSet(Range(o)) /\ Cardinality(Range(o)) = n
  BY <1>3, <1>4, FS_Surjection
<1>6. n = Cardinality(tasks) <=> Range(o) = tasks
  BY <1>2, <1>5, FS_Subset
<1> QED BY <1>1, <1>2, <1>5, <1>6

(* An order of all the tasks shows that there is no circle. *)
LEMMA FullOrder ==
  ASSUME NEW tasks, IsFiniteSet(tasks), NEW edges, NEW o, Ordered(tasks, edges, o),
         Range(o) = tasks
  PROVE  NoCircle(tasks, edges)
<1> SUFFICES ASSUME NEW S \in SUBSET tasks, S # {}
             PROVE  \E t \in S : Preds(edges, t) \cap S = {}
  BY DEF NoCircle
<1>1. Len(o) \in Nat /\ DOMAIN o = 1..Len(o)
  BY OrderedRange
<1> DEFINE T == {i \in 1..Len(o) : o[i] \in S}
<1>2. T \subseteq Nat /\ T # {}
  <2>1. PICK t : t \in S
    OBVIOUS
  <2>2. t \in Range(o)
    BY <2>1
  <2> QED BY <1>1, <2>1, <2>2 DEF Range
<1>3. PICK i \in T : \A j \in T : i <= j
  <2> HIDE DEF T
  <2> QED BY <1>2, LeastLemma
<1>4. ASSUME NEW u \in Preds(edges, o[i]), u \in S PROVE FALSE
  <2>1. PICK j \in 1..(i - 1) : o[j] = u
    BY <1>3, <1>4 DEF Ordered
  <2>2. j \in T
    BY <1>1, <1>3, <1>4, <2>1
  <2> QED BY <1>1, <1>2, <1>3, <2>1, <2>2
<1> QED BY <1>3, <1>4

(* Without a circle the order has all the tasks. *)
LEMMA OrderOfAll ==
  ASSUME NEW tasks \in SUBSET Int, IsFiniteSet(tasks), NEW edges \in SUBSET (tasks \X tasks),
         NEW score, \A t \in tasks : score[t] \in Int, NoCircle(tasks, edges)
  PROVE  /\ Ordered(tasks, edges, TopologicalOrder(tasks, edges, score))
         /\ Range(TopologicalOrder(tasks, edges, score)) = tasks
<1> DEFINE o == TopologicalOrder(tasks, edges, score)
           rest == tasks \ Range(o)
<1>1. /\ Ordered(tasks, edges, o)
      /\ Len(o) = Cardinality(tasks) \/ Waiting(tasks, edges, Range(o)) = {}
  BY OrderLemma
<1> HIDE DEF o
<1>2. Range(o) \subseteq tasks /\ (Len(o) = Cardinality(tasks) <=> Range(o) = tasks)
  BY <1>1, OrderedRange
<1>3. CASE Waiting(tasks, edges, Range(o)) = {}
  <2>1. ASSUME NEW t \in rest PROVE Preds(edges, t) \cap rest # {}
    <3>1. ~ (Preds(edges, t) \subseteq Range(o))
      BY <1>3 DEF Waiting
    <3>2. Preds(edges, t) \subseteq tasks
      BY EdgesLemma
    <3> QED BY <3>1, <3>2
  <2>2. rest = {}
    BY <2>1 DEF NoCircle
  <2> QED BY <1>1, <1>2, <2>2 DEF o
<1> QED BY <1>1, <1>2, <1>3 DEF o

(* validate_graph's comparison of lengths finds out whether there is a circle. *)
LEMMA GraphOrderLemma ==
  ASSUME NEW tasks \in SUBSET Int, IsFiniteSet(tasks), NEW edges \in SUBSET (tasks \X tasks)
  PROVE  /\ Ordered(tasks, edges, GraphOrder(tasks, edges))
         /\ Len(GraphOrder(tasks, edges)) = Cardinality(tasks) <=> NoCircle(tasks, edges)
         /\ Len(GraphOrder(tasks, edges)) = Cardinality(tasks)
            \/ Waiting(tasks, edges, Range(GraphOrder(tasks, edges))) = {}
<1> DEFINE score == [t \in tasks |-> 0]
           o == GraphOrder(tasks, edges)
<1>1. \A t \in tasks : score[t] \in Int
  OBVIOUS
<1>2. o = TopologicalOrder(tasks, edges, score)
  BY DEF GraphOrder
<1> HIDE DEF score, o
<1>3. /\ Ordered(tasks, edges, o)
      /\ Len(o) = Cardinality(tasks) \/ Waiting(tasks, edges, Range(o)) = {}
  BY <1>1, <1>2, OrderLemma
<1>4. Len(o) = Cardinality(tasks) <=> Range(o) = tasks
  BY <1>3, OrderedRange
<1>5. Range(o) = tasks => NoCircle(tasks, edges)
  BY <1>3, FullOrder
<1>6. NoCircle(tasks, edges) => Range(o) = tasks
  BY <1>1, <1>2, OrderOfAll
<1> QED BY <1>3, <1>4, <1>5, <1>6 DEF o

(* The edges are right by themselves. *)
GoodList(tasks, list_) ==
  /\ \A i \in DOMAIN list_ : list_[i] \in tasks \X tasks /\ list_[i][1] # list_[i][2]
  /\ \A i, j \in DOMAIN list_ : list_[i] = list_[j] => i = j

(* No edge error means that every edge is right by itself, and no edge error is a circle. *)
LEMMA EdgeErrorLemma ==
  ASSUME NEW tasks, NEW es \in Seq(Int \X Int)
  PROVE  /\ EdgeError(tasks, es) = None <=> GoodList(tasks, es)
         /\ EdgeError(tasks, es) # "DEPENDENCY_CYCLE"
<1> DEFINE W(i) == WrongEdge(tasks, es, i)
           wrong == {i \in DOMAIN es : W(i) # None}
<1>1. DOMAIN es = 1..Len(es) /\ Len(es) \in Nat
  BY LenProperties
<1>2. \A i \in DOMAIN es : es[i] \in Int \X Int
  BY <1>1, ElementOfSeq
<1>3. ASSUME NEW i \in DOMAIN es
      PROVE  /\ W(i) = None <=> /\ es[i] \in tasks \X tasks /\ es[i][1] # es[i][2]
                                /\ \A j \in 1..(i - 1) : es[j] # es[i]
             /\ W(i) = None \/ W(i) \in {"MISSING_TASK_REFERENCE", "SELF_DEPENDENCY",
                                         "DUPLICATE_DEPENDENCY"}
  <2>1. es[i] = <<es[i][1], es[i][2]>>
    BY <1>2
  <2>2. es[i] \in tasks \X tasks <=> {es[i][1], es[i][2]} \subseteq tasks
    BY <2>1
  <2> QED BY <2>2, NoneAssumption DEF WrongEdge
<1> HIDE DEF W
<1>4. CASE wrong = {}
  <2>1. EdgeError(tasks, es) = None
    BY <1>4 DEF EdgeError, W
  <2>2. \A i \in DOMAIN es : /\ es[i] \in tasks \X tasks /\ es[i][1] # es[i][2]
                             /\ \A j \in 1..(i - 1) : es[j] # es[i]
    BY <1>3, <1>4
  <2>3. \A i, j \in DOMAIN es : es[i] = es[j] => i = j
    BY <1>1, <2>2
  <2> QED BY <2>1, <2>2, <2>3, NoneAssumption DEF GoodList
<1>5. CASE wrong # {}
  <2>1. Min(wrong) \in wrong
    <3>1. wrong \in SUBSET Int /\ IsFiniteSet(wrong)
      <4>1. wrong \in SUBSET (1..Len(es)) /\ IsFiniteSet(1..Len(es)) /\ 1..Len(es) \subseteq Int
        BY <1>1, FS_Interval
      <4> HIDE DEF wrong
      <4> QED BY <4>1, FS_Subset
    <3> HIDE DEF wrong
    <3> QED BY <1>5, <3>1, MinMax
  <2>2. EdgeError(tasks, es) = W(Min(wrong))
    BY <1>5 DEF EdgeError, W
  <2> DEFINE i == Min(wrong)
  <2>3. i \in DOMAIN es /\ W(i) # None
    BY <2>1
  <2> HIDE DEF i, wrong
  <2>4. ~ GoodList(tasks, es)
    <3>1. SUFFICES ASSUME GoodList(tasks, es) PROVE W(i) = None
      BY <2>3
    <3>2. \A j \in 1..(i - 1) : j \in DOMAIN es /\ j # i
      BY <1>1, <2>3
    <3> QED BY <1>3, <2>3, <3>1, <3>2 DEF GoodList
  <2>5. W(i) # None /\ W(i) # "DEPENDENCY_CYCLE"
    BY <1>3, <2>3
  <2> QED BY <2>2, <2>4, <2>5 DEF i
<1> QED BY <1>4, <1>5

(* A list whose edges are right joins tasks. *)
LEMMA GoodListEdges ==
  ASSUME NEW tasks, NEW es, GoodList(tasks, es)
  PROVE  Range(es) \in SUBSET (tasks \X tasks)
BY DEF GoodList, Range

(* The verdict of validate_graph: no error means right edges and no circle. *)
LEMMA GraphErrorLemma ==
  ASSUME NEW tasks \in SUBSET Int, IsFiniteSet(tasks), NEW es \in Seq(Int \X Int)
  PROVE  /\ GraphError(tasks, es) = None <=>
              GoodList(tasks, es) /\ NoCircle(tasks, Range(es))
         /\ GraphError(tasks, es) = "DEPENDENCY_CYCLE" <=>
              GoodList(tasks, es) /\ ~ NoCircle(tasks, Range(es))
<1>1. GoodList(tasks, es) =>
        (Len(GraphOrder(tasks, Range(es))) = Cardinality(tasks) <=> NoCircle(tasks, Range(es)))
  BY GoodListEdges, GraphOrderLemma
<1>2. /\ EdgeError(tasks, es) = None <=> GoodList(tasks, es)
      /\ EdgeError(tasks, es) # "DEPENDENCY_CYCLE"
  BY EdgeErrorLemma
<1> QED BY <1>1, <1>2, NoneAssumption DEF GraphError

-----------------------------------------------------------------------------
(* The cycle that is named *)

(* What the search for a circle among R may hold. *)
SearchStates(R) == [stack : Seq(R), visited : SUBSET R, cycle : Seq(R)]

(* The search so far: the stack is a path of tasks that are not done, what is done  *)
(* leads only to what is done, and has no circle.                                   *)
Searching(R, edges, s) ==
  /\ s \in SearchStates(R) /\ s.cycle = <<>>
  /\ \A i, j \in 1..Len(s.stack) : s.stack[i] = s.stack[j] => i = j
  /\ \A i \in 1..Len(s.stack) : s.stack[i] \notin s.visited
  /\ \A i \in 2..Len(s.stack) : <<s.stack[i - 1], s.stack[i]>> \in edges
  /\ \A v \in s.visited : Succs(edges, v) \cap R \subseteq s.visited
  /\ NoCircle(s.visited, edges)

(* A path along the edges back to where it starts. *)
IsCycle(edges, c) ==
  /\ Len(c) > 1 /\ c[1] = c[Len(c)]
  /\ \A i \in 2..Len(c) : <<c[i - 1], c[i]>> \in edges

(* What every visit adds one to: a task is pushed once and done once. *)
Measure(s) == 2 * Cardinality(s.visited) + Len(s.stack)

(* While it searches the steps are bounded. *)
LEMMA MeasureLemma ==
  ASSUME NEW R, IsFiniteSet(R), NEW edges, NEW s, Searching(R, edges, s)
  PROVE  Measure(s) \in Nat /\ Measure(s) <= 2 * Cardinality(R)
<1> DEFINE o == s.stack
           n == Len(o)
           V == s.visited
<1>1. o \in Seq(R) /\ V \subseteq R
  BY DEF Searching, SearchStates
<1>2. n \in Nat /\ DOMAIN o = 1..n /\ o \in [1..n -> R]
  BY <1>1, LenProperties
<1>3. o \in Surjection(1..n, Range(o)) /\ o \in Injection(1..n, Range(o))
  BY <1>2 DEF Range, Surjection, Injection, IsInjective, Searching
<1>4. IsFiniteSet(1..n) /\ Cardinality(1..n) = n
  BY <1>2, FS_Interval
<1>5. IsFiniteSet(Range(o)) /\ Cardinality(Range(o)) = n
  BY <1>3, <1>4, FS_Surjection
<1>6. Range(o) \cap V = {} /\ Range(o) \cup V \subseteq R
  BY <1>1, <1>2 DEF Range, Searching
<1>7. IsFiniteSet(V) /\ Cardinality(V) \in Nat /\ Cardinality(R) \in Nat
  BY <1>1, FS_Subset, FS_CardinalityType
<1>8. Cardinality(Range(o) \cup V) = n + Cardinality(V)
  <2>1. Cardinality(Range(o) \cup V) = Cardinality(Range(o)) + Cardinality(V) - Cardinality(Range(o) \cap V)
    BY <1>5, <1>7, FS_Union
  <2>2. Cardinality(Range(o) \cap V) = 0
    BY <1>6, FS_EmptySet
  <2> QED BY <1>2, <1>5, <1>7, <2>1, <2>2
<1>9. Cardinality(Range(o) \cup V) <= Cardinality(R)
  BY <1>6, FS_Subset
<1>10. \A a, b, r \in Nat : a + b <= r => 2 * b + a \in Nat /\ 2 * b + a <= 2 * r
  OBVIOUS
<1>11. n + Cardinality(V) <= Cardinality(R)
  BY <1>8, <1>9
<1> HIDE DEF n, V
<1>12. 2 * Cardinality(V) + n \in Nat /\ 2 * Cardinality(V) + n <= 2 * Cardinality(R)
  BY <1>2, <1>7, <1>10, <1>11
<1> QED BY <1>12 DEF Measure, n, V

(* A task whose successors are all done closes no circle. *)
LEMMA DoneTask ==
  ASSUME NEW tasks, NEW edges \in SUBSET (tasks \X tasks), NEW R \in SUBSET tasks,
         NEW V \in SUBSET R, NEW t \in R \ V, Succs(edges, t) \cap R \subseteq V,
         \A v \in V : Succs(edges, v) \cap R \subseteq V, NoCircle(V, edges)
  PROVE  NoCircle(V \cup {t}, edges)
<1> SUFFICES ASSUME NEW S \in SUBSET (V \cup {t}), S # {}
             PROVE  \E u \in S : Preds(edges, u) \cap S = {}
  BY DEF NoCircle
<1>1. CASE t \in S
  <2>1. ASSUME NEW p \in Preds(edges, t), p \in S PROVE FALSE
    <3>1. t \in Succs(edges, p)
      BY <2>1, EdgesLemma
    <3>2. p = t \/ p \in V
      BY <2>1
    <3> QED BY <3>1, <3>2
  <2> QED BY <1>1, <2>1
<1>2. CASE t \notin S
  BY <1>2 DEF NoCircle
<1> QED BY <1>1, <1>2

(* The search has gone one step further. *)
Further(s, v) == \E m \in Nat : Measure(s) = m /\ Measure(v) = m + 1

(* A visit goes on or finds a circle. *)
LEMMA VisitLemma ==
  ASSUME NEW tasks, NEW edges \in SUBSET (tasks \X tasks), NEW R \in SUBSET tasks,
         R \subseteq Int, IsFiniteSet(R), R # {}, \A t \in R : Preds(edges, t) \cap R # {},
         NEW s, Searching(R, edges, s)
  PROVE  LET v == Visit(R, edges, s) IN
         \/ v \in SearchStates(R) /\ IsCycle(edges, v.cycle)
         \/ Searching(R, edges, v) /\ Further(s, v)
<1> DEFINE o == s.stack
           n == Len(o)
           V == s.visited
           v == Visit(R, edges, s)
<1>1. /\ s \in SearchStates(R) /\ o \in Seq(R) /\ V \subseteq R /\ s.cycle = <<>> /\ <<>> \in Seq(R)
      /\ s = [stack |-> o, visited |-> V, cycle |-> <<>>]
  BY DEF Searching, SearchStates
<1>2. n \in Nat /\ DOMAIN o = 1..n /\ o \in [1..n -> R]
  BY <1>1, LenProperties
<1>3. IsFiniteSet(V) /\ Cardinality(V) \in Nat
  BY <1>1, FS_Subset, FS_CardinalityType
<1>4. V # R
  BY DEF Searching, NoCircle
<1>0. Measure(s) \in Nat
  BY MeasureLemma
<1>5. CASE o = <<>>
  <2> DEFINE x == Min(R \ V)
  <2>1. x \in R \ V
    <3>1. R \ V \in SUBSET Int /\ IsFiniteSet(R \ V) /\ R \ V # {}
      BY <1>1, <1>4, FS_Subset
    <3> QED BY <3>1, MinMax
  <2>2. v = [s EXCEPT !.stack = <<x>>]
    BY <1>1, <1>4, <1>5 DEF Visit
  <2> HIDE DEF x
  <2>3. v = [stack |-> <<x>>, visited |-> V, cycle |-> <<>>]
    BY <1>1, <2>2
  <2>4. Len(<<x>>) = 1 /\ <<x>>[1] = x /\ <<x>> \in Seq(R) /\ n = 0
    BY <1>5, <2>1
  <2>5. Searching(R, edges, v)
    <3>1. /\ \A t \in V : Succs(edges, t) \cap R \subseteq V
          /\ NoCircle(V, edges)
      BY DEF Searching
    <3> DEFINE q == <<x>>
    <3>2. Len(q) = 1 /\ q \in Seq(R) /\ q[1] = x
      BY <2>4
    <3> HIDE DEF q, V
    <3>3. v = [stack |-> q, visited |-> V, cycle |-> <<>>]
      BY <2>3 DEF q
    <3> HIDE DEF v
    <3>4. v \in SearchStates(R)
      BY <1>1, <3>2, <3>3 DEF SearchStates
    <3>5. \A i \in 1..1 : i = 1
      OBVIOUS
    <3>6. 2..1 = {}
      OBVIOUS
    <3> QED BY <2>1, <3>1, <3>2, <3>3, <3>4, <3>5, <3>6 DEF Searching
  <2>6. Measure(v) = Measure(s) + 1
    BY <1>3, <2>3, <2>4 DEF Measure
  <2> QED BY <1>0, <2>5, <2>6 DEF Further
<1>6. CASE o # <<>>
  <2> DEFINE top == o[n]
             next == (Succs(edges, top) \cap R) \ V
             u == Min(next)
  <2>1. n > 0 /\ n \in 1..n
    <3> HIDE DEF o
    <3>1. n # 0
      BY <1>1, <1>6, EmptySeq
    <3> HIDE DEF n
    <3> QED BY <1>2, <3>1
  <2>2. top \in R /\ top \notin V
    BY <1>2, <2>1 DEF Searching
  <2>3. CASE next = {}
    <3> DEFINE w == [stack |-> SubSeq(o, 1, n - 1), visited |-> V \cup {top}, cycle |-> <<>>]
    <3>1. v = [s EXCEPT !.stack = SubSeq(@, 1, Len(@) - 1), !.visited = @ \cup {top}]
      BY <1>1, <1>4, <1>6, <2>3 DEF Visit
    <3>2. v = w
      BY <1>1, <3>1
    <3>3. /\ SubSeq(o, 1, n - 1) \in Seq(R) /\ Len(SubSeq(o, 1, n - 1)) = n - 1
          /\ \A i \in 1..(n - 1) : SubSeq(o, 1, n - 1)[i] = o[i]
      <4>1. \A i \in 1..(n - 1) : o[i] \in R
        BY <1>2
      <4>2. 1 \in Int /\ n - 1 \in Int
        BY <1>2
      <4>3. /\ SubSeq(o, 1, n - 1) \in Seq(R)
            /\ Len(SubSeq(o, 1, n - 1)) = IF 1 <= n - 1 THEN (n - 1) - 1 + 1 ELSE 0
            /\ \A i \in 1..((n - 1) - 1 + 1) : SubSeq(o, 1, n - 1)[i] = o[1 + i - 1]
        <5> HIDE DEF n, o
        <5> QED BY <4>1, <4>2, SubSeqProperties
      <4> HIDE DEF o, n
      <4>4. (n - 1) - 1 + 1 = n - 1 /\ \A i \in Int : 1 + i - 1 = i
        BY <1>2
      <4>5. (IF 1 <= n - 1 THEN n - 1 ELSE 0) = n - 1
        BY <1>2, <2>1
      <4> QED BY <4>3, <4>4, <4>5
    <3>4. Succs(edges, top) \cap R \subseteq V
      BY <2>3
    <3>5. NoCircle(V \cup {top}, edges)
      BY <1>1, <2>2, <3>4, DoneTask DEF Searching
    <3> DEFINE q == SubSeq(o, 1, n - 1)
    <3>6. w \in SearchStates(R) /\ w.cycle = <<>> /\ w.stack = q /\ w.visited = V \cup {top}
      BY <1>1, <2>2, <3>3 DEF SearchStates
    <3>7. /\ \A i, j \in 1..n : o[i] = o[j] => i = j
          /\ \A i \in 1..n : o[i] \notin V
          /\ \A i \in 2..n : <<o[i - 1], o[i]>> \in edges
          /\ \A t \in V : Succs(edges, t) \cap R \subseteq V
      BY DEF Searching
    <3>8. Len(q) = n - 1 /\ \A i \in 1..(n - 1) : i \in 1..n /\ i # n /\ q[i] = o[i]
      BY <1>2, <3>3
    <3> HIDE DEF q, o, n, V, w, next
    <3>9. \A i \in 1..Len(q) : q[i] \notin V \cup {top}
      BY <2>1, <3>7, <3>8 DEF top
    <3>10. \A i, j \in 1..Len(q) : q[i] = q[j] => i = j
      BY <3>7, <3>8
    <3>11. \A i \in 2..Len(q) : <<q[i - 1], q[i]>> \in edges
      <4>1. \A i \in 2..(n - 1) : i \in 2..n /\ i \in 1..(n - 1) /\ i - 1 \in 1..(n - 1)
        BY <1>2
      <4> QED BY <3>7, <3>8, <4>1
    <3>12. \A t \in V \cup {top} : Succs(edges, t) \cap R \subseteq V \cup {top}
      BY <3>4, <3>7
    <3>13. Searching(R, edges, w)
      BY <3>5, <3>6, <3>9, <3>10, <3>11, <3>12 DEF Searching
    <3>14. Cardinality(V \cup {top}) = Cardinality(V) + 1
      BY <1>3, <2>2, FS_AddElement
    <3>15. Measure(w) = Measure(s) + 1
      <4>1. Measure(w) = 2 * (Cardinality(V) + 1) + (n - 1)
        BY <3>6, <3>8, <3>14 DEF Measure
      <4>2. Measure(s) = 2 * Cardinality(V) + n
        BY DEF Measure, V, n, o
      <4> QED BY <1>2, <1>3, <4>1, <4>2
    <3> QED BY <1>0, <3>2, <3>13, <3>15 DEF Further
  <2>4. CASE next # {}
    <3>1. u \in next
      <4>1. next \in SUBSET Int /\ IsFiniteSet(next)
        <5>1. next \in SUBSET R
          OBVIOUS
        <5> HIDE DEF next
        <5> QED BY <5>1, FS_Subset
      <4> HIDE DEF next
      <4> QED BY <2>4, <4>1, MinMax
    <3> HIDE DEF u
    <3>2. u \in R /\ u \notin V /\ u \in Succs(edges, top)
      BY <3>1
    <3>3. <<top, u>> \in edges
      <4> HIDE DEF top
      <4>1. PICK x : x = top
        OBVIOUS
      <4>2. u \in Succs(edges, x)
        BY <3>2, <4>1
      <4> QED BY <4>1, <4>2, EdgesLemma
    <3>4. /\ \A i, j \in 1..n : o[i] = o[j] => i = j
          /\ \A i \in 1..n : o[i] \notin V
          /\ \A i \in 2..n : <<o[i - 1], o[i]>> \in edges
          /\ \A t \in V : Succs(edges, t) \cap R \subseteq V
          /\ NoCircle(V, edges)
      BY DEF Searching
    <3>5. CASE u \in Range(o)
      <4> DEFINE k == CHOOSE i \in DOMAIN o : o[i] = u
                 c == Append(SubSeq(o, k, n), u)
      <4>1. k \in 1..n /\ o[k] = u
        BY <1>2, <3>5 DEF Range
      <4>2. v = [s EXCEPT !.cycle = c]
        BY <1>1, <1>4, <1>6, <2>4, <3>5 DEF Visit, u
      <4> HIDE DEF k, next
      <4> DEFINE m == n - k + 1
                 q == SubSeq(o, k, n)
      <4>3. q \in Seq(R) /\ Len(q) = m /\ \A i \in 1..m : q[i] = o[k + i - 1]
        <5>1. \A i \in k..n : o[i] \in R
          BY <1>2, <4>1
        <5>2. k <= n /\ k \in Int /\ n \in Int
          BY <1>2, <4>1
        <5> HIDE DEF o, n
        <5> QED BY <5>1, <5>2, SubSeqProperties
      <4> HIDE DEF q
      <4>4. /\ c \in Seq(R) /\ Len(c) = m + 1 /\ c[m + 1] = u
            /\ \A i \in 1..m : c[i] = q[i]
        BY <3>2, <4>3, AppendProperties DEF q
      <4> HIDE DEF c
      <4>5. m \in Nat /\ m >= 1 /\ k + m - 1 = n /\ k \in 1..n
        BY <1>2, <4>1
      <4> HIDE DEF m, o, n, V
      <4>6. c[1] = u
        <5>1. 1 \in 1..m /\ k + 1 - 1 = k
          BY <1>2, <4>5
        <5> QED BY <4>1, <4>3, <4>4, <5>1
      <4>7. ASSUME NEW i \in 2..(m + 1) PROVE <<c[i - 1], c[i]>> \in edges
        <5>1. CASE i = m + 1
          <6>1. i - 1 = m /\ m \in 1..m
            BY <4>5, <5>1
          <6>2. c[i - 1] = o[n]
            BY <4>3, <4>4, <4>5, <6>1
          <6> QED BY <3>3, <4>4, <5>1, <6>2 DEF top
        <5>2. CASE i \in 2..m
          <6>1. i \in 1..m /\ i - 1 \in 1..m
            BY <4>5, <5>2
          <6>2. k + i - 1 \in 2..n /\ k + (i - 1) - 1 = (k + i - 1) - 1
            BY <1>2, <4>5, <5>2
          <6>3. c[i] = o[k + i - 1] /\ c[i - 1] = o[(k + i - 1) - 1]
            BY <4>3, <4>4, <6>1, <6>2
          <6>4. <<o[(k + i - 1) - 1], o[k + i - 1]>> \in edges
            BY <3>4, <6>2
          <6> QED BY <6>3, <6>4
        <5> QED BY <4>5, <4>7, <5>1, <5>2
      <4>8. IsCycle(edges, c)
        BY <4>4, <4>5, <4>6, <4>7 DEF IsCycle
      <4>9. v = [stack |-> o, visited |-> V, cycle |-> c]
        BY <1>1, <4>2
      <4>10. v \in SearchStates(R) /\ v.cycle = c
        BY <1>1, <4>4, <4>9 DEF SearchStates
      <4> QED BY <4>8, <4>10
    <3>6. CASE u \notin Range(o)
      <4> DEFINE q == Append(o, u)
                 w == [stack |-> q, visited |-> V, cycle |-> <<>>]
      <4>1. v = [s EXCEPT !.stack = Append(@, u)]
        BY <1>1, <1>4, <1>6, <2>4, <3>6 DEF Visit, u
      <4>2. v = w
        BY <1>1, <4>1
      <4>3. /\ q \in Seq(R) /\ Len(q) = n + 1 /\ q[n + 1] = u
            /\ \A i \in 1..n : q[i] = o[i]
        BY <1>1, <3>2, AppendProperties
      <4>4. w \in SearchStates(R) /\ w.cycle = <<>> /\ w.stack = q /\ w.visited = V
        BY <1>1, <4>3 DEF SearchStates
      <4>5. \A i \in 1..n : o[i] # u
        BY <1>2, <3>6 DEF Range
      <4> HIDE DEF q, w, o, n, V, next
      <4>6. \A i \in 1..(n + 1) : i \in 1..n \/ i = n + 1
        BY <1>2
      <4>7. \A i, j \in 1..(n + 1) : q[i] = q[j] => i = j
        BY <3>4, <4>3, <4>5, <4>6
      <4>8. \A i \in 1..(n + 1) : q[i] \notin V
        BY <3>2, <3>4, <4>3, <4>6
      <4>9. ASSUME NEW i \in 2..(n + 1) PROVE <<q[i - 1], q[i]>> \in edges
        <5>1. CASE i = n + 1
          <6>1. i - 1 = n /\ q[n] = o[n]
            BY <1>2, <2>1, <4>3, <5>1
          <6> QED BY <3>3, <4>3, <5>1, <6>1 DEF top
        <5>2. CASE i \in 2..n
          <6>1. i \in 1..n /\ i - 1 \in 1..n
            BY <1>2, <5>2
          <6> QED BY <3>4, <4>3, <5>2, <6>1
        <5> QED BY <1>2, <4>9, <5>1, <5>2
      <4>10. Searching(R, edges, w)
        BY <3>4, <4>3, <4>4, <4>7, <4>8, <4>9 DEF Searching
      <4>11. Measure(w) = Measure(s) + 1
        <5>1. Measure(w) = 2 * Cardinality(V) + (n + 1)
          BY <4>3, <4>4 DEF Measure
        <5>2. Measure(s) = 2 * Cardinality(V) + n
          BY DEF Measure, V, n, o
        <5> QED BY <1>2, <1>3, <5>1, <5>2
      <4> QED BY <1>0, <4>2, <4>10, <4>11 DEF Further
    <3> QED BY <3>5, <3>6
  <2> QED BY <2>3, <2>4
<1> QED BY <1>5, <1>6

(* _first_cycle never fails: among tasks each of which waits for another of them *)
(* the search finds a circle, within its steps.                                  *)
LEMMA CycleLemma ==
  ASSUME NEW tasks, NEW edges \in SUBSET (tasks \X tasks), NEW R \in SUBSET tasks,
         R \subseteq Int, IsFiniteSet(R), R # {}, \A t \in R : Preds(edges, t) \cap R # {}
  PROVE  IsCycle(edges, FirstCycle(R, edges))
<1>0. ASSUME NEW s, Searching(R, edges, s), NEW v, v = Visit(R, edges, s)
      PROVE  \/ v \in SearchStates(R) /\ IsCycle(edges, v.cycle)
             \/ Searching(R, edges, v) /\ Further(s, v)
  BY <1>0, VisitLemma
<1> DEFINE c == 2 * Cardinality(R) + 1
           D == {s \in SearchStates(R) : Searching(R, edges, s) \/ IsCycle(edges, s.cycle)}
           base == [stack |-> <<>>, visited |-> {}, cycle |-> <<>>]
           step == [i \in 1..c |-> [s \in D |-> Visit(R, edges, s)]]
           P(f) == f = [n \in 0..c |-> IF n = 0 THEN base ELSE Visit(R, edges, f[n - 1])]
<1>1. c \in Nat /\ Cardinality(R) \in Nat /\ Cardinality({}) = 0
  BY FS_CardinalityType, FS_EmptySet
<1>2. Searching(R, edges, base) /\ Measure(base) = 0 /\ base \in D
  <2>1. <<>> \in Seq(R) /\ Len(<<>>) = 0
    OBVIOUS
  <2>2. base \in SearchStates(R)
    BY <2>1 DEF SearchStates
  <2>3. Searching(R, edges, base)
    BY <2>1, <2>2 DEF Searching, NoCircle
  <2>4. Measure(base) = 0
    BY <1>1, <2>1 DEF Measure
  <2> QED BY <2>2, <2>3, <2>4
<1> HIDE DEF base
<1>3. ASSUME NEW s \in D
      PROVE  \/ Visit(R, edges, s) \in D /\ IsCycle(edges, Visit(R, edges, s).cycle)
             \/ /\ Visit(R, edges, s) \in D
                /\ Searching(R, edges, s) /\ Searching(R, edges, Visit(R, edges, s))
                /\ Further(s, Visit(R, edges, s))
  <2>1. CASE IsCycle(edges, s.cycle)
    <3>1. s.cycle # <<>>
      <4>1. Len(<<>>) = 0
        OBVIOUS
      <4> QED BY <2>1, <4>1 DEF IsCycle
    <3>2. Visit(R, edges, s) = s
      BY <3>1 DEF Visit
    <3> QED BY <2>1, <3>2
  <2>2. CASE Searching(R, edges, s)
    <3> DEFINE v == Visit(R, edges, s)
    <3>1. \/ v \in SearchStates(R) /\ IsCycle(edges, v.cycle)
          \/ Searching(R, edges, v) /\ Further(s, v)
      <4> HIDE DEF D, P, step, c
      <4> QED BY <1>0, <2>2
    <3>2. Searching(R, edges, v) => v \in SearchStates(R)
      BY DEF Searching
    <3> HIDE DEF v
    <3>3. \/ v \in D /\ IsCycle(edges, v.cycle)
          \/ v \in D /\ Searching(R, edges, v) /\ Further(s, v)
      BY <3>1, <3>2
    <3> QED BY <2>2, <3>3 DEF v
  <2> QED BY <2>1, <2>2
<1>4. \A s \in D : Visit(R, edges, s) \in D
  <2> HIDE DEF D
  <2> QED BY <1>3
<1>5. step \in [1..c -> [D -> D]]
  <2> HIDE DEF D, c
  <2> QED BY <1>4
<1>6. \E f : P(f) /\ f \in [0..c -> D]
  <2>1. PICK f : Iterates(f, c, D, base, step)
    <3> HIDE DEF c, D, step
    <3> QED BY <1>1, <1>2, <1>5, Recursion
  <2>2. ASSUME NEW n \in 1..c PROVE f[n] = Visit(R, edges, f[n - 1])
    <3>1. n - 1 \in 0..c /\ f \in [0..c -> D] /\ f[n] = step[n][f[n - 1]]
      <4> HIDE DEF c, D, step
      <4> QED BY <1>1, <2>1 DEF Iterates
    <3>2. f[n - 1] \in D
      <4> HIDE DEF D, step, c
      <4> QED BY <3>1
    <3>3. step[n][f[n - 1]] = Visit(R, edges, f[n - 1])
      <4> HIDE DEF c, D
      <4> QED BY <3>2
    <3> QED BY <3>1, <3>3
  <2>3. f \in [0..c -> D] /\ f[0] = base
    BY <2>1 DEF Iterates
  <2>4. \A n \in 0..c : f[n] = IF n = 0 THEN base ELSE Visit(R, edges, f[n - 1])
    <3> HIDE DEF c
    <3>1. \A n \in 0..c : n = 0 \/ n \in 1..c
      BY <1>1
    <3> HIDE DEF D
    <3> QED BY <2>2, <2>3, <3>1
  <2> HIDE DEF D, step, c
  <2>5. P(f)
    BY <2>3, <2>4
  <2> QED BY <2>3, <2>5
<1> DEFINE f == CHOOSE g : P(g)
<1>7. P(f)
  <2> HIDE DEF P
  <2> QED BY <1>6
<1>8. FirstCycle(R, edges) = f[c].cycle
  BY DEF FirstCycle, base
<1> HIDE DEF f
<1>9. \A n \in 0..c : f[n] = IF n = 0 THEN base ELSE Visit(R, edges, f[n - 1])
  <2> HIDE DEF c
  <2> QED BY <1>7
<1> HIDE DEF P, step, c, D
<1> DEFINE Good(n) == /\ f[n] \in D
                      /\ \/ IsCycle(edges, f[n].cycle)
                         \/ Searching(R, edges, f[n]) /\ Measure(f[n]) = n
           A == {n \in 0..c : Good(n)}
<1>10. 0 \in A
  BY <1>1, <1>2, <1>9
<1>11. ASSUME NEW n \in 0..c, n \in A, n < c PROVE n + 1 \in A
  <2>1. n + 1 \in 0..c /\ n + 1 # 0 /\ (n + 1) - 1 = n
    BY <1>1, <1>11
  <2>2. f[n + 1] = Visit(R, edges, f[n])
    BY <1>9, <2>1
  <2>3. Good(n)
    BY <1>11
  <2>4. PICK s : s = f[n]
    OBVIOUS
  <2>5. PICK v : v = Visit(R, edges, s)
    OBVIOUS
  <2>6. \/ v \in D /\ IsCycle(edges, v.cycle)
        \/ v \in D /\ Searching(R, edges, s) /\ Searching(R, edges, v) /\ Further(s, v)
    BY <1>3, <2>3, <2>4, <2>5
  <2>7. ~ IsCycle(edges, v.cycle) => Measure(s) = n
    <3>1. IsCycle(edges, s.cycle) => v = s
      <4>1. Len(<<>>) = 0
        OBVIOUS
      <4> QED BY <2>5, <4>1 DEF IsCycle, Visit
    <3> QED BY <2>3, <2>4, <3>1
  <2>8. Good(n + 1)
    BY <2>2, <2>4, <2>5, <2>6, <2>7 DEF Further
  <2> QED BY <2>1, <2>8
<1>12. c \in A
  <2> HIDE DEF A
  <2>1. \A n \in 0..c : n \in A
    BY <1>1, <1>10, <1>11, UpTo
  <2>2. c \in 0..c
    BY <1>1
  <2> QED BY <2>1, <2>2
<1>13. ~ (Searching(R, edges, f[c]) /\ Measure(f[c]) = c)
  <2>1. PICK s : s = f[c]
    OBVIOUS
  <2>2. Searching(R, edges, s) => Measure(s) <= 2 * Cardinality(R)
    BY MeasureLemma
  <2>3. ~ (c <= 2 * Cardinality(R))
    BY <1>1 DEF c
  <2> QED BY <2>1, <2>2, <2>3
<1> QED BY <1>8, <1>12, <1>13

-----------------------------------------------------------------------------
(* GraphIsJudged *)

(* What the variables hold. *)
Typed ==
  /\ stage \in {"candidate", "rejected", "draft", "active"}
  /\ list \in Seq(Int \X Int) /\ effort \in [Tasks -> Nat \ {0}]
  /\ project \in Projects
  /\ status \in [Tasks -> Statuses] /\ fraction \in [Tasks -> 0..Full] /\ today \in Nat

(* The stage and the report agree with validate_graph. *)
Judged ==
  /\ stage \in {"draft", "active"} => GraphError(Tasks, list) = None
  /\ stage = "rejected" =>
       (GraphError(Tasks, list) = "DEPENDENCY_CYCLE" <=> "DEPENDENCY_CYCLE" \in issues)
  /\ "DEPENDENCY_CYCLE" \in issues =>
       /\ GraphError(Tasks, list) = "DEPENDENCY_CYCLE"
       /\ cycle = FirstCycle(Tasks \ Range(GraphOrder(Tasks, Edges)), Edges)

(* A list without one of its members. *)
LEMMA RemovedFrom ==
  ASSUME NEW S, NEW es \in Seq(S), NEW i \in DOMAIN es
  PROVE  LET r == SubSeq(es, 1, i - 1) \o SubSeq(es, i + 1, Len(es)) IN
         /\ r \in Seq(S) /\ Len(r) = Len(es) - 1
         /\ \A j \in 1..Len(r) : r[j] = es[IF j < i THEN j ELSE j + 1]
<1> DEFINE n == Len(es)
           a == SubSeq(es, 1, i - 1)
           b == SubSeq(es, i + 1, n)
           r == a \o b
<1>1. n \in Nat /\ i \in 1..n /\ \A j \in 1..n : es[j] \in S
  BY LenProperties, ElementOfSeq
<1> HIDE DEF n
<1>2. a \in Seq(S) /\ Len(a) = i - 1 /\ \A j \in 1..(i - 1) : a[j] = es[j]
  <2>1. 1 \in Int /\ i - 1 \in Int /\ \A j \in 1..(i - 1) : es[j] \in S
    BY <1>1
  <2>2. /\ a \in Seq(S)
        /\ Len(a) = IF 1 <= i - 1 THEN (i - 1) - 1 + 1 ELSE 0
        /\ \A j \in 1..((i - 1) - 1 + 1) : a[j] = es[1 + j - 1]
    BY <2>1, SubSeqProperties
  <2>3. (i - 1) - 1 + 1 = i - 1 /\ (IF 1 <= i - 1 THEN i - 1 ELSE 0) = i - 1 /\ \A j \in Int : 1 + j - 1 = j
    BY <1>1
  <2> HIDE DEF a
  <2> QED BY <2>2, <2>3
<1>3. b \in Seq(S) /\ Len(b) = n - i /\ \A j \in 1..(n - i) : b[j] = es[i + j]
  <2>1. i + 1 \in Int /\ n \in Int /\ \A j \in (i + 1)..n : es[j] \in S
    BY <1>1
  <2>2. /\ b \in Seq(S)
        /\ Len(b) = IF i + 1 <= n THEN n - (i + 1) + 1 ELSE 0
        /\ \A j \in 1..(n - (i + 1) + 1) : b[j] = es[(i + 1) + j - 1]
    BY <2>1, SubSeqProperties
  <2>3. /\ n - (i + 1) + 1 = n - i /\ (IF i + 1 <= n THEN n - i ELSE 0) = n - i
        /\ \A j \in Int : (i + 1) + j - 1 = i + j
    BY <1>1
  <2> HIDE DEF b
  <2>4. Len(b) = n - i
    BY <2>2, <2>3
  <2>5. \A j \in 1..(n - i) : b[j] = es[i + j]
    <3>1. \A j \in 1..(n - i) : b[j] = es[(i + 1) + j - 1]
      BY <2>2, <2>3
    <3>2. ASSUME NEW j \in 1..(n - i) PROVE b[j] = es[i + j]
      <4>1. j \in Int /\ (i + 1) + j - 1 = i + j
        BY <2>3
      <4>2. b[j] = es[(i + 1) + j - 1]
        BY <3>1
      <4> QED BY <4>1, <4>2
    <3> QED BY <3>2
  <2> QED BY <2>2, <2>4, <2>5
<1> HIDE DEF a, b
<1>4. /\ r \in Seq(S) /\ Len(r) = Len(a) + Len(b)
      /\ \A j \in 1..(Len(a) + Len(b)) : r[j] = IF j <= Len(a) THEN a[j] ELSE b[j - Len(a)]
  BY <1>2, <1>3, ConcatProperties
<1> HIDE DEF r
<1>5. (i - 1) + (n - i) = n - 1
  BY <1>1
<1>6. ASSUME NEW j \in 1..(n - 1) PROVE r[j] = es[IF j < i THEN j ELSE j + 1]
  <2>1. CASE j < i
    <3>1. j <= i - 1 /\ j \in 1..(i - 1)
      BY <1>1, <2>1
    <3> QED BY <1>2, <1>3, <1>4, <1>5, <2>1, <3>1
  <2>2. CASE ~ (j < i)
    <3>1. ~ (j <= i - 1) /\ j - (i - 1) \in 1..(n - i) /\ i + (j - (i - 1)) = j + 1
      BY <1>1, <2>2
    <3> QED BY <1>2, <1>3, <1>4, <1>5, <2>2, <3>1
  <2> QED BY <2>1, <2>2
<1> QED BY <1>2, <1>3, <1>4, <1>5, <1>6 DEF r, a, b, n

(* A part of a good list is good, and what has no circle has none in a part of it. *)
LEMMA StillGood ==
  ASSUME NEW tasks \in SUBSET Int, IsFiniteSet(tasks), NEW es \in Seq(Int \X Int),
         GraphError(tasks, es) = None, NEW i \in DOMAIN es
  PROVE  LET r == SubSeq(es, 1, i - 1) \o SubSeq(es, i + 1, Len(es)) IN
         r \in Seq(Int \X Int) /\ GraphError(tasks, r) = None
<1> DEFINE r == SubSeq(es, 1, i - 1) \o SubSeq(es, i + 1, Len(es))
           n == Len(es)
           Old(j) == IF j < i THEN j ELSE j + 1
<1>1. GoodList(tasks, es) /\ NoCircle(tasks, Range(es))
  BY GraphErrorLemma
<1>2. r \in Seq(Int \X Int) /\ Len(r) = n - 1 /\ \A j \in 1..(n - 1) : r[j] = es[Old(j)]
  BY RemovedFrom
<1> HIDE DEF r
<1>3. n \in Nat /\ DOMAIN es = 1..n /\ DOMAIN r = 1..(n - 1) /\ i \in 1..n
  BY <1>2, LenProperties
<1> HIDE DEF n
<1>4. \A j, k \in 1..(n - 1) : Old(j) \in 1..n /\ (Old(j) = Old(k) => j = k)
  <2>1. ASSUME NEW m \in Nat, NEW x \in 1..m, NEW j \in 1..(m - 1), NEW k \in 1..(m - 1)
        PROVE  LET O(y) == IF y < x THEN y ELSE y + 1
               IN O(j) \in 1..m /\ (O(j) = O(k) => j = k)
    OBVIOUS
  <2> QED BY <1>3, <2>1
<1> HIDE DEF Old
<1>5. GoodList(tasks, r)
  <2>1. \A j \in 1..(n - 1) : r[j] \in tasks \X tasks /\ r[j][1] # r[j][2]
    <3> TAKE j \in 1..(n - 1)
    <3>1. Old(j) \in DOMAIN es /\ r[j] = es[Old(j)]
      BY <1>2, <1>3, <1>4
    <3> QED BY <1>1, <3>1 DEF GoodList
  <2>2. ASSUME NEW j \in 1..(n - 1), NEW k \in 1..(n - 1), r[j] = r[k] PROVE j = k
    <3>1. es[Old(j)] = es[Old(k)] /\ Old(j) \in DOMAIN es /\ Old(k) \in DOMAIN es
      BY <1>2, <1>3, <1>4, <2>2
    <3> QED BY <1>1, <1>4, <3>1 DEF GoodList
  <2> QED BY <1>3, <2>1, <2>2 DEF GoodList
<1>6. Range(r) \subseteq Range(es)
  BY <1>2, <1>3, <1>4 DEF Range
<1>7. NoCircle(tasks, Range(r))
  <2>1. \A t : Preds(Range(r), t) \subseteq Preds(Range(es), t)
    BY <1>6 DEF Preds
  <2> QED BY <1>1, <2>1 DEF NoCircle
<1>8. GraphError(tasks, r) = None
  BY <1>2, <1>5, <1>7, GraphErrorLemma
<1> QED BY <1>2, <1>8 DEF r

(* Tasks are finitely many numbers. *)
LEMMA TasksLemma == Tasks \in SUBSET Int /\ IsFiniteSet(Tasks) /\ Tasks # {}
<1>1. Cardinality(Tasks) \in Nat
  BY TasksAssumption, FS_CardinalityType
<1> QED BY <1>1, TasksAssumption

(* The invariant holds where a candidate has just been proposed. *)
LEMMA InitTyped == Init => Typed /\ Judged
<1> SUFFICES ASSUME Init PROVE Typed /\ Judged
  OBVIOUS
<1>1. PICK c \in Candidates : list = c.list /\ effort = c.effort
  BY DEF Init
<1>2. list \in Seq(Int \X Int) /\ effort \in [Tasks -> Nat \ {0}]
  BY <1>1, CandidatesAssumption
<1>3. Typed
  BY <1>2, FullAssumption DEF Init, Typed, Statuses
<1>4. Judged
  BY DEF Init, Judged
<1> QED BY <1>3, <1>4

(* Every step keeps the types, and keeps the stage and the report in line with       *)
(* validate_graph: an edit that the graph check lets through leaves no error behind. *)
LEMMA NextTyped == Typed /\ Judged /\ [Next]_vars => Typed' /\ Judged'
<1> SUFFICES ASSUME Typed, Judged, [Next]_vars PROVE Typed' /\ Judged'
  OBVIOUS
<1> USE DEF Typed
<1>1. CASE JudgeCandidate
  <2> DEFINE s == ScheduleTasks(WholePlan)
             e == GraphError(Tasks, list)
  <2>1. /\ stage = "candidate" /\ list' = list /\ effort' = effort /\ project' = project
        /\ status' = status /\ fraction' = fraction /\ today' = today
        /\ stage' = IF GraphIssues = {} /\ s.outcome = "placed" THEN "draft" ELSE "rejected"
        /\ issues' = IF GraphIssues # {} THEN GraphIssues
                     ELSE IF s.outcome = "no_capacity" THEN {"NO_WORKING_CAPACITY"} ELSE {}
        /\ cycle' = CycleFound
    BY <1>1 DEF JudgeCandidate, work
  <2>2. GraphIssues = IF e = None THEN {} ELSE {e}
    BY DEF GraphIssues
  <2>3. "DEPENDENCY_CYCLE" \in issues' <=> e = "DEPENDENCY_CYCLE"
    <3> HIDE DEF s, e
    <3> QED BY <2>1, <2>2, NoneAssumption
  <2>4. "DEPENDENCY_CYCLE" \in issues' => cycle' = FirstCycle(Tasks \ Range(GraphOrder(Tasks, Edges)), Edges)
    <3> HIDE DEF s, e
    <3> QED BY <2>1, <2>2, <2>3, NoneAssumption DEF CycleFound
  <2>5. stage' = "draft" => e = None
    <3> HIDE DEF s, e
    <3> QED BY <2>1, <2>2
  <2> HIDE DEF s
  <2>6. Judged'
    BY <2>1, <2>3, <2>4, <2>5 DEF Judged, Edges
  <2> QED BY <2>1, <2>6
<1>2. CASE Validate
  <2> DEFINE s == ScheduleTasks(WholePlan)
  <2>1. /\ stage = "draft" /\ GraphError(Tasks, list) = None
        /\ UNCHANGED <<stage, list, effort, project, status, fraction, today>>
    BY <1>2 DEF Validate, work, Judged
  <2>2. GraphIssues = {}
    BY <2>1 DEF GraphIssues
  <2>3. issues' = StructuralIssues \cup ScheduleIssues(s)
    BY <1>2, <2>2 DEF Validate
  <2>4. "DEPENDENCY_CYCLE" \notin StructuralIssues
    BY DEF StructuralIssues
  <2>5. "DEPENDENCY_CYCLE" \notin ScheduleIssues(s)
    <3> HIDE DEF s
    <3> QED BY DEF ScheduleIssues
  <2> HIDE DEF s
  <2> QED BY <2>1, <2>3, <2>4, <2>5 DEF Judged
<1>3. ASSUME Edited, list' \in Seq(Int \X Int), GraphError(Tasks, list') = None, effort' \in [Tasks -> Nat \ {0}]
      PROVE  Typed' /\ Judged'
  BY <1>3 DEF Edited, Judged, work
<1>4. CASE CreateDependency
  <2>1. PICK e \in Tasks \X Tasks : EnsureGraph(Append(list, e)) /\ list' = Append(list, e)
    BY <1>4 DEF CreateDependency
  <2>2. e \in Int \X Int
    BY <2>1, TasksLemma
  <2>3. list' \in Seq(Int \X Int)
    BY <2>1, <2>2, AppendProperties
  <2>4. Edited /\ effort' = effort /\ GraphError(Tasks, list') = None
    BY <1>4, <2>1 DEF CreateDependency, EnsureGraph
  <2> QED BY <1>3, <2>3, <2>4
<1>5. CASE DeleteDependency
  <2>1. PICK i \in DOMAIN list : list' = SubSeq(list, 1, i - 1) \o SubSeq(list, i + 1, Len(list))
    BY <1>5 DEF DeleteDependency
  <2>2. Edited /\ effort' = effort /\ GraphError(Tasks, list) = None
    BY <1>5 DEF DeleteDependency, Edited, Judged
  <2>3. list' \in Seq(Int \X Int) /\ GraphError(Tasks, list') = None
    BY <2>1, <2>2, TasksLemma, StillGood
  <2> QED BY <1>3, <2>2, <2>3
<1>6. CASE UpdateEffort
  <2>1. Edited /\ list' = list /\ GraphError(Tasks, list) = None
    BY <1>6 DEF UpdateEffort, Edited, Judged
  <2>2. effort' \in [Tasks -> Nat \ {0}]
    BY <1>6, CandidatesAssumption DEF UpdateEffort
  <2> QED BY <1>3, <2>1, <2>2
<1>7. CASE ChangeProject
  BY <1>7 DEF ChangeProject, plan, work, Judged, Edges
<1>8. CASE Activate
  <2>1. \A t \in Tasks : Readiness("pending", Preds(Edges, t) = {}) \in Statuses
    BY DEF Readiness, Statuses
  <2>2. Typed'
    BY <1>8, <2>1 DEF Activate
  <2>3. Judged'
    BY <1>8 DEF Activate, Judged, Edges
  <2> QED BY <2>2, <2>3
<1>9. CASE NextDay
  BY <1>9 DEF NextDay, plan, work, Judged, Edges
<1>10. ASSUME NEW t \in Tasks, UpdateProgress(t) PROVE Typed' /\ Judged'
  <2>1. PICK f \in Reportable(t) : fraction' = [fraction EXCEPT ![t] = f]
    BY <1>10 DEF UpdateProgress
  <2>2. f \in 0..Full
    BY <2>1, FullAssumption DEF Reportable
  <2> QED BY <1>10, <2>1, <2>2 DEF UpdateProgress, plan, Judged, Edges
<1>11. ASSUME NEW t \in Tasks, NEW s \in Statuses, Transition(t, s) PROVE Typed' /\ Judged'
  <2> DEFINE moved == [status EXCEPT ![t] = s]
  <2>1. \A u \in Tasks, b \in BOOLEAN : Readiness(moved[u], b) \in Statuses
    BY DEF Readiness, Statuses
  <2>2. \A u \in Tasks : Readiness(moved[u], Preds(Edges, u) \subseteq Complete(moved)) \in Statuses
    BY DEF Readiness, Statuses
  <2>3. status' \in [Tasks -> Statuses]
    BY <1>11, <2>2 DEF Transition
  <2>4. fraction' \in [Tasks -> 0..Full]
    BY <1>11, FullAssumption DEF Transition
  <2> QED BY <1>11, <2>3, <2>4 DEF Transition, plan, Judged, Edges
<1>12. CASE UNCHANGED vars
  BY <1>12 DEF vars, plan, work, Judged, Edges
<1> QED BY <1>1, <1>2, <1>4, <1>5, <1>6, <1>7, <1>8, <1>9, <1>10, <1>11, <1>12 DEF Next

(* Cyclic is the opposite of NoCircle. *)
LEMMA CyclicLemma == \A edges : Cyclic(edges) <=> ~ NoCircle(Tasks, edges)
  BY DEF Cyclic, NoCircle

(* A list without a pair given twice has as many edges as entries. *)
LEMMA CountEdges ==
  ASSUME NEW tasks, NEW es \in Seq(Int \X Int), GoodList(tasks, es)
  PROVE  Cardinality(Range(es)) = Len(es)
<1>1. Len(es) \in Nat /\ DOMAIN es = 1..Len(es) /\ es \in [1..Len(es) -> Int \X Int]
  BY LenProperties
<1>2. es \in Bijection(1..Len(es), Range(es))
  BY <1>1 DEF Range, Bijection, Surjection, Injection, IsInjective, GoodList
<1>3. IsFiniteSet(1..Len(es)) /\ Cardinality(1..Len(es)) = Len(es)
  <2>1. PICK n : n = Len(es)
    OBVIOUS
  <2>2. n \in Nat
    BY <1>1, <2>1
  <2>3. IsFiniteSet(1..n) /\ Cardinality(1..n) = n
    BY <2>2, FS_Interval
  <2> QED BY <2>1, <2>3
<1>4. ExistsBijection(1..Len(es), Range(es))
  BY <1>2 DEF ExistsBijection
<1> QED BY <1>3, <1>4, FS_Bijection

(* What is judged has no circle, and the circle that is named is one. *)
LEMMA JudgedIsEnough == Typed /\ Judged => GraphIsJudged
<1> SUFFICES ASSUME Typed, Judged PROVE GraphIsJudged
  OBVIOUS
<1>0. list \in Seq(Int \X Int)
  BY DEF Typed
<1>1. CASE stage \in {"draft", "active"}
  <2>1. GoodList(Tasks, list) /\ NoCircle(Tasks, Edges)
    BY <1>0, <1>1, TasksLemma, GraphErrorLemma DEF Judged, Edges
  <2>2. ~ Cyclic(Edges) /\ Edges \subseteq Tasks \X Tasks /\ Cardinality(Edges) = Len(list)
    BY <1>0, <2>1, CyclicLemma, CountEdges, GoodListEdges DEF Edges
  <2>3. "DEPENDENCY_CYCLE" \notin issues
    BY <1>1, NoneAssumption DEF Judged
  <2> QED BY <1>1, <2>2, <2>3 DEF GraphIsJudged
<1>2. CASE stage \notin {"draft", "active"}
  <2>1. ASSUME stage = "rejected", EdgeError(Tasks, list) = None
        PROVE  Cyclic(Edges) <=> "DEPENDENCY_CYCLE" \in issues
    <3>1. GoodList(Tasks, list)
      BY <1>0, <2>1, EdgeErrorLemma
    <3>2. GraphError(Tasks, list) = "DEPENDENCY_CYCLE" <=> ~ NoCircle(Tasks, Edges)
      BY <1>0, <3>1, TasksLemma, GraphErrorLemma DEF Edges
    <3> QED BY <2>1, <3>2, CyclicLemma DEF Judged
  <2>2. ASSUME "DEPENDENCY_CYCLE" \in issues
        PROVE  IsCycle(Edges, cycle)
    <3> DEFINE order == GraphOrder(Tasks, Edges)
               R == Tasks \ Range(order)
    <3>1. GoodList(Tasks, list) /\ ~ NoCircle(Tasks, Edges)
      BY <1>0, <2>2, TasksLemma, GraphErrorLemma DEF Judged, Edges
    <3>2. Edges \in SUBSET (Tasks \X Tasks)
      BY <3>1, GoodListEdges DEF Edges
    <3>3. Ordered(Tasks, Edges, order) /\ Len(order) # Cardinality(Tasks)
          /\ Waiting(Tasks, Edges, Range(order)) = {}
      BY <3>1, <3>2, TasksLemma, GraphOrderLemma
    <3>4. cycle = FirstCycle(R, Edges)
      BY <2>2 DEF Judged
    <3> HIDE DEF order
    <3>5. Range(order) \subseteq Tasks /\ Range(order) # Tasks
      BY <3>3, TasksLemma, OrderedRange
    <3>6. R \in SUBSET Tasks /\ R # {} /\ R \subseteq Int /\ IsFiniteSet(R)
      <4>1. R \in SUBSET Tasks /\ R # {} /\ R \subseteq Int
        BY <3>5, TasksLemma
      <4> HIDE DEF R
      <4> QED BY <4>1, TasksLemma, FS_Subset
    <3>7. \A t \in R : Preds(Edges, t) \cap R # {}
      <4>1. \A t : Preds(Edges, t) \subseteq Tasks
        BY <3>2, EdgesLemma
      <4> QED BY <3>3, <4>1 DEF Waiting
    <3> HIDE DEF R
    <3> QED BY <3>2, <3>4, <3>6, <3>7, CycleLemma
  <2> QED BY <1>2, <2>1, <2>2 DEF GraphIsJudged, IsCycle
<1> QED BY <1>1, <1>2

(* The invariant: the types, and the verdict of validate_graph for every stage of a plan. *)
THEOREM GraphHolds == Spec => [](Typed /\ Judged)
<1>1. Init => Typed /\ Judged
  BY InitTyped
<1>2. Typed /\ Judged /\ [Next]_vars => (Typed /\ Judged)'
  BY NextTyped
<1> QED BY <1>1, <1>2, PTL DEF Spec

(* A draft or an active plan has no circle, whatever the edits; a candidate is turned   *)
(* down for a circle exactly when it has one; and the path that _first_cycle names is a *)
(* circle of the plan.                                                                  *)
THEOREM GraphJudgedHolds == Spec => []GraphIsJudged
<1>1. Typed /\ Judged => GraphIsJudged
  BY JudgedIsEnough
<1> QED BY <1>1, GraphHolds, PTL

-----------------------------------------------------------------------------
(* Scores are numbers *)

(* Without a circle every set of tasks has one that none of the set waits for. *)
LEMMA LastOfSet ==
  ASSUME NEW tasks \in SUBSET Int, IsFiniteSet(tasks), NEW edges \in SUBSET (tasks \X tasks),
         NoCircle(tasks, edges), NEW S \in SUBSET tasks, S # {}
  PROVE  \E t \in S : Succs(edges, t) \cap S = {}
<1> DEFINE zero == [t \in tasks |-> 0]
           o == TopologicalOrder(tasks, edges, zero)
           n == Len(o)
<1>1. \A t \in tasks : zero[t] \in Int
  OBVIOUS
<1>2. Ordered(tasks, edges, o) /\ Range(o) = tasks
  <2> HIDE DEF zero
  <2> QED BY <1>1, OrderOfAll
<1> HIDE DEF o
<1>3. n \in Nat /\ DOMAIN o = 1..n
  BY <1>2, OrderedRange
<1> HIDE DEF n
<1>4. \A i, j \in 1..n : o[i] = o[j] => i = j
  BY <1>2 DEF Ordered, n
<1>5. \A i \in 1..n : \A u \in Preds(edges, o[i]) : \E j \in 1..(i - 1) : o[j] = u
  BY <1>2 DEF Ordered, n
<1> DEFINE I == {i \in 1..n : o[i] \in S}
<1>6. I # {} /\ I \in SUBSET Int /\ IsFiniteSet(I)
  <2>1. I # {}
    BY <1>2, <1>3 DEF Range
  <2>2. IsFiniteSet(1..n) /\ I \in SUBSET (1..n) /\ 1..n \subseteq Int
    BY <1>3, FS_Interval
  <2> HIDE DEF I
  <2> QED BY <2>1, <2>2, FS_Subset
<1>7. PICK m : m = Max(I)
  OBVIOUS
<1>8. m \in I /\ \A i \in I : i <= m
  <2> HIDE DEF I
  <2> QED BY <1>6, <1>7, MinMax
<1>9. ASSUME NEW v \in S, v \in Succs(edges, o[m]) PROVE FALSE
  <2>1. o[m] \in Preds(edges, v)
    <3>1. PICK x : x = o[m]
      OBVIOUS
    <3> QED BY <1>9, <3>1, EdgesLemma
  <2>2. PICK k \in 1..n : o[k] = v
    BY <1>2, <1>3 DEF Range
  <2>3. PICK j \in 1..(k - 1) : o[j] = o[m]
    BY <1>5, <2>1, <2>2
  <2>4. j \in 1..n /\ m \in 1..n
    BY <1>3, <1>8
  <2>5. j = m
    BY <1>4, <2>3, <2>4
  <2>6. k <= m
    BY <1>8, <2>2
  <2> QED BY <2>3, <2>5, <2>6
<1> QED BY <1>8, <1>9

(* What comes after a task, by closed sets. *)
After(tasks, edges, t) ==
  {v \in tasks : \A S \in SUBSET tasks :
     Succs(edges, t) \subseteq S /\ (\A x \in S : Succs(edges, x) \subseteq S) => v \in S}

(* f is a solution of the recursion of _calculate_downstream. *)
Unfolds(tasks, edges, f) ==
  f = [t \in tasks |-> UNION {{u} \cup f[u] : u \in Succs(edges, t)}]

(* What comes after a task solves the recursion, so there is a solution. *)
LEMMA AfterUnfolds ==
  ASSUME NEW tasks, NEW edges \in SUBSET (tasks \X tasks)
  PROVE  Unfolds(tasks, edges, [t \in tasks |-> After(tasks, edges, t)])
<1> DEFINE f == [t \in tasks |-> After(tasks, edges, t)]
<1>1. \A t : Succs(edges, t) \subseteq tasks
  BY EdgesLemma
<1>2. ASSUME NEW t \in tasks
      PROVE  After(tasks, edges, t) = UNION {{u} \cup f[u] : u \in Succs(edges, t)}
  <2> DEFINE W == UNION {{u} \cup f[u] : u \in Succs(edges, t)}
  <2>1. \A u \in Succs(edges, t) : f[u] = After(tasks, edges, u)
    BY <1>1
  <2> HIDE DEF f
  <2>2. \A v : v \in W <=> \E u \in Succs(edges, t) : v = u \/ v \in After(tasks, edges, u)
    <3>1. \A v : v \in W <=> \E u \in Succs(edges, t) : v \in {u} \cup f[u]
      OBVIOUS
    <3> HIDE DEF W
    <3> QED BY <2>1, <3>1
  <2> HIDE DEF W
  <2>3. ASSUME NEW v, v \in W PROVE v \in After(tasks, edges, t)
    <3>1. PICK u \in Succs(edges, t) : v = u \/ v \in After(tasks, edges, u)
      BY <2>2, <2>3
    <3>2. v \in tasks
      BY <1>1, <3>1 DEF After
    <3>3. ASSUME NEW S \in SUBSET tasks, Succs(edges, t) \subseteq S, \A x \in S : Succs(edges, x) \subseteq S
          PROVE  v \in S
      <4>1. u \in S /\ Succs(edges, u) \subseteq S
        BY <3>1, <3>3
      <4> QED BY <3>1, <3>3, <4>1 DEF After
    <3> QED BY <3>2, <3>3 DEF After
  <2>4. ASSUME NEW v, v \in After(tasks, edges, t) PROVE v \in W
    <3>1. W \in SUBSET tasks
      BY <1>1, <2>2 DEF After
    <3>2. Succs(edges, t) \subseteq W
      BY <2>2
    <3>3. ASSUME NEW x \in W PROVE Succs(edges, x) \subseteq W
      <4>1. PICK u \in Succs(edges, t) : x = u \/ x \in After(tasks, edges, u)
        BY <2>2
      <4>2. Succs(edges, x) \subseteq After(tasks, edges, u)
        BY <1>1, <4>1 DEF After
      <4> QED BY <2>2, <4>1, <4>2
    <3> QED BY <2>4, <3>1, <3>2, <3>3 DEF After
  <2> QED BY <2>3, <2>4 DEF W
<1>3. f = [t \in tasks |-> UNION {{u} \cup f[u] : u \in Succs(edges, t)}]
  BY <1>2
<1> QED BY <1>3 DEF Unfolds

(* What is downstream of a task are tasks. *)
LEMMA DownstreamLemma ==
  ASSUME NEW tasks \in SUBSET Int, IsFiniteSet(tasks), NEW edges \in SUBSET (tasks \X tasks),
         NoCircle(tasks, edges), NEW t \in tasks
  PROVE  Downstream(tasks, edges)[t] \subseteq tasks
<1> DEFINE f == CHOOSE g : Unfolds(tasks, edges, g)
<1>1. Unfolds(tasks, edges, f)
  BY AfterUnfolds
<1>2. Downstream(tasks, edges) = [x \in tasks |-> f[x]]
  BY DEF Downstream, Unfolds
<1> HIDE DEF f
<1> DEFINE S == {x \in tasks : ~ (f[x] \subseteq tasks)}
<1>3. ASSUME S # {} PROVE FALSE
  <2>1. PICK x \in S : Succs(edges, x) \cap S = {}
    <3>1. S \in SUBSET tasks
      OBVIOUS
    <3> HIDE DEF S
    <3> QED BY <1>3, <3>1, LastOfSet
  <2>2. Succs(edges, x) \subseteq tasks
    BY EdgesLemma
  <2>3. \A u \in Succs(edges, x) : f[u] \subseteq tasks
    BY <2>1, <2>2
  <2>4. f[x] = UNION {{u} \cup f[u] : u \in Succs(edges, x)}
    BY <1>1, <2>1 DEF Unfolds
  <2>5. f[x] \subseteq tasks
    BY <2>2, <2>3, <2>4
  <2> QED BY <2>1, <2>5
<1> QED BY <1>2, <1>3

(* Every task has a score. *)
LEMMA ScoreLemma ==
  ASSUME NEW tasks \in SUBSET Int, IsFiniteSet(tasks), NEW edges \in SUBSET (tasks \X tasks),
         NoCircle(tasks, edges), NEW factors,
         \A t \in tasks :
           factors[t] \in [mvp_necessity : Nat, deadline_urgency : Nat, user_value : Nat,
                           risk_reduction : Nat, user_preference : Nat]
  PROVE  \A t \in tasks : Score(tasks, edges, factors)[t] \in Int
<1> TAKE t \in tasks
<1> DEFINE d == Cardinality(Downstream(tasks, edges)[t])
           m == Max({1, Cardinality(tasks) - 1})
           f == factors[t]
           sum == 30 * f.mvp_necessity + 20 * f.deadline_urgency + 15 * f.user_value
                  + 10 * f.risk_reduction + 5 * f.user_preference
<1>1. d \in Nat
  <2>1. Downstream(tasks, edges)[t] \in SUBSET tasks
    BY DownstreamLemma
  <2> QED BY <2>1, FS_Subset, FS_CardinalityType
<1>2. m \in Int /\ m >= 1
  <2>1. Cardinality(tasks) \in Nat
    BY FS_CardinalityType
  <2>2. PICK k : k = Cardinality(tasks) - 1
    OBVIOUS
  <2>3. {1, k} \in SUBSET Int /\ {1, k} # {} /\ IsFiniteSet({1, k})
    <3>1. IsFiniteSet({1}) /\ {1, k} = {1} \cup {k}
      BY FS_Singleton
    <3> QED BY <2>1, <2>2, <3>1, FS_AddElement
  <2>4. Max({1, k}) \in {1, k} /\ \A x \in {1, k} : x <= Max({1, k})
    BY <2>3, MinMax
  <2> QED BY <2>1, <2>2, <2>4
<1>3. \A a \in Int, b \in Int : b >= 1 => HalfUp(a, b) \in Int
  BY DEF HalfUp
<1>4. Centrality(tasks, edges, t) = HalfUp(10000 * d, m)
  BY DEF Centrality
<1>5. f.mvp_necessity \in Nat /\ f.deadline_urgency \in Nat /\ f.user_value \in Nat
      /\ f.risk_reduction \in Nat /\ f.user_preference \in Nat
  BY DEF f
<1>6. sum \in Int
  <2> HIDE DEF f
  <2> QED BY <1>5
<1>7. Score(tasks, edges, factors)[t] = HalfUp(100 * sum + 20 * Centrality(tasks, edges, t), 100)
  BY DEF Score
<1> HIDE DEF sum, d, m
<1>8. HalfUp(10000 * d, m) \in Int
  <2>1. 10000 * d \in Int
    BY <1>1
  <2> QED BY <1>2, <1>3, <2>1
<1>9. 100 * sum + 20 * Centrality(tasks, edges, t) \in Int
  BY <1>4, <1>6, <1>8
<1> QED BY <1>3, <1>7, <1>9

-----------------------------------------------------------------------------
(* The calendar *)

(* What a WorkCalendar may be. *)
IsCalendar(cal) ==
  cal \in [hours : [0..6 -> Nat], holidays : SUBSET Int, from : {None} \cup Int,
           to : {None} \cup Int, parallel : Nat \ {0}]

(* The project's calendar is one, scaled to the weekly capacity or not. *)
LEMMA CalendarLemma == Typed => IsCalendar(WorkCalendar)
<1> SUFFICES ASSUME Typed PROVE IsCalendar(WorkCalendar)
  OBVIOUS
<1>1. project \in [start : Nat, deadline : {None} \cup Nat, weekly : Nat, team : Nat \ {0},
                   calendar : {None} \cup [hours : [0..6 -> Nat], holidays : SUBSET Int,
                                          from : {None} \cup Int, to : {None} \cup Int,
                                          parallel : Nat \ {0}]]
  BY ProjectsAssumption DEF Typed
<1> DEFINE own == project.calendar
           team == project.team
           weekly == project.weekly
           nominal == team * SumOf(own.hours, 0..6)
           scaled == [d \in 0..6 |-> IF weekly < nominal THEN (own.hours[d] * weekly) \div nominal
                                     ELSE own.hours[d]]
<1>2. team \in Nat \ {0} /\ weekly \in Nat
  BY <1>1
<1>3. \A a \in Nat, b \in Nat : b > 0 => a \div b \in Nat
  OBVIOUS
<1>4. CASE own = None
  <2>1. WorkCalendar =
          [hours |-> [d \in 0..6 |-> IF d < 5 THEN weekly \div (team * 5) ELSE 0],
           holidays |-> {}, from |-> None, to |-> None, parallel |-> Max({1, team})]
    BY <1>4 DEF WorkCalendar
  <2> HIDE DEF team, weekly
  <2>2. team * 5 \in Nat /\ team * 5 > 0
    BY <1>2
  <2>3. weekly \div (team * 5) \in Nat
    BY <1>2, <1>3, <2>2
  <2>4. Max({1, team}) \in Nat \ {0}
    <3>1. {1, team} \in SUBSET Int /\ {1, team} # {} /\ IsFiniteSet({1, team})
      <4>1. IsFiniteSet({1}) /\ {1, team} = {1} \cup {team}
        BY FS_Singleton
      <4> QED BY <1>2, <4>1, FS_AddElement
    <3>2. Max({1, team}) \in {1, team}
      BY <3>1, MinMax
    <3> QED BY <1>2, <3>2
  <2> QED BY <2>1, <2>3, <2>4 DEF IsCalendar
<1>5. CASE own # None
  <2>1. own \in [hours : [0..6 -> Nat], holidays : SUBSET Int, from : {None} \cup Int,
                 to : {None} \cup Int, parallel : Nat \ {0}]
    BY <1>1, <1>5
  <2>2. WorkCalendar = [own EXCEPT !.hours = scaled]
    BY <1>5 DEF WorkCalendar
  <2> HIDE DEF own, team, weekly
  <2>3. \A d \in 0..6 : own.hours[d] \in Nat
    BY <2>1
  <2>4. SumOf(own.hours, 0..6) \in Nat
    <3>1. IsFiniteSet(0..6)
      <4>1. \A a, b \in Int : IsFiniteSet(a..b)
        BY FS_Interval
      <4>2. PICK a \in Int : a = 0
        OBVIOUS
      <4>3. PICK b \in Int : b = 6
        OBVIOUS
      <4>4. IsFiniteSet(a..b)
        BY <4>1
      <4> QED BY <4>2, <4>3, <4>4
    <3>2. PICK h : h = own.hours
      OBVIOUS
    <3> QED BY <2>3, <3>1, <3>2, SumLemma
  <2>5. nominal \in Nat
    <3>1. PICK k : k = SumOf(own.hours, 0..6)
      OBVIOUS
    <3> QED BY <1>2, <2>4, <3>1
  <2>6. scaled \in [0..6 -> Nat]
    <3> HIDE DEF nominal
    <3>1. \A d \in 0..6 : own.hours[d] * weekly \in Nat
      BY <1>2, <2>3
    <3>2. weekly < nominal => nominal > 0
      BY <1>2, <2>5
    <3> QED BY <1>3, <2>3, <2>5, <3>1, <3>2
  <2> HIDE DEF scaled
  <2> QED BY <2>1, <2>2, <2>6 DEF IsCalendar
<1> QED BY <1>4, <1>5

(* The next working day works, and is not before the day. *)
LEMMA NextDayLemma ==
  ASSUME NEW cal, NEW day \in Int
  PROVE  \/ NextWorkingDay(cal, day) = None
         \/ /\ NextWorkingDay(cal, day) \in Int
            /\ day <= NextWorkingDay(cal, day)
            /\ Working(cal, NextWorkingDay(cal, day))
<1> DEFINE D == {d \in day..(day + SearchLimit) : Working(cal, d)}
<1>1. CASE D = {}
  BY <1>1 DEF NextWorkingDay, SmallestOf
<1>2. CASE D # {}
  <2>1. D \in SUBSET Int /\ IsFiniteSet(D)
    <3>1. IsFiniteSet(day..(day + SearchLimit))
      BY LimitsAssumption, FS_Interval
    <3>2. D \in SUBSET (day..(day + SearchLimit)) /\ D \in SUBSET Int
      BY LimitsAssumption
    <3> HIDE DEF D
    <3> QED BY <3>1, <3>2, FS_Subset
  <2>2. NextWorkingDay(cal, day) = Min(D)
    BY <1>2 DEF NextWorkingDay, SmallestOf
  <2>3. Min(D) \in D
    <3> HIDE DEF D
    <3> QED BY <1>2, <2>1, MinMax
  <2> QED BY <2>2, <2>3, LimitsAssumption
<1> QED BY <1>1, <1>2

-----------------------------------------------------------------------------
(* Slots *)

(* What tasks may be allocated. *)
Slots(tasks) == SUBSET [task : tasks, day : Int, hours : Nat \ {0}]

(* What schedule_tasks may be given. *)
Solvable(p) ==
  /\ p.tasks \in SUBSET Int /\ IsFiniteSet(p.tasks) /\ p.tasks # {}
  /\ p.edges \in SUBSET (p.tasks \X p.tasks) /\ NoCircle(p.tasks, p.edges)
  /\ p.effort \in [p.tasks -> Nat \ {0}]
  /\ \A t \in p.tasks : p.score[t] \in Int
  /\ p.start \in Int /\ p.deadline \in {None} \cup Int
  /\ p.team \in Nat \ {0} /\ IsCalendar(p.cal)

(* The hours the team has on a day of the week. *)
RoomOn(p, day) == p.cal.hours[day % 7] * p.team

(* A working day has room, and at least one task may be worked on. *)
LEMMA RoomLemma ==
  ASSUME NEW p, Solvable(p), NEW day \in Int
  PROVE  /\ RoomOn(p, day) \in Nat
         /\ Working(p.cal, day) => RoomOn(p, day) > 0
         /\ p.cal.parallel \in Nat \ {0}
<1>1. day % 7 \in 0..6
  OBVIOUS
<1>2. PICK h : h = p.cal.hours[day % 7]
  OBVIOUS
<1>3. h \in Nat /\ p.cal.parallel \in Nat \ {0} /\ p.team \in Nat \ {0}
  BY <1>1, <1>2 DEF Solvable, IsCalendar
<1>4. \A a \in Nat, b \in Nat \ {0} : a * b \in Nat /\ (a > 0 => a * b > 0)
  OBVIOUS
<1>5. Working(p.cal, day) => h > 0
  BY <1>2 DEF Working
<1> QED BY <1>2, <1>3, <1>4, <1>5 DEF RoomOn

(* The hours of slots do not depend on the slots they are taken among. *)
LEMMA HoursLemma ==
  ASSUME NEW tasks, NEW A \in Slots(tasks), IsFiniteSet(A), NEW B \in Slots(tasks),
         NEW S, S \subseteq A, S \subseteq B
  PROVE  /\ SumOf(Hours(A), S) = SumOf(Hours(B), S)
         /\ SumOf(Hours(A), S) \in Nat
         /\ IsFiniteSet(S)
         /\ \A s \in S : Hours(A)[s] = s.hours /\ s.hours \in Nat \ {0}
<1>1. IsFiniteSet(S)
  BY FS_Subset
<1>2. \A s \in S : Hours(A)[s] = s.hours /\ Hours(B)[s] = s.hours /\ s.hours \in Nat \ {0}
  BY DEF Hours, Slots
<1>3. PICK f : f = Hours(A)
  OBVIOUS
<1>4. PICK g : g = Hours(B)
  OBVIOUS
<1>5. \A s \in S : f[s] \in Nat /\ f[s] = g[s]
  BY <1>2, <1>3, <1>4
<1>6. SumOf(f, S) = SumOf(g, S)
  BY <1>1, <1>5, SumSame
<1>7. SumOf(f, S) \in Nat
  BY <1>1, <1>5, SumLemma
<1> QED BY <1>1, <1>2, <1>3, <1>4, <1>6, <1>7

(* What slots add up to on a day is a number, and nothing where there are none. *)
LEMMA OnLemma ==
  ASSUME NEW tasks, NEW A \in Slots(tasks), IsFiniteSet(A), NEW day
  PROVE  /\ HoursOn(A, day) \in Nat
         /\ Cardinality(TasksOn(A, day)) \in Nat /\ IsFiniteSet(TasksOn(A, day))
         /\ (\A s \in A : s.day # day) => HoursOn(A, day) = 0 /\ Cardinality(TasksOn(A, day)) = 0
<1> DEFINE D == {s \in A : s.day = day}
<1>1. D \subseteq A
  OBVIOUS
<1>2. HoursOn(A, day) = SumOf(Hours(A), D) /\ TasksOn(A, day) = {s.task : s \in D}
  BY DEF HoursOn, TasksOn
<1>3. (\A s \in A : s.day # day) => D = {}
  OBVIOUS
<1> HIDE DEF D
<1>4. IsFiniteSet(D) /\ SumOf(Hours(A), D) \in Nat
  BY <1>1, HoursLemma
<1>5. IsFiniteSet(TasksOn(A, day))
  <2> DEFINE f == [s \in D |-> s.task]
             T == {s.task : s \in D}
  <2>1. f \in Surjection(D, T)
    BY DEF Surjection
  <2> HIDE DEF f, T
  <2>2. IsFiniteSet(T)
    BY <1>4, <2>1, FS_Surjection
  <2> QED BY <1>2, <2>2 DEF T
<1>6. D = {} => SumOf(Hours(A), D) = 0
  <2>1. PICK f : f = Hours(A)
    OBVIOUS
  <2>2. IsFiniteSet({})
    BY FS_EmptySet
  <2>3. SumOf(f, {}) = 0
    BY <2>2, SumLemma
  <2> QED BY <2>1, <2>3
<1>7. D = {} => Cardinality(TasksOn(A, day)) = 0
  BY <1>2, FS_EmptySet
<1> QED BY <1>2, <1>3, <1>4, <1>5, <1>6, <1>7, FS_CardinalityType

-----------------------------------------------------------------------------
(* The allocation of one task *)

(* What the allocation of t may hold between two passes. *)
AllocationStates(t) == [day : {None} \cup Int, left : Nat, got : Slots({t})]

(* A pass that has something to do takes what the day has room for; it takes nothing *)
(* only where the day has no hours or no place left.                                 *)
LEMMA PassLemma ==
  ASSUME NEW p, Solvable(p), NEW slots \in Slots(p.tasks), IsFiniteSet(slots),
         NEW t, NEW s \in AllocationStates(t), s.left # 0, s.day # None
  PROVE  \E h \in Nat :
           /\ h <= s.left
           /\ h > 0 => Open(p, slots, s.day) /\ h <= RoomOn(p, s.day) - HoursOn(slots, s.day)
           /\ h = 0 => RoomOn(p, s.day) <= HoursOn(slots, s.day) \/ ~ Open(p, slots, s.day)
           /\ WorkOn(p, slots, t, s) =
                [day |-> IF h = s.left THEN s.day ELSE NextWorkingDay(p.cal, s.day + 1),
                 left |-> s.left - h,
                 got |-> s.got \cup (IF h = 0 THEN {}
                                     ELSE {[task |-> t, day |-> s.day, hours |-> h]})]
<1> DEFINE free == RoomOn(p, s.day) - HoursOn(slots, s.day)
           h == IF free <= 0 \/ ~ Open(p, slots, s.day) THEN 0 ELSE Min({s.left, free})
<1>1. s.day \in Int /\ s.left \in Nat \ {0}
  BY DEF AllocationStates
<1>2. free \in Int
  <2>1. PICK d : d = s.day
    OBVIOUS
  <2>2. RoomOn(p, d) \in Nat /\ HoursOn(slots, d) \in Nat
    BY <1>1, <2>1, RoomLemma, OnLemma
  <2>3. PICK a : a = RoomOn(p, d)
    OBVIOUS
  <2>4. PICK b : b = HoursOn(slots, d)
    OBVIOUS
  <2> QED BY <2>1, <2>2, <2>3, <2>4
<1>3. WorkOn(p, slots, t, s) =
        [day |-> IF h = s.left THEN s.day ELSE NextWorkingDay(p.cal, s.day + 1),
         left |-> s.left - h,
         got |-> s.got \cup (IF h = 0 THEN {} ELSE {[task |-> t, day |-> s.day, hours |-> h]})]
  BY DEF WorkOn, RoomOn
<1> HIDE DEF free
<1>4. free > 0 => Min({s.left, free}) \in {s.left, free} /\ Min({s.left, free}) <= s.left
                  /\ Min({s.left, free}) <= free
  <2>1. PICK l \in Nat : l = s.left
    BY <1>1
  <2>2. {l, free} \in SUBSET Int /\ {l, free} # {} /\ IsFiniteSet({l, free})
    <3>1. IsFiniteSet({l}) /\ {l, free} = {l} \cup {free}
      BY FS_Singleton
    <3> QED BY <1>2, <3>1, FS_AddElement
  <2>3. Min({l, free}) \in {l, free} /\ \A x \in {l, free} : Min({l, free}) <= x
    BY <2>2, MinMax
  <2> QED BY <2>1, <2>3
<1>5. h \in Nat /\ h <= s.left /\ (h > 0 => Open(p, slots, s.day) /\ h <= free)
      /\ (h = 0 => free <= 0 \/ ~ Open(p, slots, s.day))
  BY <1>1, <1>2, <1>4
<1> HIDE DEF h
<1>6. free <= 0 => RoomOn(p, s.day) <= HoursOn(slots, s.day)
  <2>1. PICK d : d = s.day
    OBVIOUS
  <2>2. RoomOn(p, d) \in Nat /\ HoursOn(slots, d) \in Nat
    BY <1>1, <2>1, RoomLemma, OnLemma
  <2>3. PICK a : a = RoomOn(p, d)
    OBVIOUS
  <2>4. PICK b : b = HoursOn(slots, d)
    OBVIOUS
  <2> QED BY <2>1, <2>2, <2>3, <2>4 DEF free
<1> QED BY <1>3, <1>5, <1>6 DEF free

(* The slots before a day. *)
Passed(slots, day) == {r \in slots : r.day < day}

(* After n passes: what was taken is on days of its own, each of them has room for it, *)
(* and nothing was lost; a pass took an hour or passed a day that had slots.           *)
Allocating(p, slots, t, from, s, n) ==
  /\ s \in AllocationStates(t) /\ IsFiniteSet(s.got)
  /\ s.day # None => from <= s.day /\ Working(p.cal, s.day)
  /\ \A g \in s.got : /\ from <= g.day /\ Working(p.cal, g.day) /\ Open(p, slots, g.day)
                      /\ g.hours <= RoomOn(p, g.day) - HoursOn(slots, g.day)
  /\ \A g, h \in s.got : g.day = h.day => g = h
  /\ s.left > 0 /\ s.day # None => \A g \in s.got : g.day < s.day
  /\ SumOf(Hours(s.got), s.got) + s.left = p.effort[t]
  /\ s.left > 0 /\ s.day # None =>
       n <= (p.effort[t] - s.left) + Cardinality(Passed(slots, s.day))

(* Slots on a day that is full. *)
LEMMA FullDay ==
  ASSUME NEW p, Solvable(p), NEW slots \in Slots(p.tasks), IsFiniteSet(slots),
         NEW day \in Int, Working(p.cal, day),
         RoomOn(p, day) <= HoursOn(slots, day) \/ ~ Open(p, slots, day)
  PROVE  \E r \in slots : r.day = day
<1> SUFFICES ASSUME \A r \in slots : r.day # day PROVE FALSE
  OBVIOUS
<1>1. HoursOn(slots, day) = 0 /\ Cardinality(TasksOn(slots, day)) = 0
  BY OnLemma
<1>2. RoomOn(p, day) \in Nat /\ RoomOn(p, day) > 0 /\ p.cal.parallel \in Nat \ {0}
  BY RoomLemma
<1>3. Open(p, slots, day)
  BY <1>1, <1>2 DEF Open
<1>4. PICK a : a = RoomOn(p, day)
  OBVIOUS
<1> QED BY <1>1, <1>2, <1>3, <1>4

(* A later day has passed the slots of an earlier one, and those on it too. *)
LEMMA PassedLemma ==
  ASSUME NEW tasks, NEW slots \in Slots(tasks), IsFiniteSet(slots),
         NEW a \in Int, NEW b \in Int, a < b
  PROVE  /\ Cardinality(Passed(slots, a)) \in Nat /\ Cardinality(Passed(slots, b)) \in Nat
         /\ Cardinality(Passed(slots, a)) <= Cardinality(Passed(slots, b))
         /\ (\E r \in slots : r.day = a) =>
              Cardinality(Passed(slots, a)) + 1 <= Cardinality(Passed(slots, b))
         /\ Cardinality(Passed(slots, b)) <= Cardinality(slots)
<1> DEFINE A == Passed(slots, a)
           B == Passed(slots, b)
<1>1. \A r \in slots : r.day \in Int
  BY DEF Slots
<1>2. A \in SUBSET B /\ A \in SUBSET slots /\ B \in SUBSET slots
  BY <1>1 DEF Passed
<1>3. \A r \in slots : r.day = a => r \notin A /\ r \in B
  BY <1>1 DEF Passed
<1> HIDE DEF A, B
<1>4. IsFiniteSet(A) /\ IsFiniteSet(B) /\ Cardinality(A) \in Nat /\ Cardinality(B) \in Nat
      /\ Cardinality(A) <= Cardinality(B) /\ Cardinality(B) <= Cardinality(slots)
  BY <1>2, FS_Subset, FS_CardinalityType
<1>5. ASSUME NEW r \in slots, r.day = a PROVE Cardinality(A) + 1 <= Cardinality(B)
  <2>1. A \cup {r} \in SUBSET B /\ r \notin A
    BY <1>2, <1>3, <1>5
  <2>2. Cardinality(A \cup {r}) = Cardinality(A) + 1
    BY <1>4, <2>1, FS_AddElement
  <2>3. Cardinality(A \cup {r}) <= Cardinality(B)
    BY <1>4, <2>1, FS_Subset
  <2> QED BY <2>2, <2>3
<1> QED BY <1>4, <1>5 DEF A, B

(* A pass keeps what holds of the allocation. *)
LEMMA WorkOnLemma ==
  ASSUME NEW p, Solvable(p), NEW slots \in Slots(p.tasks), IsFiniteSet(slots),
         NEW t \in p.tasks, NEW from \in Int, NEW n \in Nat,
         NEW s, Allocating(p, slots, t, from, s, n)
  PROVE  Allocating(p, slots, t, from, WorkOn(p, slots, t, s), n + 1)
<1> DEFINE v == WorkOn(p, slots, t, s)
<1>0. s \in AllocationStates(t) /\ IsFiniteSet(s.got) /\ s.left \in Nat /\ s.got \in Slots({t})
  BY DEF Allocating, AllocationStates
<1>1. CASE s.left = 0 \/ s.day = None
  <2>1. v = s
    BY <1>1 DEF WorkOn
  <2>2. ~ (s.left > 0 /\ s.day # None)
    BY <1>0, <1>1
  <2> HIDE DEF v
  <2>3. Allocating(p, slots, t, from, s, n + 1)
    BY <2>2 DEF Allocating
  <2> QED BY <2>1, <2>3 DEF v
<1>2. CASE s.left # 0 /\ s.day # None
  <2> DEFINE d == s.day
             next == NextWorkingDay(p.cal, d + 1)
             e == p.effort[t]
             got == s.got
             left == s.left
  <2>1. /\ d \in Int /\ left \in Nat /\ left > 0 /\ got \in Slots({t}) /\ IsFiniteSet(got)
        /\ from <= d /\ Working(p.cal, d)
        /\ \A g \in got : /\ from <= g.day /\ Working(p.cal, g.day) /\ Open(p, slots, g.day)
                          /\ g.hours <= RoomOn(p, g.day) - HoursOn(slots, g.day)
        /\ \A g, h \in got : g.day = h.day => g = h
        /\ \A g \in got : g.day < d
        /\ SumOf(Hours(got), got) + left = e
        /\ n <= (e - left) + Cardinality(Passed(slots, d))
    BY <1>2 DEF Allocating, AllocationStates
  <2>2. PICK h \in Nat :
           /\ h <= left
           /\ h > 0 => Open(p, slots, d) /\ h <= RoomOn(p, d) - HoursOn(slots, d)
           /\ h = 0 => RoomOn(p, d) <= HoursOn(slots, d) \/ ~ Open(p, slots, d)
           /\ v = [day |-> IF h = left THEN d ELSE next, left |-> left - h,
                   got |-> got \cup (IF h = 0 THEN {} ELSE {[task |-> t, day |-> d, hours |-> h]})]
    BY <1>0, <1>2, PassLemma
  <2>3. next = None \/ (next \in Int /\ d + 1 <= next /\ Working(p.cal, next))
    <3>1. PICK k \in Int : k = d + 1
      BY <2>1
    <3> QED BY <3>1, NextDayLemma
  <2>4. e \in Nat \ {0}
    BY DEF Solvable
  <2>5. SumOf(Hours(got), got) \in Nat
    BY <1>0, HoursLemma
  <2>6. /\ v.day = IF h = left THEN d ELSE next
        /\ v.left = left - h
        /\ v.got = got \cup (IF h = 0 THEN {} ELSE {[task |-> t, day |-> d, hours |-> h]})
    BY <2>2
  <2> HIDE DEF v, next, d, e, got, left
  <2>7. v.left \in Nat
    BY <2>1, <2>2, <2>6
  <2>8. v.day # None => /\ v.day \in Int /\ d <= v.day /\ from <= v.day /\ Working(p.cal, v.day)
                        /\ h # left => d < v.day
    BY <2>1, <2>3, <2>6
  <2>9. v.left > 0 => h # left
    BY <2>1, <2>6
  <2> DEFINE x == [task |-> t, day |-> d, hours |-> h]
  <2>10. x.day = d /\ x.hours = h
    OBVIOUS
  <2>11. h # 0 => x \in [task : {t}, day : Int, hours : Nat \ {0}]
    BY <2>1, <2>2
  <2>12. v.got = IF h = 0 THEN got ELSE got \cup {x}
    BY <2>6
  <2> HIDE DEF x
  <2>13. v.got \in Slots({t}) /\ IsFiniteSet(v.got)
    <3>1. IsFiniteSet(got \cup {x})
      BY <2>1, FS_AddElement
    <3> QED BY <2>1, <2>11, <2>12, <3>1 DEF Slots
  <2>14. x \notin got
    <3>1. ~ (d < d)
      BY <2>1
    <3> QED BY <2>1, <2>10, <3>1
  <2>15. \A g \in v.got : /\ from <= g.day /\ Working(p.cal, g.day) /\ Open(p, slots, g.day)
                          /\ g.hours <= RoomOn(p, g.day) - HoursOn(slots, g.day)
    <3>1. h # 0 => h > 0
      OBVIOUS
    <3> QED BY <2>1, <2>2, <2>10, <2>12, <3>1
  <2>16. \A g, k \in v.got : g.day = k.day => g = k
    <3>1. \A g \in got : g.day # d
      <4>1. ~ (d < d)
        BY <2>1
      <4> QED BY <2>1, <4>1
    <3> QED BY <2>1, <2>10, <2>12, <3>1
  <2>17. v.left > 0 /\ v.day # None => \A g \in v.got : g.day < v.day
    <3>1. SUFFICES ASSUME v.left > 0, v.day # None, NEW g \in v.got PROVE g.day < v.day
      OBVIOUS
    <3>2. v.day \in Int /\ d < v.day
      BY <2>8, <2>9, <3>1
    <3>3. g = x \/ (g \in got /\ g.day \in Int)
      BY <2>1, <2>12 DEF Slots
    <3>4. PICK gd : gd = g.day
      OBVIOUS
    <3>5. gd = d \/ (gd \in Int /\ gd < d)
      BY <2>1, <2>10, <3>3, <3>4
    <3> QED BY <2>1, <3>2, <3>4, <3>5
  <2>18. SumOf(Hours(v.got), v.got) + v.left = e
    <3>1. CASE h = 0
      BY <2>1, <2>6, <2>12, <3>1
    <3>2. CASE h # 0
      <4>1. PICK w : w = v.got
        OBVIOUS
      <4>2. w = got \cup {x} /\ w \in Slots({t}) /\ IsFiniteSet(w)
        BY <2>12, <2>13, <3>2, <4>1
      <4>3. PICK f : f = Hours(w)
        OBVIOUS
      <4>4. \A y \in w : f[y] = y.hours /\ y.hours \in Nat \ {0}
        BY <4>2, <4>3, HoursLemma
      <4>5. SumOf(f, got) = SumOf(Hours(got), got)
        BY <2>1, <4>2, <4>3, HoursLemma
      <4>6. \A y \in got \cup {x} : f[y] \in Nat
        BY <4>2, <4>4
      <4>7. SumOf(f, got \cup {x}) = f[x] + SumOf(f, got)
        BY <2>1, <2>14, <4>6, SumAdd
      <4>8. f[x] = h
        BY <2>10, <4>2, <4>4
      <4>9. SumOf(Hours(v.got), v.got) = h + SumOf(Hours(got), got)
        BY <4>1, <4>2, <4>3, <4>5, <4>7, <4>8
      <4> QED BY <2>1, <2>5, <2>6, <4>9
    <3> QED BY <3>1, <3>2
  <2>19. v.left > 0 /\ v.day # None =>
           n + 1 <= (e - v.left) + Cardinality(Passed(slots, v.day))
    <3>1. SUFFICES ASSUME v.left > 0, v.day # None
                   PROVE  n + 1 <= (e - v.left) + Cardinality(Passed(slots, v.day))
      OBVIOUS
    <3>2. PICK vd \in Int : vd = v.day
      BY <2>8, <3>1
    <3>3. d < vd
      BY <2>8, <2>9, <3>1, <3>2
    <3> DEFINE a == Cardinality(Passed(slots, d))
               b == Cardinality(Passed(slots, vd))
    <3>4. a \in Nat /\ b \in Nat /\ a <= b
      BY <2>1, <3>3, PassedLemma
    <3>5. h = 0 => a + 1 <= b
      <4>1. h = 0 => \E r \in slots : r.day = d
        BY <2>1, <2>2, FullDay
      <4> QED BY <2>1, <3>3, <4>1, PassedLemma
    <3>6. n <= (e - left) + a
      BY <2>1
    <3> HIDE DEF a, b
    <3>7. n + 1 <= (e - (left - h)) + b
      BY <2>1, <2>2, <2>4, <3>4, <3>5, <3>6
    <3> QED BY <2>6, <3>2, <3>7 DEF b
  <2>20. v \in AllocationStates(t)
    <3>1. v = [day |-> v.day, left |-> v.left, got |-> v.got]
      BY <2>2
    <3> QED BY <2>7, <2>8, <2>13, <3>1 DEF AllocationStates
  <2>21. Allocating(p, slots, t, from, v, n + 1)
    BY <2>8, <2>13, <2>15, <2>16, <2>17, <2>18, <2>19, <2>20 DEF Allocating, e
  <2> QED BY <2>21 DEF v
<1> QED BY <1>1, <1>2

(* A pass stays among the states. *)
LEMMA WorkOnStays ==
  ASSUME NEW p, Solvable(p), NEW slots \in Slots(p.tasks), IsFiniteSet(slots),
         NEW t, NEW s \in AllocationStates(t)
  PROVE  WorkOn(p, slots, t, s) \in AllocationStates(t)
<1>1. CASE s.left = 0 \/ s.day = None
  <2>1. WorkOn(p, slots, t, s) = s
    BY <1>1 DEF WorkOn
  <2> QED BY <2>1
<1>2. CASE s.left # 0 /\ s.day # None
  <2> DEFINE next == NextWorkingDay(p.cal, s.day + 1)
             v == WorkOn(p, slots, t, s)
  <2>1. s.day \in Int /\ s.left \in Nat /\ s.got \in Slots({t})
    BY <1>2 DEF AllocationStates
  <2>2. next \in {None} \cup Int
    <3>1. PICK k \in Int : k = s.day + 1
      BY <2>1
    <3> QED BY <3>1, NextDayLemma
  <2> HIDE DEF next
  <2>3. PICK h \in Nat :
           /\ h <= s.left
           /\ v = [day |-> IF h = s.left THEN s.day ELSE next, left |-> s.left - h,
                   got |-> s.got \cup (IF h = 0 THEN {}
                                       ELSE {[task |-> t, day |-> s.day, hours |-> h]})]
    <3> HIDE DEF v
    <3> QED BY <1>2, PassLemma DEF v, next
  <2> HIDE DEF v
  <2>4. s.got \cup (IF h = 0 THEN {} ELSE {[task |-> t, day |-> s.day, hours |-> h]}) \in Slots({t})
    BY <2>1 DEF Slots
  <2>5. s.left - h \in Nat
    BY <2>1, <2>3
  <2>6. (IF h = s.left THEN s.day ELSE next) \in {None} \cup Int
    BY <2>1, <2>2
  <2>7. v \in AllocationStates(t)
    BY <2>3, <2>4, <2>5, <2>6 DEF AllocationStates
  <2> QED BY <2>7 DEF v
<1> QED BY <1>1, <1>2

(* The passes are enough: the allocation ends with nothing left or with no day. *)
LEMMA AllocateLemma ==
  ASSUME NEW p, Solvable(p), NEW slots \in Slots(p.tasks), IsFiniteSet(slots),
         NEW t \in p.tasks, NEW from \in Int
  PROVE  \E n \in Nat : /\ Allocating(p, slots, t, from, Allocate(p, slots, t, from), n)
                        /\ Allocate(p, slots, t, from).day # None =>
                             Allocate(p, slots, t, from).left = 0
<1> DEFINE e == p.effort[t]
           c == e + Cardinality(slots)
           D == AllocationStates(t)
           W(s) == WorkOn(p, slots, t, s)
           base == [day |-> NextWorkingDay(p.cal, from), left |-> e, got |-> {}]
           step == [i \in 1..c |-> [s \in D |-> W(s)]]
           P(f) == f = [n \in 0..c |-> IF n = 0 THEN base ELSE W(f[n - 1])]
<1>1. e \in Nat \ {0} /\ Cardinality(slots) \in Nat
  BY FS_CardinalityType DEF Solvable
<1>2. c \in Nat
  BY <1>1
<1>3. /\ base \in D /\ base.left = e /\ base.got = {}
      /\ base.day # None => from <= base.day /\ Working(p.cal, base.day) /\ base.day \in Int
  <2>1. NextWorkingDay(p.cal, from) \in {None} \cup Int
    BY NextDayLemma
  <2>2. {} \in Slots({t})
    BY DEF Slots
  <2> QED BY <1>1, <2>1, <2>2, NextDayLemma DEF AllocationStates
<1>4. \A s \in D : W(s) \in D
  BY WorkOnStays
<1> HIDE DEF base
<1>5. Allocating(p, slots, t, from, base, 0)
  <2>1. IsFiniteSet({})
    BY FS_EmptySet
  <2>2. SumOf(Hours({}), {}) = 0
    <3>1. PICK f : f = Hours({})
      OBVIOUS
    <3> QED BY <2>1, <3>1, SumLemma
  <2>3. base.day # None => Cardinality(Passed(slots, base.day)) \in Nat
    <3>1. Passed(slots, base.day) \in SUBSET slots
      BY DEF Passed
    <3> QED BY <3>1, FS_Subset, FS_CardinalityType
  <2>4. base.day # None => 0 <= (e - e) + Cardinality(Passed(slots, base.day))
    <3>1. PICK k : k = Cardinality(Passed(slots, base.day))
      OBVIOUS
    <3> QED BY <1>1, <2>3, <3>1
  <2> HIDE DEF e
  <2>5. 0 + e = e
    BY <1>1
  <2> QED BY <1>3, <2>1, <2>2, <2>4, <2>5 DEF Allocating, e
<1> HIDE DEF D, W, c
<1>6. step \in [1..c -> [D -> D]]
  BY <1>4
<1>7. \E f : P(f)
  <2>1. PICK f : Iterates(f, c, D, base, step)
    <3> HIDE DEF step
    <3> QED BY <1>2, <1>3, <1>6, Recursion
  <2>2. f \in [0..c -> D] /\ f[0] = base
    BY <2>1 DEF Iterates
  <2>3. ASSUME NEW n \in 1..c PROVE f[n] = W(f[n - 1])
    <3>1. n - 1 \in 0..c /\ f[n] = step[n][f[n - 1]]
      <4> HIDE DEF step
      <4> QED BY <1>2, <2>1 DEF Iterates
    <3>2. f[n - 1] \in D
      <4> HIDE DEF step
      <4> QED BY <2>2, <3>1
    <3> QED BY <3>1, <3>2
  <2> HIDE DEF step
  <2>4. \A n \in 0..c : n = 0 \/ n \in 1..c
    BY <1>2
  <2>5. P(f)
    BY <2>2, <2>3, <2>4
  <2> QED BY <2>5
<1> DEFINE f == CHOOSE g : P(g)
<1>8. P(f)
  <2> HIDE DEF P
  <2> QED BY <1>7
<1>9. Allocate(p, slots, t, from) = f[c]
  BY DEF Allocate, base, W, c
<1> HIDE DEF f
<1>10. \A n \in 0..c : f[n] = IF n = 0 THEN base ELSE W(f[n - 1])
  BY <1>8
<1> HIDE DEF P, step
<1> DEFINE A == {n \in 0..c : Allocating(p, slots, t, from, f[n], n)}
<1>11. 0 \in A
  BY <1>2, <1>5, <1>10
<1>12. ASSUME NEW n \in 0..c, n \in A, n < c PROVE n + 1 \in A
  <2>1. n + 1 \in 0..c /\ n + 1 # 0 /\ (n + 1) - 1 = n /\ n \in Nat
    BY <1>2, <1>12
  <2>2. f[n + 1] = W(f[n])
    BY <1>10, <2>1
  <2>3. PICK s : s = f[n]
    OBVIOUS
  <2>4. Allocating(p, slots, t, from, s, n)
    BY <1>12, <2>3
  <2>5. Allocating(p, slots, t, from, W(s), n + 1)
    BY <2>1, <2>4, WorkOnLemma DEF W
  <2> QED BY <2>1, <2>2, <2>3, <2>5
<1>13. Allocating(p, slots, t, from, f[c], c)
  <2>1. c \in 0..c
    BY <1>2
  <2>2. \A n \in 0..c : n \in A
    <3> HIDE DEF A
    <3> QED BY <1>2, <1>11, <1>12, UpTo
  <2> QED BY <2>1, <2>2
<1>14. PICK a : a = f[c]
  OBVIOUS
<1>15. a.left \in Nat /\ a.day \in {None} \cup Int
  BY <1>13, <1>14 DEF Allocating, AllocationStates
<1>16. ASSUME a.day # None, a.left # 0 PROVE FALSE
  <2>1. a.left > 0 /\ a.left \in Nat /\ a.day \in Int
    BY <1>15, <1>16
  <2>2. c <= (e - a.left) + Cardinality(Passed(slots, a.day))
    BY <1>13, <1>14, <1>16, <2>1 DEF Allocating
  <2>3. Passed(slots, a.day) \in SUBSET slots
    BY DEF Passed
  <2>4. Cardinality(Passed(slots, a.day)) \in Nat /\ Cardinality(Passed(slots, a.day)) <= Cardinality(slots)
    BY <2>3, FS_Subset, FS_CardinalityType
  <2>5. PICK k : k = Cardinality(Passed(slots, a.day))
    OBVIOUS
  <2>6. PICK m : m = Cardinality(slots)
    OBVIOUS
  <2>7. e + m <= (e - a.left) + k
    BY <2>2, <2>5, <2>6 DEF c
  <2> HIDE DEF e
  <2> QED BY <1>1, <2>1, <2>4, <2>5, <2>6, <2>7
<1> QED BY <1>2, <1>9, <1>13, <1>14, <1>16

-----------------------------------------------------------------------------
(* The placement *)

(* A task's slots. *)
SlotsOf(slots, t) == {r \in slots : r.task = t}

(* The tasks of done have all their hours, in order, on days that have room. *)
WellPlaced(p, slots, done) ==
  /\ slots \in Slots(done) /\ IsFiniteSet(slots)
  /\ \A s \in slots : p.start <= s.day /\ Working(p.cal, s.day)
  /\ \A d \in Int : /\ HoursOn(slots, d) <= RoomOn(p, d)
                    /\ Cardinality(TasksOn(slots, d)) <= p.cal.parallel
  /\ \A t \in done : SumOf(Hours(slots), SlotsOf(slots, t)) = p.effort[t]
  /\ \A t \in done : \A u \in Preds(p.edges, t) :
       u \in done /\ \A r \in SlotsOf(slots, u), s \in SlotsOf(slots, t) : r.day < s.day

(* The days of some slots. *)
LEMMA DaysLemma ==
  ASSUME NEW tasks, NEW A \in Slots(tasks), IsFiniteSet(A)
  PROVE  LET D == {s.day : s \in A} IN
         /\ D \in SUBSET Int /\ IsFiniteSet(D)
         /\ A # {} => /\ Min(D) \in D /\ \A s \in A : Min(D) <= s.day
                      /\ Max(D) \in D /\ \A s \in A : s.day <= Max(D)
<1> DEFINE D == {s.day : s \in A}
           f == [s \in A |-> s.day]
<1>1. D \in SUBSET Int
  BY DEF Slots
<1>2. f \in Surjection(A, D)
  BY DEF Surjection
<1>3. \A s \in A : s.day \in D
  OBVIOUS
<1> HIDE DEF f, D
<1>4. IsFiniteSet(D)
  BY <1>2, FS_Surjection
<1>5. D # {} => /\ Min(D) \in D /\ \A x \in D : Min(D) <= x
                /\ Max(D) \in D /\ \A x \in D : x <= Max(D)
  BY <1>1, <1>4, MinMax
<1>6. A # {} => D # {}
  BY <1>3
<1> QED BY <1>1, <1>3, <1>4, <1>5, <1>6 DEF D

(* A task with hours has slots, from its start to its finish. *)
LEMMA SlotsOfLemma ==
  ASSUME NEW tasks, NEW slots \in Slots(tasks), IsFiniteSet(slots), NEW t, NEW e \in Nat \ {0},
         SumOf(Hours(slots), SlotsOf(slots, t)) = e
  PROVE  /\ SlotsOf(slots, t) # {}
         /\ Starts(slots, t) \in {s.day : s \in SlotsOf(slots, t)}
         /\ Finishes(slots, t) \in {s.day : s \in SlotsOf(slots, t)}
         /\ Starts(slots, t) \in Int /\ Finishes(slots, t) \in Int
         /\ \A s \in SlotsOf(slots, t) : Starts(slots, t) <= s.day /\ s.day <= Finishes(slots, t)
<1> DEFINE S == SlotsOf(slots, t)
<1>1. S \in Slots(tasks) /\ S \in SUBSET slots
  BY DEF Slots, SlotsOf
<1>2. Starts(slots, t) = Min({s.day : s \in S}) /\ Finishes(slots, t) = Max({s.day : s \in S})
  BY DEF Starts, Finishes, SlotsOf
<1> HIDE DEF S
<1>3. IsFiniteSet(S)
  BY <1>1, FS_Subset
<1>4. S # {}
  <2>1. SUFFICES ASSUME S = {} PROVE FALSE
    OBVIOUS
  <2>2. PICK f : f = Hours(slots)
    OBVIOUS
  <2>3. SumOf(f, S) = 0
    BY <1>3, <2>1, SumLemma
  <2> QED BY <2>2, <2>3 DEF S
<1>5. LET D == {s.day : s \in S} IN
      /\ D \in SUBSET Int /\ IsFiniteSet(D)
      /\ Min(D) \in D /\ \A s \in S : Min(D) <= s.day
      /\ Max(D) \in D /\ \A s \in S : s.day <= Max(D)
  BY <1>1, <1>3, <1>4, DaysLemma
<1> QED BY <1>2, <1>4, <1>5 DEF S

(* What an allocation adds to a day. *)
LEMMA AddedHours ==
  ASSUME NEW p, Solvable(p), NEW done \in SUBSET p.tasks, NEW t \in p.tasks \ done,
         NEW slots, WellPlaced(p, slots, done), NEW from \in Int, NEW n,
         NEW a, Allocating(p, slots, t, from, a, n), NEW d \in Int
  PROVE  /\ HoursOn(slots \cup a.got, d) <= RoomOn(p, d)
         /\ Cardinality(TasksOn(slots \cup a.got, d)) <= p.cal.parallel
<1> DEFINE got == a.got
           both == slots \cup got
           T == done \cup {t}
           D == {s \in slots : s.day = d}
           G == {g \in got : g.day = d}
<1>1. /\ slots \in Slots(T) /\ got \in Slots(T) /\ both \in Slots(T)
      /\ slots \in Slots(done) /\ got \in Slots({t}) /\ slots \in Slots(p.tasks)
  BY DEF WellPlaced, Allocating, AllocationStates, Slots
<1>2. IsFiniteSet(slots) /\ IsFiniteSet(got)
  BY DEF WellPlaced, Allocating
<1>3. IsFiniteSet(both)
  BY <1>2, FS_Union
<1>4. D \cap G = {} /\ {s \in both : s.day = d} = D \cup G /\ D \subseteq slots /\ G \subseteq got
  BY <1>1 DEF Slots
<1>5. /\ HoursOn(slots, d) <= RoomOn(p, d) /\ Cardinality(TasksOn(slots, d)) <= p.cal.parallel
      /\ HoursOn(slots, d) \in Nat /\ Cardinality(TasksOn(slots, d)) \in Nat
      /\ IsFiniteSet(TasksOn(slots, d))
  <2>1. HoursOn(slots, d) <= RoomOn(p, d) /\ Cardinality(TasksOn(slots, d)) <= p.cal.parallel
    BY DEF WellPlaced
  <2> QED BY <1>1, <1>2, <2>1, OnLemma
<1>6. HoursOn(slots, d) = SumOf(Hours(slots), D) /\ HoursOn(both, d) = SumOf(Hours(both), D \cup G)
  <2> HIDE DEF both, D, G
  <2> QED BY <1>4 DEF HoursOn, D
<1>7. TasksOn(both, d) = {s.task : s \in D \cup G} /\ TasksOn(slots, d) = {s.task : s \in D}
  <2> HIDE DEF both, D, G
  <2> QED BY <1>4 DEF TasksOn, D
<1>8. \A g \in G : g.task = t /\ g.hours <= RoomOn(p, d) - HoursOn(slots, d) /\ Open(p, slots, d)
  BY <1>1 DEF Allocating, Slots
<1>9. \A g, h \in G : g = h
  BY DEF Allocating
<1>10. RoomOn(p, d) \in Nat /\ p.cal.parallel \in Nat
  BY RoomLemma
<1> HIDE DEF D, G, both, got
<1>11. SumOf(Hours(both), D) = HoursOn(slots, d)
  <2>1. D \subseteq both /\ D \subseteq slots
    BY <1>4 DEF both
  <2>2. SumOf(Hours(both), D) = SumOf(Hours(slots), D)
    BY <1>1, <1>3, <2>1, HoursLemma
  <2> QED BY <1>6, <2>2
<1>12. CASE G = {}
  <2>1. D \cup G = D
    BY <1>12
  <2> QED BY <1>5, <1>6, <1>7, <1>11, <2>1 DEF both, got
<1>13. CASE G # {}
  <2>1. PICK g : G = {g}
    BY <1>9, <1>13
  <2>2. g \notin D /\ g \in G /\ D \cup {g} \subseteq both
    BY <1>4, <2>1 DEF both
  <2>3. PICK f : f = Hours(both)
    OBVIOUS
  <2>4. IsFiniteSet(D) /\ \A x \in D \cup {g} : f[x] = x.hours /\ f[x] \in Nat
    <3>1. \A x \in D \cup {g} : f[x] = x.hours /\ x.hours \in Nat
      BY <1>1, <1>3, <2>2, <2>3, HoursLemma
    <3>2. IsFiniteSet(D)
      BY <1>2, <1>4, FS_Subset
    <3> QED BY <3>1, <3>2
  <2>5. SumOf(f, D \cup {g}) = f[g] + SumOf(f, D)
    BY <2>2, <2>4, SumAdd
  <2>6. HoursOn(both, d) = g.hours + HoursOn(slots, d) /\ g.hours \in Nat
    BY <1>6, <1>11, <2>1, <2>3, <2>4, <2>5
  <2>7. HoursOn(both, d) <= RoomOn(p, d)
    <3>1. g.hours <= RoomOn(p, d) - HoursOn(slots, d)
      BY <1>8, <2>1
    <3>2. \A x, y, z \in Nat : x <= y - z => x + z <= y
      OBVIOUS
    <3> QED BY <1>5, <1>10, <2>6, <3>1, <3>2
  <2>8. TasksOn(both, d) = TasksOn(slots, d) \cup {t}
    BY <1>7, <1>8, <2>1
  <2>9. Cardinality(TasksOn(slots, d) \cup {t}) <= Cardinality(TasksOn(slots, d)) + 1
    <3>1. Cardinality(TasksOn(slots, d) \cup {t}) =
            IF t \in TasksOn(slots, d) THEN Cardinality(TasksOn(slots, d))
            ELSE Cardinality(TasksOn(slots, d)) + 1
      BY <1>5, FS_AddElement
    <3> QED BY <1>5, <3>1
  <2>10. Cardinality(TasksOn(slots, d)) < p.cal.parallel
    BY <1>8, <2>1 DEF Open
  <2>11. Cardinality(TasksOn(both, d)) <= p.cal.parallel
    <3>1. Cardinality(TasksOn(slots, d) \cup {t}) \in Nat
      <4>1. IsFiniteSet(TasksOn(slots, d) \cup {t})
        BY <1>5, FS_AddElement
      <4> QED BY <4>1, FS_CardinalityType
    <3>2. \A x, y, z \in Nat : x <= y + 1 /\ y < z => x <= z
      OBVIOUS
    <3> QED BY <1>5, <1>10, <2>8, <2>9, <2>10, <3>1, <3>2
  <2> QED BY <2>7, <2>11 DEF both, got
<1> QED BY <1>12, <1>13

(* What the placement may hold between two tasks. *)
Before(p) == [slots : Slots(p.tasks), failed : {None} \cup p.tasks]

(* A task after its predecessors: there is no capacity for it or it is well placed. *)
LEMMA PlaceLemma ==
  ASSUME NEW p, Solvable(p), NEW done \in SUBSET p.tasks, NEW t \in p.tasks \ done,
         Preds(p.edges, t) \subseteq done,
         NEW b \in Before(p), b.failed = None, WellPlaced(p, b.slots, done)
  PROVE  LET v == Place(p, b, t) IN
         v \in Before(p) /\ (v.failed = None => WellPlaced(p, v.slots, done \cup {t}))
<1> DEFINE slots == b.slots
           ends == {Finishes(slots, u) : u \in Preds(p.edges, t)}
           from == ReadyOn(p, ends)
           a == Allocate(p, slots, t, from)
           v == Place(p, b, t)
           new == slots \cup a.got
           E(u) == p.effort[u]
<1>1. /\ slots \in Slots(done) /\ slots \in Slots(p.tasks) /\ IsFiniteSet(slots)
      /\ p.start \in Int /\ \A u \in p.tasks : E(u) \in Nat \ {0}
  BY DEF WellPlaced, Slots, Solvable
<1>2. \A u \in done :
        /\ Finishes(slots, u) \in Int /\ p.start <= Finishes(slots, u)
        /\ \A s \in SlotsOf(slots, u) : s.day <= Finishes(slots, u)
  <2> TAKE u \in done
  <2>1. SumOf(Hours(slots), SlotsOf(slots, u)) = E(u)
    BY DEF WellPlaced
  <2>2. E(u) \in Nat \ {0}
    BY <1>1
  <2> HIDE DEF slots, E
  <2>3. /\ Finishes(slots, u) \in {s.day : s \in SlotsOf(slots, u)}
        /\ Finishes(slots, u) \in Int
        /\ \A s \in SlotsOf(slots, u) : s.day <= Finishes(slots, u)
    BY <1>1, <2>1, <2>2, SlotsOfLemma
  <2>4. \A s \in SlotsOf(slots, u) : p.start <= s.day
    BY DEF WellPlaced, SlotsOf, slots
  <2> QED BY <2>3, <2>4
<1>3. from \in Int /\ p.start <= from /\ \A u \in Preds(p.edges, t) : Finishes(slots, u) < from
  <2>1. ends \in SUBSET Int /\ IsFiniteSet(ends)
    <3>1. Preds(p.edges, t) \in SUBSET p.tasks
      BY EdgesLemma DEF Solvable
    <3>2. IsFiniteSet(Preds(p.edges, t))
      BY <3>1, FS_Subset DEF Solvable
    <3> DEFINE f == [u \in Preds(p.edges, t) |-> Finishes(slots, u)]
    <3>3. f \in Surjection(Preds(p.edges, t), ends)
      BY DEF Surjection
    <3>4. ends \in SUBSET Int
      BY <1>2
    <3> HIDE DEF f, ends
    <3> QED BY <3>2, <3>3, <3>4, FS_Surjection
  <2>2. \A u \in Preds(p.edges, t) : Finishes(slots, u) \in ends
    OBVIOUS
  <2>3. \A x \in ends : p.start <= x
    BY <1>2
  <2>4. from = IF ends = {} THEN p.start ELSE Max(ends) + 1
    BY DEF ReadyOn
  <2> HIDE DEF ends, from
  <2>5. CASE ends = {}
    BY <1>1, <2>2, <2>4, <2>5
  <2>6. CASE ends # {}
    <3>1. Max(ends) \in ends /\ \A x \in ends : x <= Max(ends)
      BY <2>1, <2>6, MinMax
    <3>2. Max(ends) \in Int /\ p.start <= Max(ends) /\ from = Max(ends) + 1
      BY <2>1, <2>3, <2>4, <2>6, <3>1
    <3>3. p.start <= from /\ from \in Int
      BY <1>1, <3>2
    <3>4. ASSUME NEW u \in Preds(p.edges, t) PROVE Finishes(slots, u) < from
      <4>1. PICK x : x = Finishes(slots, u)
        OBVIOUS
      <4>2. x \in Int /\ x <= Max(ends)
        BY <2>1, <2>2, <3>1, <4>1
      <4> QED BY <3>2, <4>1, <4>2
    <3> QED BY <3>3, <3>4
  <2> QED BY <2>5, <2>6
<1>4. PICK n \in Nat : Allocating(p, slots, t, from, a, n) /\ (a.day # None => a.left = 0)
  <2> HIDE DEF from, slots
  <2> QED BY <1>1, <1>3, AllocateLemma
<1>5. v = IF a.day = None THEN [b EXCEPT !.failed = t] ELSE [b EXCEPT !.slots = @ \cup a.got]
  BY DEF Place
<1> HIDE DEF a, from
<1>6. CASE a.day = None
  <2>1. v.failed = t
    BY <1>5, <1>6 DEF Before
  <2>2. t # None
    BY NoneAssumption DEF Solvable
  <2>3. v \in Before(p)
    BY <1>5, <1>6 DEF Before
  <2> QED BY <2>1, <2>2, <2>3
<1>7. CASE a.day # None
  <2> DEFINE got == a.got
             T == done \cup {t}
  <2>1. v.slots = new
    BY <1>5, <1>7 DEF Before
  <2>2. got \in Slots({t}) /\ IsFiniteSet(got) /\ \A g \in got : from <= g.day /\ Working(p.cal, g.day)
    BY <1>4 DEF Allocating, AllocationStates
  <2>3. SumOf(Hours(got), got) = E(t)
    <3>1. SumOf(Hours(got), got) + a.left = E(t) /\ a.left = 0
      BY <1>4, <1>7 DEF Allocating
    <3>2. SumOf(Hours(got), got) \in Nat
      <4> HIDE DEF got
      <4> QED BY <2>2, HoursLemma
    <3> QED BY <3>1, <3>2
  <2>4. \A d \in Int : HoursOn(new, d) <= RoomOn(p, d) /\ Cardinality(TasksOn(new, d)) <= p.cal.parallel
    <3> TAKE d \in Int
    <3> QED BY <1>3, <1>4, AddedHours
  <2>5. new = slots \cup got
    OBVIOUS
  <2> HIDE DEF new, got, slots, E, v
  <2>6. new \in Slots(T) /\ IsFiniteSet(new)
    <3>1. IsFiniteSet(new)
      BY <1>1, <2>2, <2>5, FS_Union
    <3> QED BY <1>1, <2>2, <2>5, <3>1 DEF Slots
  <2>7. \A s \in new : p.start <= s.day /\ Working(p.cal, s.day)
    <3>1. ASSUME NEW g \in got PROVE p.start <= g.day
      <4>1. PICK d : d = g.day
        OBVIOUS
      <4>2. d \in Int /\ from <= d
        BY <2>2, <4>1 DEF Slots
      <4> QED BY <1>1, <1>3, <4>1, <4>2
    <3>2. \A s \in slots : p.start <= s.day /\ Working(p.cal, s.day)
      BY DEF WellPlaced, slots
    <3> QED BY <2>2, <2>5, <3>1, <3>2
  <2>8. (\A u \in done : SlotsOf(new, u) = SlotsOf(slots, u)) /\ SlotsOf(new, t) = got
    BY <1>1, <2>2, <2>5 DEF SlotsOf, Slots
  <2>9. \A u \in T : SumOf(Hours(new), SlotsOf(new, u)) = E(u)
    <3>1. ASSUME NEW u \in done PROVE SumOf(Hours(new), SlotsOf(new, u)) = E(u)
      <4>1. SlotsOf(new, u) \subseteq new /\ SlotsOf(new, u) \subseteq slots
        BY <2>8 DEF SlotsOf
      <4>2. SumOf(Hours(new), SlotsOf(new, u)) = SumOf(Hours(slots), SlotsOf(new, u))
        <5>1. slots \in Slots(T)
          BY <1>1 DEF Slots
        <5> QED BY <2>6, <4>1, <5>1, HoursLemma
      <4>3. SumOf(Hours(slots), SlotsOf(slots, u)) = E(u)
        BY DEF WellPlaced, slots, E
      <4> QED BY <2>8, <4>2, <4>3
    <3>2. SumOf(Hours(new), got) = E(t)
      <4>1. got \in Slots(T) /\ got \subseteq new
        BY <2>2, <2>5 DEF Slots
      <4>2. SumOf(Hours(new), got) = SumOf(Hours(got), got)
        BY <2>6, <4>1, HoursLemma
      <4> QED BY <2>3, <4>2
    <3> QED BY <2>8, <3>1, <3>2
  <2>10. ASSUME NEW w \in T, NEW u \in Preds(p.edges, w)
         PROVE  u \in T /\ \A r \in SlotsOf(new, u), s \in SlotsOf(new, w) : r.day < s.day
    <3>1. CASE w \in done
      <4>1. u \in done /\ \A r \in SlotsOf(slots, u), s \in SlotsOf(slots, w) : r.day < s.day
        BY <3>1 DEF WellPlaced, slots
      <4> QED BY <2>8, <3>1, <4>1
    <3>2. CASE w = t
      <4>1. u \in done /\ u \in Preds(p.edges, t)
        BY <3>2
      <4>2. ASSUME NEW r \in SlotsOf(new, u), NEW s \in SlotsOf(new, t) PROVE r.day < s.day
        <5>1. r \in SlotsOf(slots, u) /\ s \in got
          BY <2>8, <4>1, <4>2
        <5>2. PICK x : x = r.day
          OBVIOUS
        <5>3. PICK y : y = s.day
          OBVIOUS
        <5>4. PICK f : f = Finishes(slots, u)
          OBVIOUS
        <5>5. x \in Int /\ y \in Int
          BY <1>1, <2>2, <5>1, <5>2, <5>3 DEF Slots, SlotsOf
        <5>6. x <= f /\ f \in Int
          BY <1>2, <4>1, <5>1, <5>2, <5>4
        <5>7. f < from /\ from <= y
          BY <1>3, <2>2, <4>1, <5>1, <5>3, <5>4
        <5> QED BY <1>3, <5>2, <5>3, <5>5, <5>6, <5>7
      <4> QED BY <3>2, <4>1, <4>2
    <3> QED BY <3>1, <3>2
  <2>11. WellPlaced(p, new, T)
    BY <2>4, <2>6, <2>7, <2>9, <2>10 DEF WellPlaced, E
  <2>12. new \in Slots(p.tasks)
    BY <2>6 DEF Slots
  <2>13. v \in Before(p)
    <3>1. v = [b EXCEPT !.slots = @ \cup got]
      BY <1>5, <1>7 DEF got
    <3> QED BY <2>5, <2>12, <3>1 DEF Before, slots
  <2> QED BY <2>1, <2>11, <2>13 DEF v
<1> QED BY <1>6, <1>7

(* The whole placement: some task has no capacity, or every task is well placed. *)
LEMMA PlacementLemma ==
  ASSUME NEW p, Solvable(p)
  PROVE  /\ Placement(p) \in Before(p)
         /\ Placement(p).failed = None => WellPlaced(p, Placement(p).slots, p.tasks)
<1> DEFINE o == TopologicalOrder(p.tasks, p.edges, p.score)
           m == Len(o)
           D == Before(p)
           base == [slots |-> {}, failed |-> None]
           next(i, b) == Place(p, b, o[i])
           step == [i \in 1..m |-> [b \in D |-> IF next(i, b) \in D THEN next(i, b) ELSE b]]
           P(f) == f = [n \in 0..m |-> IF n = 0 THEN base ELSE next(n, f[n - 1])]
           Done(n) == {o[i] : i \in 1..n}
           Good(n, b) == b \in D /\ (b.failed = None => WellPlaced(p, b.slots, Done(n)))
<1>1. Ordered(p.tasks, p.edges, o) /\ Range(o) = p.tasks
  BY OrderOfAll DEF Solvable
<1>2. Placement(p) = (CHOOSE f : P(f))[m]
  BY DEF Placement
<1> HIDE DEF o
<1>3. m \in Nat /\ DOMAIN o = 1..m
  BY <1>1, OrderedRange DEF Solvable
<1> HIDE DEF m
<1>4. /\ \A i, j \in 1..m : o[i] = o[j] => i = j
      /\ \A i \in 1..m : \A u \in Preds(p.edges, o[i]) : \E j \in 1..(i - 1) : o[j] = u
      /\ \A i \in 1..m : o[i] \in p.tasks
  BY <1>1, <1>3 DEF Ordered, m, Range
<1>5. base \in D /\ Good(0, base)
  <2>1. {} \in Slots(p.tasks) /\ {} \in Slots({}) /\ IsFiniteSet({})
    BY FS_EmptySet DEF Slots
  <2>2. \A d \in Int : HoursOn({}, d) <= RoomOn(p, d) /\ Cardinality(TasksOn({}, d)) <= p.cal.parallel
    <3> TAKE d \in Int
    <3>1. HoursOn({}, d) = 0 /\ Cardinality(TasksOn({}, d)) = 0
      BY <2>1, OnLemma
    <3>2. RoomOn(p, d) \in Nat /\ p.cal.parallel \in Nat
      BY RoomLemma
    <3> QED BY <3>1, <3>2
  <2>3. Done(0) = {}
    OBVIOUS
  <2>4. WellPlaced(p, {}, {})
    BY <2>1, <2>2 DEF WellPlaced
  <2> QED BY <2>1, <2>3, <2>4 DEF Before
<1>6. ASSUME NEW n \in 0..m, n < m, NEW b, Good(n, b)
      PROVE  Good(n + 1, next(n + 1, b))
  <2> DEFINE t == o[n + 1]
             v == next(n + 1, b)
  <2>1. n + 1 \in 1..m /\ \A i \in 1..n : i \in 1..m /\ i # n + 1
    BY <1>3, <1>6
  <2>2. Done(n) \in SUBSET p.tasks /\ t \in p.tasks \ Done(n) /\ Preds(p.edges, t) \subseteq Done(n)
    <3>1. (n + 1) - 1 = n
      BY <1>3, <1>6
    <3> QED BY <1>4, <2>1, <3>1
  <2>3. Done(n + 1) = Done(n) \cup {t}
    <3>1. \A i : i \in 1..(n + 1) <=> i \in 1..n \/ i = n + 1
      BY <1>3, <1>6
    <3> QED BY <3>1
  <2>4. CASE b.failed # None
    <3>1. v = b
      BY <2>4 DEF Place
    <3> QED BY <1>6, <2>4, <3>1
  <2>5. CASE b.failed = None
    <3>1. b \in Before(p) /\ WellPlaced(p, b.slots, Done(n))
      BY <1>6, <2>5
    <3> DEFINE d == Done(n)
    <3> HIDE DEF t, d, Good
    <3>2. LET w == Place(p, b, t) IN w \in Before(p) /\ (w.failed = None => WellPlaced(p, w.slots, d \cup {t}))
      <4>1. WellPlaced(p, b.slots, d)
        BY <3>1 DEF d
      <4>2. d \in SUBSET p.tasks /\ t \in p.tasks \ d /\ Preds(p.edges, t) \subseteq d
        BY <2>2 DEF d
      <4> HIDE DEF Done
      <4> QED BY <2>5, <3>1, <4>1, <4>2, PlaceLemma
    <3> QED BY <2>3, <3>2 DEF Good, t, d
  <2> QED BY <2>4, <2>5
<1> HIDE DEF Good, D, base
<1>7. \A b \in D, i \in 1..m : step[i][b] \in D
  OBVIOUS
<1>8. step \in [1..m -> [D -> D]]
  OBVIOUS
<1>9. \E f : P(f) /\ Good(m, f[m])
  <2>1. PICK f : Iterates(f, m, D, base, step)
    <3> HIDE DEF step
    <3> QED BY <1>3, <1>5, <1>8, Recursion
  <2>2. f \in [0..m -> D] /\ f[0] = base
    BY <2>1 DEF Iterates
  <2>3. ASSUME NEW n \in 1..m
        PROVE  /\ n - 1 \in 0..m /\ f[n - 1] \in D
               /\ f[n] = IF next(n, f[n - 1]) \in D THEN next(n, f[n - 1]) ELSE f[n - 1]
    <3>1. n - 1 \in 0..m /\ f[n] = step[n][f[n - 1]]
      <4> HIDE DEF step, next
      <4> QED BY <1>3, <2>1 DEF Iterates
    <3>2. f[n - 1] \in D
      <4> HIDE DEF step, next
      <4> QED BY <2>2, <3>1
    <3> HIDE DEF next
    <3> QED BY <3>1, <3>2
  <2> HIDE DEF step, next
  <2> DEFINE A == {n \in 0..m : Good(n, f[n])}
  <2>4. 0 \in A
    BY <1>3, <1>5, <2>2
  <2>5. ASSUME NEW n \in 0..m, n < m, Good(n, f[n])
        PROVE  f[n + 1] = next(n + 1, f[n]) /\ Good(n + 1, f[n + 1])
    <3>1. n + 1 \in 1..m /\ (n + 1) - 1 = n
      BY <1>3, <2>5
    <3>2. Good(n + 1, next(n + 1, f[n]))
      BY <1>6, <2>5
    <3>3. next(n + 1, f[n]) \in D
      BY <3>2 DEF Good
    <3> QED BY <2>3, <3>1, <3>2, <3>3
  <2>6. ASSUME NEW n \in 0..m, n \in A, n < m PROVE n + 1 \in A
    BY <1>3, <2>5, <2>6
  <2>7. \A n \in 0..m : n \in A
    <3> HIDE DEF A
    <3> QED BY <1>3, <2>4, <2>6, UpTo
  <2>8. ASSUME NEW n \in 0..m PROVE f[n] = IF n = 0 THEN base ELSE next(n, f[n - 1])
    <3>1. CASE n = 0
      BY <2>2, <3>1
    <3>2. CASE n # 0
      <4>1. n - 1 \in 0..m /\ n - 1 < m /\ (n - 1) + 1 = n
        BY <1>3, <3>2
      <4>2. Good(n - 1, f[n - 1])
        BY <2>7, <4>1
      <4>3. f[(n - 1) + 1] = next((n - 1) + 1, f[n - 1])
        BY <2>5, <4>1, <4>2
      <4> QED BY <3>2, <4>1, <4>3
    <3> QED BY <3>1, <3>2
  <2>9. P(f)
    BY <2>2, <2>8
  <2>10. m \in 0..m
    BY <1>3
  <2> QED BY <2>7, <2>9, <2>10
<1>10. ASSUME NEW f, NEW g, P(f), P(g) PROVE f[m] = g[m]
  <2> DEFINE A == {n \in 0..m : f[n] = g[n]}
  <2> HIDE DEF next, step
  <2>0. ASSUME NEW x, P(x) PROVE \A n \in 0..m : x[n] = IF n = 0 THEN base ELSE next(n, x[n - 1])
    BY <2>0
  <2>1. \A n \in 0..m : /\ f[n] = IF n = 0 THEN base ELSE next(n, f[n - 1])
                        /\ g[n] = IF n = 0 THEN base ELSE next(n, g[n - 1])
    <3> HIDE DEF P
    <3> QED BY <1>10, <2>0
  <2> HIDE DEF P
  <2>2. 0 \in A
    BY <1>3, <2>1
  <2>3. ASSUME NEW n \in 0..m, n \in A, n < m PROVE n + 1 \in A
    <3>1. n + 1 \in 0..m /\ n + 1 # 0 /\ (n + 1) - 1 = n
      BY <1>3, <2>3
    <3> QED BY <2>1, <2>3, <3>1
  <2>4. m \in 0..m
    BY <1>3
  <2>5. \A n \in 0..m : n \in A
    <3> HIDE DEF A
    <3> QED BY <1>3, <2>2, <2>3, UpTo
  <2> QED BY <2>4, <2>5
<1> DEFINE h == CHOOSE f : P(f)
<1>11. P(h) /\ Good(m, h[m])
  <2>1. PICK f : P(f) /\ Good(m, f[m])
    BY <1>9
  <2> HIDE DEF P
  <2>2. P(h)
    BY <2>1
  <2> HIDE DEF h
  <2> QED BY <1>10, <2>1, <2>2
<1> HIDE DEF P
<1>12. Done(m) = p.tasks
  BY <1>1, <1>3 DEF Range
<1> HIDE DEF Done
<1> QED BY <1>2, <1>11, <1>12 DEF Good, D

-----------------------------------------------------------------------------
(* The schedule *)

(* The working days of a stretch are a number of days. *)
LEMMA CountLemma ==
  ASSUME NEW cal, NEW a \in Int, NEW b \in Int, a <= b
  PROVE  CountWorkingDays(cal, a, b, TRUE, TRUE) \in Nat
<1>1. CountWorkingDays(cal, a, b, TRUE, TRUE) = Cardinality(WorkingDays(cal, a, b) \ ({} \cup {}))
  <2>1. ~ (b < a)
    OBVIOUS
  <2> QED BY <2>1 DEF CountWorkingDays
<1>2. WorkingDays(cal, a, b) \ ({} \cup {}) \in SUBSET (a..b)
  BY DEF WorkingDays
<1>3. IsFiniteSet(a..b)
  BY FS_Interval
<1> QED BY <1>1, <1>2, <1>3, FS_Subset, FS_CardinalityType

(* Added working days never go back. *)
LEMMA AddDaysLemma ==
  ASSUME NEW cal, NEW day \in Int, NEW c \in Nat
  PROVE  \/ AddWorkingDays(cal, day, c) = None
         \/ AddWorkingDays(cal, day, c) \in Int /\ day <= AddWorkingDays(cal, day, c)
<1> DEFINE D == {None} \cup {d \in Int : day <= d}
           next(x) == IF x = None THEN None ELSE NextWorkingDay(cal, x + 1)
           step == [i \in 1..c |-> [x \in D |-> next(x)]]
           P(f) == f = [n \in 0..c |-> IF n = 0 THEN day ELSE next(f[n - 1])]
<1>1. day \in D
  OBVIOUS
<1>2. ASSUME NEW x \in D PROVE next(x) \in D
  <2>1. CASE x = None
    BY <2>1
  <2>2. CASE x # None
    <3>1. x \in Int /\ day <= x
      BY <2>2
    <3>2. PICK y \in Int : y = x + 1
      BY <3>1
    <3>3. PICK z : z = NextWorkingDay(cal, y)
      OBVIOUS
    <3>4. z = None \/ (z \in Int /\ y <= z)
      BY <3>3, NextDayLemma
    <3>5. z \in D
      BY <3>1, <3>2, <3>4
    <3> QED BY <2>2, <3>2, <3>3, <3>5
  <2> QED BY <2>1, <2>2
<1> HIDE DEF D, next
<1>3. step \in [1..c -> [D -> D]]
  BY <1>2
<1>4. \E f : P(f)
  <2>1. PICK f : Iterates(f, c, D, day, step)
    <3> HIDE DEF step
    <3> QED BY <1>1, <1>3, Recursion
  <2>2. f \in [0..c -> D] /\ f[0] = day
    BY <2>1 DEF Iterates
  <2>3. ASSUME NEW n \in 1..c PROVE f[n] = next(f[n - 1])
    <3>1. n - 1 \in 0..c /\ f[n] = step[n][f[n - 1]]
      <4> HIDE DEF step
      <4> QED BY <2>1 DEF Iterates
    <3>2. f[n - 1] \in D
      <4> HIDE DEF step
      <4> QED BY <2>2, <3>1
    <3> QED BY <3>1, <3>2
  <2> HIDE DEF step
  <2>4. \A n \in 0..c : n = 0 \/ n \in 1..c
    OBVIOUS
  <2>5. P(f)
    BY <2>2, <2>3, <2>4
  <2> QED BY <2>5
<1> DEFINE f == CHOOSE g : P(g)
<1>5. P(f)
  <2> HIDE DEF P
  <2> QED BY <1>4
<1>6. AddWorkingDays(cal, day, c) = f[c]
  BY DEF AddWorkingDays, next
<1> HIDE DEF f
<1>7. \A n \in 0..c : f[n] = IF n = 0 THEN day ELSE next(f[n - 1])
  BY <1>5
<1> HIDE DEF P, step
<1> DEFINE A == {n \in 0..c : f[n] \in D}
<1>8. 0 \in A
  BY <1>1, <1>7
<1>9. ASSUME NEW n \in 0..c, n \in A, n < c PROVE n + 1 \in A
  <2>1. n + 1 \in 0..c /\ n + 1 # 0 /\ (n + 1) - 1 = n
    BY <1>9
  <2> QED BY <1>2, <1>7, <1>9, <2>1
<1>10. \A n \in 0..c : n \in A
  <2> HIDE DEF A
  <2> QED BY <1>8, <1>9, UpTo
<1>11. f[c] \in D
  BY <1>10
<1> QED BY <1>6, <1>11 DEF D

(* What schedule_tasks gives: dates only for a placement of every task, and a forecast *)
(* that is after all of them.                                                          *)
LEMMA ScheduleLemma ==
  ASSUME NEW p, Solvable(p), NEW s, s = ScheduleTasks(p)
  PROVE  /\ s.outcome \in {"placed", "no_capacity", "error"}
         /\ s.outcome = "placed" =>
              /\ WellPlaced(p, s.slots, p.tasks)
              /\ s.forecast \in Int
              /\ s.feasible = IF p.deadline = None THEN None ELSE ~ (s.forecast > p.deadline)
              /\ \A r \in s.slots : r.day <= s.forecast
<1> DEFINE v == Placement(p)
           days == {r.day : r \in v.slots}
           fc == Forecast(p.cal, days)
<1>1. s = Placed(p, v)
  BY DEF ScheduleTasks, Solvable
<1>2. v.failed = None => WellPlaced(p, v.slots, p.tasks)
  BY PlacementLemma
<1>3. CASE v.failed # None
  <2>1. s.outcome = "no_capacity"
    BY <1>1, <1>3 DEF Placed, Unplaced
  <2> QED BY <2>1
<1>4. CASE v.failed = None
  <2>1. s = Forecasted(p, v.slots, fc)
    BY <1>1, <1>4 DEF Placed
  <2> HIDE DEF v
  <2>2. CASE fc = None
    <3>1. s.outcome = "error"
      BY <2>1, <2>2 DEF Forecasted, Unplaced
    <3> QED BY <3>1
  <2>3. CASE fc # None
    <3>1. /\ s.outcome = "placed" /\ s.slots = v.slots /\ s.forecast = fc
          /\ s.feasible = IF p.deadline = None THEN None ELSE ~ Late(p, fc)
      BY <2>1, <2>3 DEF Forecasted
    <3>2. s.feasible = IF p.deadline = None THEN None ELSE ~ (s.forecast > p.deadline)
      BY <3>1 DEF Late
    <3>3. v.slots \in Slots(p.tasks) /\ IsFiniteSet(v.slots) /\ v.slots # {}
      <4>1. PICK t \in p.tasks : TRUE
        BY DEF Solvable
      <4>2. v.slots \in Slots(p.tasks) /\ IsFiniteSet(v.slots)
            /\ SumOf(Hours(v.slots), SlotsOf(v.slots, t)) = p.effort[t]
        BY <1>2, <1>4 DEF WellPlaced
      <4>3. PICK e \in Nat \ {0} : e = p.effort[t]
        BY DEF Solvable
      <4>4. SlotsOf(v.slots, t) # {}
        BY <4>2, <4>3, SlotsOfLemma
      <4> QED BY <4>2, <4>4 DEF SlotsOf
    <3>4. /\ days \in SUBSET Int /\ Min(days) \in days /\ Max(days) \in days
          /\ \A r \in v.slots : Min(days) <= r.day /\ r.day <= Max(days)
      <4> HIDE DEF fc
      <4> QED BY <3>3, DaysLemma
    <3>5. Min(days) \in Int /\ Max(days) \in Int /\ Min(days) <= Max(days)
      <4>1. PICK r \in v.slots : TRUE
        BY <3>3
      <4>2. PICK d : d = r.day
        OBVIOUS
      <4>3. d \in Int /\ Min(days) <= d /\ d <= Max(days)
        BY <3>3, <3>4, <4>2 DEF Slots
      <4> QED BY <3>4, <4>3
    <3>6. PICK a \in Int : a = Min(days)
      BY <3>5
    <3>7. PICK b \in Int : b = Max(days) /\ a <= b
      BY <3>5, <3>6
    <3>8. PICK n : n = (CountWorkingDays(p.cal, a, b, TRUE, TRUE) + 9) \div 10
      OBVIOUS
    <3>9. n \in Nat
      <4>1. PICK k \in Nat : k = CountWorkingDays(p.cal, a, b, TRUE, TRUE)
        BY <3>7, CountLemma
      <4>2. (k + 9) \div 10 \in Nat
        OBVIOUS
      <4>3. n = (k + 9) \div 10
        BY <3>8, <4>1
      <4> QED BY <4>2, <4>3
    <3>10. fc = AddWorkingDays(p.cal, b, n)
      <4> HIDE DEF days
      <4> QED BY <3>6, <3>7, <3>8 DEF Forecast
    <3>11. fc \in Int /\ b <= fc
      <4>1. PICK x : x = AddWorkingDays(p.cal, b, n)
        OBVIOUS
      <4>2. x = None \/ (x \in Int /\ b <= x)
        BY <3>9, <4>1, AddDaysLemma
      <4> QED BY <2>3, <3>10, <4>1, <4>2
    <3> HIDE DEF fc, days
    <3>12. \A r \in v.slots : r.day <= fc
      <4> TAKE r \in v.slots
      <4>1. PICK d : d = r.day
        OBVIOUS
      <4>2. d \in Int /\ d <= b
        BY <3>3, <3>4, <3>7, <4>1 DEF Slots
      <4> QED BY <3>11, <4>1, <4>2
    <3> QED BY <1>2, <1>4, <3>1, <3>2, <3>11, <3>12 DEF v
  <2> QED BY <2>2, <2>3
<1> QED BY <1>3, <1>4

(* In what is well placed a predecessor finishes before its successor starts. *)
LEMMA InOrder ==
  ASSUME NEW p, Solvable(p), NEW slots, WellPlaced(p, slots, p.tasks), NEW e \in p.edges
  PROVE  Finishes(slots, e[1]) < Starts(slots, e[2])
<1>1. e[1] \in p.tasks /\ e[2] \in p.tasks /\ e = <<e[1], e[2]>>
  BY DEF Solvable
<1>2. PICK u : u = e[1]
  OBVIOUS
<1>3. PICK w : w = e[2]
  OBVIOUS
<1>4. u \in Preds(p.edges, w) /\ u \in p.tasks /\ w \in p.tasks
  <2>1. <<u, w>> \in p.edges
    BY <1>1, <1>2, <1>3
  <2>2. <<u, w>>[1] = u /\ <<u, w>>[2] = w
    OBVIOUS
  <2>3. u \in Preds(p.edges, w)
    BY <2>1, <2>2 DEF Preds
  <2> QED BY <1>1, <1>2, <1>3, <2>3
<1>5. \A r \in SlotsOf(slots, u), s \in SlotsOf(slots, w) : r.day < s.day
  BY <1>4 DEF WellPlaced
<1>6. \A t \in p.tasks : /\ Starts(slots, t) \in {s.day : s \in SlotsOf(slots, t)}
                         /\ Finishes(slots, t) \in {s.day : s \in SlotsOf(slots, t)}
  <2> TAKE t \in p.tasks
  <2>1. PICK x \in Nat \ {0} : x = p.effort[t]
    BY DEF Solvable
  <2>2. slots \in Slots(p.tasks) /\ IsFiniteSet(slots) /\ SumOf(Hours(slots), SlotsOf(slots, t)) = x
    BY <2>1 DEF WellPlaced
  <2> QED BY <2>2, SlotsOfLemma
<1> QED BY <1>2, <1>3, <1>4, <1>5, <1>6

-----------------------------------------------------------------------------
(* RemainingFits *)

(* The dependencies of a draft or an active plan can be scheduled. *)
LEMMA EdgesSound ==
  Typed /\ Judged /\ stage \in {"draft", "active"} =>
    /\ GoodList(Tasks, list) /\ Edges \in SUBSET (Tasks \X Tasks) /\ NoCircle(Tasks, Edges)
    /\ \A t \in Tasks : PlanScore[t] \in Int
<1> SUFFICES ASSUME Typed, Judged, stage \in {"draft", "active"}
             PROVE  /\ GoodList(Tasks, list) /\ Edges \in SUBSET (Tasks \X Tasks)
                    /\ NoCircle(Tasks, Edges) /\ \A t \in Tasks : PlanScore[t] \in Int
  OBVIOUS
<1>1. list \in Seq(Int \X Int) /\ GraphError(Tasks, list) = None
  BY DEF Typed, Judged
<1>2. GoodList(Tasks, list) /\ NoCircle(Tasks, Edges)
  BY <1>1, TasksLemma, GraphErrorLemma DEF Edges
<1>3. Edges \in SUBSET (Tasks \X Tasks)
  BY <1>2, GoodListEdges DEF Edges
<1>4. \A t \in Tasks : PlanScore[t] \in Int
  BY <1>2, <1>3, TasksLemma, TasksAssumption, ScoreLemma DEF PlanScore
<1> QED BY <1>2, <1>3, <1>4

(* What is left of a task is a number of hours. *)
LEMMA LeftLemma == Typed => \A t \in Tasks : Left(t) \in Nat
<1> SUFFICES ASSUME Typed, NEW t \in Tasks PROVE Left(t) \in Nat
  OBVIOUS
<1>1. effort[t] \in Nat /\ fraction[t] \in 0..Full /\ Full \in Nat \ {0}
  BY FullAssumption DEF Typed
<1>2. effort[t] * (Full - fraction[t]) \in Nat
  <2>1. PICK a \in Nat : a = effort[t]
    BY <1>1
  <2>2. PICK b \in Nat : b = Full - fraction[t]
    BY <1>1
  <2> QED BY <2>1, <2>2
<1>3. \A a \in Nat, b \in Nat \ {0} : a \div b \in Nat
  OBVIOUS
<1> QED BY <1>1, <1>2, <1>3 DEF Left

(* The greater of two numbers. *)
LEMMA MaxOfTwo ==
  ASSUME NEW a \in Int, NEW b \in Int
  PROVE  Max({a, b}) \in {a, b} /\ a <= Max({a, b}) /\ b <= Max({a, b})
<1>1. {a, b} \in SUBSET Int /\ {a, b} # {} /\ IsFiniteSet({a, b})
  <2>1. IsFiniteSet({a}) /\ {a, b} = {a} \cup {b}
    BY FS_Singleton
  <2> QED BY <2>1, FS_AddElement
<1> QED BY <1>1, MinMax

(* What a project is set to. *)
LEMMA ProjectLemma ==
  Typed => /\ project.start \in Nat /\ project.team \in Nat \ {0}
           /\ project.deadline \in {None} \cup Nat
<1> SUFFICES ASSUME Typed PROVE /\ project.start \in Nat /\ project.team \in Nat \ {0}
                                /\ project.deadline \in {None} \cup Nat
  OBVIOUS
<1> QED BY ProjectsAssumption DEF Typed

(* schedule_tasks is given a plan it can solve. *)
LEMMA RemainingSolvable ==
  Typed /\ Judged /\ stage = "active" /\ Incomplete # {} =>
    /\ Solvable(RemainingPlan)
    /\ today <= RemainingPlan.start
    /\ RemainingPlan.tasks = Incomplete /\ RemainingPlan.team = project.team
    /\ RemainingPlan.cal = WorkCalendar /\ RemainingPlan.deadline = project.deadline
    /\ RemainingPlan.effort = [t \in Incomplete |-> Max({1, Left(t)})]
<1> SUFFICES ASSUME Typed, Judged, stage = "active", Incomplete # {}
             PROVE  /\ Solvable(RemainingPlan)
                    /\ today <= RemainingPlan.start
                    /\ RemainingPlan.tasks = Incomplete /\ RemainingPlan.team = project.team
                    /\ RemainingPlan.cal = WorkCalendar /\ RemainingPlan.deadline = project.deadline
                    /\ RemainingPlan.effort = [t \in Incomplete |-> Max({1, Left(t)})]
  OBVIOUS
<1> DEFINE p == RemainingPlan
           E == Edges \cap (Incomplete \X Incomplete)
           e == [t \in Incomplete |-> Max({1, Left(t)})]
           b == Max({today, project.start})
<1>1. /\ p.tasks = Incomplete /\ p.edges = E /\ p.effort = e /\ p.score = PlanScore
      /\ p.start = b /\ p.cal = WorkCalendar /\ p.team = project.team
      /\ p.deadline = project.deadline
  BY DEF RemainingPlan
<1>2. Incomplete \in SUBSET Tasks
  BY DEF Incomplete, Active
<1>3. Incomplete \in SUBSET Int /\ IsFiniteSet(Incomplete)
  BY <1>2, TasksLemma, FS_Subset
<1>4. NoCircle(Incomplete, E)
  <2>1. \A t : Preds(E, t) \subseteq Preds(Edges, t)
    BY DEF Preds
  <2>2. NoCircle(Tasks, Edges)
    BY EdgesSound
  <2> HIDE DEF E
  <2>3. ASSUME NEW S \in (SUBSET Incomplete) \ {{}} PROVE \E t \in S : Preds(E, t) \cap S = {}
    <3>1. S \in (SUBSET Tasks) \ {{}}
      BY <1>2
    <3>2. PICK t \in S : Preds(Edges, t) \cap S = {}
      BY <2>2, <3>1 DEF NoCircle
    <3> QED BY <2>1, <3>2
  <2> QED BY <2>3 DEF NoCircle
<1>5. e \in [Incomplete -> Nat \ {0}]
  <2>1. ASSUME NEW t \in Incomplete PROVE Max({1, Left(t)}) \in Nat \ {0}
    <3>1. PICK l \in Nat : l = Left(t)
      BY <1>2, LeftLemma
    <3> QED BY <3>1, MaxOfTwo
  <2> QED BY <2>1
<1>6. b \in Int /\ today <= b
  <2>1. PICK x \in Int : x = project.start
    BY ProjectLemma
  <2>2. today \in Nat
    BY DEF Typed
  <2>3. PICK y \in Int : y = today
    BY <2>2
  <2>4. Max({y, x}) \in {y, x} /\ y <= Max({y, x}) /\ x <= Max({y, x})
    BY MaxOfTwo
  <2> QED BY <2>1, <2>3, <2>4
<1>7. \A t \in Incomplete : PlanScore[t] \in Int
  BY <1>2, EdgesSound
<1>8. project.team \in Nat \ {0} /\ project.deadline \in {None} \cup Int /\ IsCalendar(WorkCalendar)
  BY ProjectLemma, CalendarLemma
<1> HIDE DEF p, e, b
<1>9. Solvable(p)
  BY <1>1, <1>3, <1>4, <1>5, <1>6, <1>7, <1>8 DEF Solvable
<1> QED BY <1>1, <1>6, <1>9 DEF p, e

(* A schedule is only placed when there is something left. *)
LEMMA PlacedLemma ==
  Typed /\ Judged /\ stage = "active" /\ ScheduleTasks(RemainingPlan).outcome = "placed" => Incomplete # {}
<1> SUFFICES ASSUME Incomplete = {} PROVE ScheduleTasks(RemainingPlan).outcome = "empty"
  OBVIOUS
<1>1. RemainingPlan.tasks = {}
  BY DEF RemainingPlan
<1> QED BY <1>1 DEF ScheduleTasks, Unplaced

(* The forecast of an active plan is a placement of what is left of it. *)
LEMMA RemainingLemma == Typed /\ Judged => RemainingFits
<1> DEFINE p == RemainingPlan
           s == ScheduleTasks(p)
<1> SUFFICES ASSUME Typed, Judged, stage = "active", s.outcome = "placed"
             PROVE  /\ \A t \in Incomplete :
                         SumOf(Hours(s.slots), {r \in s.slots : r.task = t}) = Max({1, Left(t)})
                    /\ \A d \in {r.day : r \in s.slots} :
                         /\ d >= today /\ HoursOn(s.slots, d) <= Capacity(d)
                         /\ Cardinality(TasksOn(s.slots, d)) <= p.cal.parallel
                    /\ \A e \in p.edges : Finishes(s.slots, e[1]) < Starts(s.slots, e[2])
  BY DEF RemainingFits
<1>1. Incomplete # {}
  BY PlacedLemma
<1>2. /\ Solvable(p) /\ today <= p.start /\ p.tasks = Incomplete /\ p.team = project.team
      /\ p.cal = WorkCalendar /\ p.effort = [t \in Incomplete |-> Max({1, Left(t)})]
  BY <1>1, RemainingSolvable
<1> HIDE DEF p
<1>3. WellPlaced(p, s.slots, p.tasks)
  BY <1>2, ScheduleLemma
<1> HIDE DEF s
<1>4. \A t \in Incomplete :
        SumOf(Hours(s.slots), {r \in s.slots : r.task = t}) = Max({1, Left(t)})
  BY <1>2, <1>3 DEF WellPlaced, SlotsOf
<1>5. ASSUME NEW r \in s.slots
      PROVE  /\ r.day >= today /\ HoursOn(s.slots, r.day) <= Capacity(r.day)
             /\ Cardinality(TasksOn(s.slots, r.day)) <= p.cal.parallel
  <2>1. PICK d : d = r.day
    OBVIOUS
  <2>2. d \in Int /\ p.start <= d
    BY <1>3, <2>1 DEF WellPlaced, Slots
  <2>3. HoursOn(s.slots, d) <= RoomOn(p, d) /\ Cardinality(TasksOn(s.slots, d)) <= p.cal.parallel
    BY <1>3, <2>2 DEF WellPlaced
  <2>4. RoomOn(p, d) = Capacity(d)
    BY <1>2 DEF RoomOn, Capacity
  <2>5. today \in Int /\ p.start \in Int
    BY <1>2 DEF Typed, Solvable
  <2>6. d >= today
    BY <1>2, <2>2, <2>5
  <2> QED BY <2>1, <2>3, <2>4, <2>6
<1>6. \A e \in p.edges : Finishes(s.slots, e[1]) < Starts(s.slots, e[2])
  BY <1>2, <1>3, InOrder
<1> QED BY <1>4, <1>5, <1>6

(* The forecast of an active plan plans the whole of what is left and nothing else, from *)
(* today on, within the hours and the parallel limit of each day and in the order of the *)
(* dependencies.                                                                         *)
THEOREM RemainingHolds == Spec => []RemainingFits
<1>1. Typed /\ Judged => RemainingFits
  BY RemainingLemma
<1> QED BY <1>1, GraphHolds, PTL

-----------------------------------------------------------------------------
(* HealthIsHonest *)

(* No task is ready or started before its predecessors are completed. *)
StartedInOrder ==
  stage = "active" =>
    \A t \in Tasks : status[t] \in {"ready", "in_progress"} =>
                       Preds(Edges, t) \subseteq Complete(status)

(* A transition never leaves a task ready or started whose predecessors are not completed. *)
LEMMA NextInOrder == Typed /\ StartedInOrder /\ [Next]_vars => StartedInOrder'
<1> SUFFICES ASSUME Typed, StartedInOrder, [Next]_vars, stage' = "active",
                    NEW u \in Tasks, status'[u] \in {"ready", "in_progress"}
             PROVE  Preds(Edges', u) \subseteq Complete(status')
  BY DEF StartedInOrder, Complete
<1>1. CASE JudgeCandidate
  BY <1>1 DEF JudgeCandidate
<1>2. CASE Validate
  BY <1>2 DEF Validate
<1>3. ASSUME Edited PROVE FALSE
  BY <1>3 DEF Edited
<1>4. CASE CreateDependency
  BY <1>3, <1>4 DEF CreateDependency
<1>5. CASE DeleteDependency
  BY <1>3, <1>5 DEF DeleteDependency
<1>6. CASE UpdateEffort
  BY <1>3, <1>6 DEF UpdateEffort
<1>7. CASE stage = "active" /\ list' = list /\ status' = status
  BY <1>7 DEF StartedInOrder, Edges
<1>8. CASE ChangeProject
  BY <1>7, <1>8 DEF ChangeProject, plan, work
<1>9. CASE Activate
  <2>1. list' = list /\ status' = [t \in Tasks |-> Readiness("pending", Preds(Edges, t) = {})]
    BY <1>9 DEF Activate
  <2>2. Preds(Edges, u) = {}
    BY <2>1 DEF Readiness
  <2> QED BY <2>1, <2>2 DEF Edges
<1>10. CASE NextDay
  BY <1>7, <1>10 DEF NextDay, plan, work
<1>11. ASSUME NEW t \in Tasks, UpdateProgress(t) PROVE Preds(Edges', u) \subseteq Complete(status')
  BY <1>7, <1>11 DEF UpdateProgress, plan
<1>12. ASSUME NEW t \in Tasks, NEW to \in Statuses, Transition(t, to)
       PROVE  Preds(Edges', u) \subseteq Complete(status')
  <2> DEFINE moved == [status EXCEPT ![t] = to]
  <2>1. /\ stage = "active" /\ list' = list /\ to \in Legal[status[t]]
        /\ to \in {"ready", "in_progress"} => Preds(Edges, t) \subseteq Complete(status)
        /\ status' = [x \in Tasks |-> Readiness(moved[x], Preds(Edges, x) \subseteq Complete(moved))]
    BY <1>12 DEF Transition, plan
  <2>2. status \in [Tasks -> Statuses] /\ moved \in [Tasks -> Statuses]
    BY DEF Typed
  <2>3. status[t] # "completed"
    BY <2>1 DEF Legal
  <2>4. moved[t] = to /\ \A x \in Tasks : x # t => moved[x] = status[x]
    BY <2>2
  <2>5. Complete(status) \subseteq Complete(moved)
    BY <2>3, <2>4 DEF Complete
  <2>6. Complete(moved) \subseteq Complete(status')
    <3> HIDE DEF moved
    <3> QED BY <2>1 DEF Complete, Readiness
  <2>7. CASE moved[u] \in {"pending", "ready"}
    <3>1. Preds(Edges, u) \subseteq Complete(moved)
      <4> HIDE DEF moved
      <4> QED BY <2>1, <2>7 DEF Readiness
    <3> QED BY <2>1, <2>6, <3>1 DEF Edges
  <2>8. CASE moved[u] \notin {"pending", "ready"}
    <3>1. moved[u] = "in_progress"
      <4> HIDE DEF moved
      <4> QED BY <2>1, <2>8 DEF Readiness
    <3>2. Preds(Edges, u) \subseteq Complete(status)
      <4>1. CASE u = t
        BY <2>1, <2>4, <3>1, <4>1
      <4>2. CASE u # t
        BY <2>1, <2>4, <3>1, <4>2 DEF StartedInOrder
      <4> QED BY <4>1, <4>2
    <3> QED BY <2>1, <2>5, <2>6, <3>2 DEF Edges
  <2> QED BY <2>7, <2>8
<1>13. CASE UNCHANGED vars
  BY <1>7, <1>13 DEF vars, plan, work
<1> QED BY <1>1, <1>2, <1>4, <1>5, <1>6, <1>8, <1>9, <1>10, <1>11, <1>12, <1>13 DEF Next

(* What "On track" leaves out. *)
LEMMA OnTrack ==
  ASSUME NEW s, HealthLabel(s) = "On track", Incomplete # {}
  PROVE  /\ project.deadline # None
         /\ ~ (today > project.deadline)
         /\ ~ (s.forecast # None /\ s.forecast > project.deadline)
         /\ DelayedMilestones(s) = {}
         /\ ~ (100 * SumOf(Remaining, Blocked) >= 15 * SumOf(Remaining, Incomplete))
<1>1. /\ project.deadline # None /\ DelayedRules(s) = {} /\ AtRiskRules(s) = {}
  BY DEF HealthLabel
<1> DEFINE d == [DEADLINE_PASSED_INCOMPLETE |-> today > project.deadline,
                 FORECAST_AFTER_DEADLINE |-> s.forecast # None /\ s.forecast > project.deadline,
                 OVERDUE_CRITICAL_MILESTONE |-> OverdueCritical # {}]
           r == [LOW_REMAINING_BUFFER |-> LowBuffer(s),
                 BLOCKED_EFFORT_THRESHOLD |->
                   /\ Incomplete # {}
                   /\ 100 * SumOf(Remaining, Blocked) >= 15 * SumOf(Remaining, Incomplete),
                 BLOCKED_CRITICAL_TASK |-> Blocked \cap Range(s.path) # {},
                 MILESTONE_FORECAST_LATE |-> DelayedMilestones(s) # {},
                 CAPACITY_OVERLOAD |-> Overload(s)]
<1>2. Holding(d) = {} /\ Holding(r) = {}
  BY <1>1 DEF DelayedRules, AtRiskRules
<1>3. "DEADLINE_PASSED_INCOMPLETE" \in DOMAIN d /\ "FORECAST_AFTER_DEADLINE" \in DOMAIN d
  OBVIOUS
<1>4. "BLOCKED_EFFORT_THRESHOLD" \in DOMAIN r /\ "MILESTONE_FORECAST_LATE" \in DOMAIN r
  OBVIOUS
<1>5. /\ d["DEADLINE_PASSED_INCOMPLETE"] = (today > project.deadline)
      /\ d["FORECAST_AFTER_DEADLINE"] = (s.forecast # None /\ s.forecast > project.deadline)
      /\ r["MILESTONE_FORECAST_LATE"] = (DelayedMilestones(s) # {})
      /\ r["BLOCKED_EFFORT_THRESHOLD"] =
           (Incomplete # {} /\ 100 * SumOf(Remaining, Blocked) >= 15 * SumOf(Remaining, Incomplete))
  BY Zenon
<1> HIDE DEF d, r
<1>6. ~ d["DEADLINE_PASSED_INCOMPLETE"] /\ ~ d["FORECAST_AFTER_DEADLINE"]
      /\ ~ r["MILESTONE_FORECAST_LATE"] /\ ~ r["BLOCKED_EFFORT_THRESHOLD"]
  BY <1>2, <1>3, <1>4 DEF Holding
<1> QED BY <1>1, <1>5, <1>6

(* What is detected only in a plan that is not called on track. *)
LEMMA NoDetections ==
  ASSUME NEW s
  PROVE  /\ GraphIssues = {} => "INCONSISTENT_STATE" \notin Detections(s)
         /\ UnmetTasks = {} => "UNMET_DEPENDENCY" \notin Detections(s)
         /\ (\A m \in Milestones : ~ (Target[m] < today /\ LeftOf(m) # {})) =>
              "DELAYED_MILESTONE" \notin Detections(s)
         /\ s.feasible # FALSE => "SCHEDULE_INFEASIBLE" \notin Detections(s)
<1> DEFINE d ==
      [INCONSISTENT_STATE |-> GraphIssues # {},
       BLOCKED_TASKS |-> Blocked # {},
       OVERDUE_TASKS |-> \E t \in Incomplete : dates[t].finish < today,
       UNMET_DEPENDENCY |-> UnmetTasks # {},
       DELAYED_MILESTONE |-> \E m \in Milestones : Target[m] < today /\ LeftOf(m) # {},
       SCHEDULE_SLIPPAGE |-> PlannedFinish # None /\ s.forecast # None /\ s.forecast > PlannedFinish,
       SCHEDULE_INFEASIBLE |-> s.feasible = FALSE,
       LOW_BUFFER |-> LowBuffer(s),
       CAPACITY_OVERLOAD |-> Overload(s),
       READY_WORK_AVAILABLE |-> \E t \in Tasks : status[t] = "ready"]
<1>1. Detections(s) = {r \in DOMAIN d : d[r]}
  BY DEF Detections, Holding
<1>2. d["INCONSISTENT_STATE"] = (GraphIssues # {})
  BY Zenon
<1>3. d["UNMET_DEPENDENCY"] = (UnmetTasks # {})
  BY Zenon
<1>4. d["DELAYED_MILESTONE"] = (\E m \in Milestones : Target[m] < today /\ LeftOf(m) # {})
  BY Zenon
<1>5. d["SCHEDULE_INFEASIBLE"] = (s.feasible = FALSE)
  BY Zenon
<1> HIDE DEF d
<1>6. \A r : r \in Detections(s) => d[r]
  BY <1>1
<1>7. GraphIssues = {} => "INCONSISTENT_STATE" \notin Detections(s)
  BY <1>2, <1>6
<1>8. UnmetTasks = {} => "UNMET_DEPENDENCY" \notin Detections(s)
  BY <1>3, <1>6
<1>9. (\A m \in Milestones : ~ (Target[m] < today /\ LeftOf(m) # {})) => "DELAYED_MILESTONE" \notin Detections(s)
  BY <1>4, <1>6
<1>10. s.feasible # FALSE => "SCHEDULE_INFEASIBLE" \notin Detections(s)
  BY <1>5, <1>6
<1> QED BY <1>7, <1>8, <1>9, <1>10

(* What the health label says of a plan whose tasks were started in order. *)
LEMMA HealthLemma == Typed /\ Judged /\ StartedInOrder => HealthIsHonest
<1> DEFINE p == RemainingPlan
           s == ScheduleTasks(p)
           slots == s.slots
<1> SUFFICES ASSUME Typed, Judged, StartedInOrder, stage = "active"
             PROVE  /\ Detections(s) \cap {"INCONSISTENT_STATE", "UNMET_DEPENDENCY"} = {}
                    /\ s.outcome = "placed" /\ HealthLabel(s) = "On track" =>
                         /\ Detections(s) \cap CriticalDetections = {}
                         /\ \A t \in Incomplete :
                              /\ Finishes(slots, t) <= project.deadline
                              /\ Finishes(slots, t) <= Target[MilestoneOf[t]]
                         /\ 100 * SumOf(Remaining, Blocked) < 15 * SumOf(Remaining, Incomplete)
  BY DEF HealthIsHonest
<1>1. "INCONSISTENT_STATE" \notin Detections(s) /\ "UNMET_DEPENDENCY" \notin Detections(s)
  <2>1. GraphIssues = {}
    BY DEF Judged, GraphIssues
  <2>2. UnmetTasks = {}
    BY DEF UnmetTasks, StartedInOrder
  <2> HIDE DEF s
  <2> QED BY <2>1, <2>2, NoDetections
<1>2. ASSUME s.outcome = "placed", HealthLabel(s) = "On track"
      PROVE  /\ Detections(s) \cap CriticalDetections = {}
             /\ \A t \in Incomplete : /\ Finishes(slots, t) <= project.deadline
                                      /\ Finishes(slots, t) <= Target[MilestoneOf[t]]
             /\ 100 * SumOf(Remaining, Blocked) < 15 * SumOf(Remaining, Incomplete)
  <2>1. Incomplete # {}
    BY <1>2, PlacedLemma
  <2>2. /\ Solvable(p) /\ today <= p.start /\ p.tasks = Incomplete /\ p.deadline = project.deadline
    BY <2>1, RemainingSolvable
  <2>3. /\ project.deadline # None
        /\ ~ (s.forecast # None /\ s.forecast > project.deadline)
        /\ DelayedMilestones(s) = {}
        /\ ~ (100 * SumOf(Remaining, Blocked) >= 15 * SumOf(Remaining, Incomplete))
    <3> HIDE DEF s
    <3> QED BY <1>2, <2>1, OnTrack
  <2> HIDE DEF p
  <2>4. /\ WellPlaced(p, slots, p.tasks) /\ s.forecast \in Int
        /\ s.feasible = IF p.deadline = None THEN None ELSE ~ (s.forecast > p.deadline)
        /\ \A r \in slots : r.day <= s.forecast
    <3>1. PICK x : x = s
      OBVIOUS
    <3>2. x.outcome = "placed" /\ x = ScheduleTasks(p)
      BY <1>2, <3>1
    <3> HIDE DEF s
    <3>3. /\ WellPlaced(p, x.slots, p.tasks) /\ x.forecast \in Int
          /\ x.feasible = IF p.deadline = None THEN None ELSE ~ (x.forecast > p.deadline)
          /\ \A r \in x.slots : r.day <= x.forecast
      BY <2>2, <3>2, ScheduleLemma
    <3> QED BY <3>1, <3>3
  <2> HIDE DEF s
  <2>5. PICK f \in Int : f = s.forecast
    BY <2>4
  <2>6. PICK d \in Int : d = project.deadline
    BY <2>3, ProjectLemma
  <2>7. f <= d
    <3>1. f # None
      BY NoneAssumption
    <3> QED BY <2>3, <2>5, <2>6, <3>1
  <2>8. s.feasible = TRUE
    <3>1. ~ (f > d)
      BY <2>7
    <3>2. (f > d) = FALSE
      BY <3>1
    <3> QED BY <2>2, <2>3, <2>4, <2>5, <2>6, <3>2
  <2> HIDE DEF slots
  <2>9. \A t \in Incomplete : SlotsOf(slots, t) # {} /\ Finishes(slots, t) \in {r.day : r \in SlotsOf(slots, t)}
    <3> TAKE t \in Incomplete
    <3>1. PICK e \in Nat \ {0} : e = p.effort[t]
      BY <2>2 DEF Solvable
    <3>2. slots \in Slots(p.tasks) /\ IsFiniteSet(slots) /\ SumOf(Hours(slots), SlotsOf(slots, t)) = e
      BY <2>2, <2>4, <3>1 DEF WellPlaced, slots
    <3> QED BY <3>2, SlotsOfLemma
  <2>10. \A r \in slots : r.day \in Int /\ today <= r.day /\ r.day <= d
    <3> TAKE r \in slots
    <3>1. PICK x : x = r.day
      OBVIOUS
    <3>2. x \in Int /\ p.start <= x /\ x <= f
      BY <2>4, <2>5, <3>1 DEF WellPlaced, Slots, slots
    <3>3. today \in Int /\ p.start \in Int
      BY <2>2 DEF Typed, Solvable
    <3>4. PICK b : b = p.start
      OBVIOUS
    <3>5. today <= x /\ x <= d
      BY <2>2, <2>7, <3>2, <3>3, <3>4
    <3> QED BY <3>1, <3>2, <3>5
  <2>11. \A t \in Incomplete : Finishes(slots, t) \in Int /\ today <= Finishes(slots, t) /\ Finishes(slots, t) <= d
    BY <2>9, <2>10 DEF SlotsOf
  <2>12. \A t \in Incomplete : t \in Tasks /\ MilestoneOf[t] \in Milestones /\ Target[MilestoneOf[t]] \in Int
    BY MilestoneAssumption DEF Incomplete, Active
  <2>13. ASSUME NEW t \in Incomplete PROVE Finishes(slots, t) <= Target[MilestoneOf[t]]
    <3> DEFINE m == MilestoneOf[t]
               L == LeftOf(m)
               F == {Finishes(slots, u) : u \in L}
    <3>1. m \in Milestones /\ t \in L /\ L \subseteq Incomplete
      BY <2>12 DEF LeftOf
    <3>2. slots # {}
      BY <2>9 DEF SlotsOf
    <3>3. ~ (Max(F) > Target[m])
      BY <2>3, <3>1, <3>2 DEF DelayedMilestones, slots
    <3>4. F \in SUBSET Int /\ IsFiniteSet(F) /\ Finishes(slots, t) \in F
      <4>1. IsFiniteSet(L)
        <5>1. L \in SUBSET Tasks
          BY <2>12, <3>1
        <5> QED BY <5>1, TasksLemma, FS_Subset
      <4>2. F \in SUBSET Int /\ Finishes(slots, t) \in F
        BY <2>11, <3>1
      <4> DEFINE g == [u \in L |-> Finishes(slots, u)]
      <4>3. g \in Surjection(L, F)
        BY DEF Surjection
      <4> HIDE DEF g, F, L
      <4> QED BY <4>1, <4>2, <4>3, FS_Surjection
    <3>5. Target[m] \in Int
      BY <2>12
    <3> HIDE DEF F, m
    <3>6. Max(F) \in F /\ Finishes(slots, t) <= Max(F)
      BY <3>4, MinMax
    <3>7. PICK x : x = Max(F)
      OBVIOUS
    <3>8. PICK y \in Int : y = Target[m]
      BY <3>5
    <3>9. x \in Int /\ ~ (x > y)
      BY <3>3, <3>4, <3>6, <3>7, <3>8
    <3>10. PICK z \in Int : z = Finishes(slots, t)
      BY <2>11
    <3>11. z <= y
      BY <3>6, <3>7, <3>9, <3>10
    <3> QED BY <3>8, <3>10, <3>11 DEF m
  <2>14. \A m \in Milestones : ~ (Target[m] < today /\ LeftOf(m) # {})
    <3> SUFFICES ASSUME NEW m \in Milestones, NEW t \in LeftOf(m), Target[m] < today PROVE FALSE
      OBVIOUS
    <3>1. t \in Incomplete /\ MilestoneOf[t] = m
      BY DEF LeftOf
    <3>2. PICK z \in Int : z = Finishes(slots, t)
      BY <2>11, <3>1
    <3>3. PICK y \in Int : y = Target[m]
      BY <2>12, <3>1
    <3>4. z <= y /\ y < today /\ today <= z /\ today \in Int
      BY <2>11, <2>13, <3>1, <3>2, <3>3 DEF Typed
    <3> QED BY <3>4
  <2>15. Detections(s) \cap CriticalDetections = {}
    <3>1. "DELAYED_MILESTONE" \notin Detections(s) /\ "SCHEDULE_INFEASIBLE" \notin Detections(s)
      BY <2>8, <2>14, NoDetections
    <3>2. "INCONSISTENT_STATE" \notin Detections(s) /\ "UNMET_DEPENDENCY" \notin Detections(s)
      BY <1>1 DEF s, p
    <3> QED BY <3>1, <3>2 DEF CriticalDetections
  <2>16. 100 * SumOf(Remaining, Blocked) < 15 * SumOf(Remaining, Incomplete)
    <3>1. Blocked \in SUBSET Tasks /\ Incomplete \in SUBSET Tasks
      BY DEF Blocked, Incomplete, Active
    <3>2. PICK g : g = Remaining
      OBVIOUS
    <3>3. \A t \in Tasks : g[t] \in Nat
      BY <3>2, LeftLemma DEF Remaining
    <3>4. IsFiniteSet(Blocked) /\ IsFiniteSet(Incomplete)
      BY <3>1, TasksLemma, FS_Subset
    <3>5. SumOf(g, Blocked) \in Nat
      <4>1. \A t \in Blocked : g[t] \in Nat
        BY <3>1, <3>3
      <4> QED BY <3>4, <4>1, SumLemma
    <3>6. SumOf(g, Incomplete) \in Nat
      <4>1. \A t \in Incomplete : g[t] \in Nat
        BY <3>1, <3>3
      <4> QED BY <3>4, <4>1, SumLemma
    <3>7. PICK a \in Nat : a = SumOf(Remaining, Blocked)
      BY <3>2, <3>5
    <3>8. PICK b \in Nat : b = SumOf(Remaining, Incomplete)
      BY <3>2, <3>6
    <3>9. ~ (100 * a >= 15 * b)
      BY <2>3, <3>7, <3>8
    <3>10. 100 * a < 15 * b
      BY <3>9
    <3> QED BY <3>7, <3>8, <3>10
  <2> QED BY <2>6, <2>11, <2>13, <2>15, <2>16
<1> QED BY <1>1, <1>2

(* A plan that is called on track has no critical detection, ends in time, keeps its      *)
(* milestones and has little of its work blocked; and the monitor never meets a task that *)
(* was started before its predecessors.                                                   *)
THEOREM HealthHolds == Spec => []HealthIsHonest
<1>1. Init => StartedInOrder
  BY DEF Init, StartedInOrder
<1>2. Typed /\ Judged /\ StartedInOrder => HealthIsHonest
  BY HealthLemma
<1>3. Typed /\ StartedInOrder /\ [Next]_vars => StartedInOrder'
  BY NextInOrder
<1> QED BY <1>1, <1>2, <1>3, GraphHolds, PTL DEF Spec

-----------------------------------------------------------------------------
(* DatesFit *)

(* The effort of the tasks that lie in a stretch of days is no more than its room. *)
LEMMA LoadLemma ==
  ASSUME NEW p, Solvable(p), NEW slots, WellPlaced(p, slots, p.tasks), NEW a \in Int, NEW b \in Int,
         NEW I \in SUBSET p.tasks,
         \A t \in I : \A s \in SlotsOf(slots, t) : a <= s.day /\ s.day <= b
  PROVE  SumOf(p.effort, I)
           <= SumOf([d \in a..b |-> RoomOn(p, d)], {d \in a..b : Working(p.cal, d)})
<1> DEFINE W == {d \in a..b : Working(p.cal, d)}
           room == [d \in a..b |-> RoomOn(p, d)]
           load == [d \in W |-> HoursOn(slots, d)]
           h == Hours(slots)
           S == {s \in slots : s.task \in I}
           B == {s \in slots : s.day \in W}
           task == [s \in slots |-> s.task]
           day == [s \in slots |-> s.day]
           effort_ == p.effort
<1>1. slots \in Slots(p.tasks) /\ IsFiniteSet(slots)
  BY DEF WellPlaced
<1>2. \A s \in slots : h[s] \in Nat
  BY <1>1, HoursLemma
<1>3. S \in SUBSET slots /\ B \in SUBSET slots
  OBVIOUS
<1>4. S \in SUBSET B
  <2>1. ASSUME NEW s \in S PROVE s.day \in W
    <3>1. s \in SlotsOf(slots, s.task) /\ s.task \in I /\ s \in slots
      BY DEF SlotsOf
    <3>2. a <= s.day /\ s.day <= b /\ s.day \in Int /\ Working(p.cal, s.day)
      BY <1>1, <3>1 DEF Slots, WellPlaced
    <3> QED BY <3>2
  <2> QED BY <2>1
<1>5. W \in SUBSET (a..b)
  OBVIOUS
<1>6. \A t \in I : SlotsOf(slots, t) = Keyed(S, task, t)
  BY DEF SlotsOf, Keyed
<1>7. \A t \in I : effort_[t] = SumOf(h, Keyed(S, task, t))
  <2>1. \A t \in I : effort_[t] = SumOf(h, SlotsOf(slots, t))
    BY DEF WellPlaced
  <2> HIDE DEF h, S, task, effort_
  <2> QED BY <1>6, <2>1
<1>8. \A d \in W : load[d] = SumOf(h, Keyed(B, day, d))
  <2> TAKE d \in W
  <2>1. Keyed(B, day, d) = {s \in slots : s.day = d}
    BY DEF Keyed
  <2>2. load[d] = HoursOn(slots, d)
    OBVIOUS
  <2>3. HoursOn(slots, d) = SumOf(h, {s \in slots : s.day = d})
    BY DEF HoursOn
  <2> HIDE DEF load, h, B, day
  <2> QED BY <2>1, <2>2, <2>3
<1>9. \A x \in S : task[x] \in I
  OBVIOUS
<1>10. \A x \in B : day[x] \in W
  OBVIOUS
<1>11. \A d \in W : load[d] \in Nat /\ room[d] \in Nat /\ load[d] <= room[d]
  <2> TAKE d \in W
  <2>1. d \in Int
    OBVIOUS
  <2>2. HoursOn(slots, d) \in Nat /\ RoomOn(p, d) \in Nat /\ HoursOn(slots, d) <= RoomOn(p, d)
    BY <1>1, <2>1, OnLemma, RoomLemma DEF WellPlaced
  <2>3. load[d] = HoursOn(slots, d) /\ room[d] = RoomOn(p, d)
    OBVIOUS
  <2> HIDE DEF load, room
  <2> QED BY <2>2, <2>3
<1> HIDE DEF W, room, load, h, S, B, task, day, effort_
<1>12. IsFiniteSet(W) /\ IsFiniteSet(I) /\ IsFiniteSet(S) /\ IsFiniteSet(B)
  <2>1. IsFiniteSet(a..b)
    BY FS_Interval
  <2>2. IsFiniteSet(p.tasks)
    BY DEF Solvable
  <2> QED BY <1>1, <1>3, <1>5, <2>1, <2>2, FS_Subset
<1>13. \A x \in S : h[x] \in Nat
  BY <1>2, <1>3
<1>14. \A x \in B : h[x] \in Nat
  BY <1>2, <1>3
<1>15. SumOf(h, S) = SumOf(effort_, I)
  BY <1>7, <1>9, <1>12, <1>13, SumByKey
<1>16. SumOf(h, B) = SumOf(load, W)
  BY <1>8, <1>10, <1>12, <1>14, SumByKey
<1>17. SumOf(h, S) <= SumOf(h, B)
  BY <1>4, <1>12, <1>14, SumPart
<1>18. SumOf(load, W) <= SumOf(room, W)
  BY <1>11, <1>12, SumMonotone
<1>19. SumOf(h, S) \in Nat /\ SumOf(h, B) \in Nat
  BY <1>12, <1>13, <1>14, SumLemma
<1>20. SumOf(load, W) \in Nat /\ SumOf(room, W) \in Nat
  BY <1>11, <1>12, SumLemma
<1> QED BY <1>15, <1>16, <1>17, <1>18, <1>19, <1>20 DEF W, room, effort_

(* The dates of the tasks of p by their slots, and the days that are dates. *)
DatesOf(p, slots) ==
  [t \in p.tasks |-> [start |-> Starts(slots, t), finish |-> Finishes(slots, t)]]
DaysOf(p, D) == {D[t].start : t \in p.tasks} \cup {D[t].finish : t \in p.tasks}

(* No stretch between two dates of D is given more effort than it has room for. *)
StretchesFit(p, D, days) ==
  \A a, b \in days :
    SumOf(p.effort, {t \in p.tasks : D[t].start >= a /\ D[t].finish <= b})
      <= SumOf([d \in a..b |-> RoomOn(p, d)], {d \in a..b : Working(p.cal, d)})

(* No day starts or finishes more tasks than may run in parallel. *)
EndsFit(p, D, days) ==
  \A d \in days :
    Cardinality({t \in p.tasks : d \in {D[t].start, D[t].finish}}) <= p.cal.parallel

(* The dates of a plan whose tasks are well placed. *)
LEMMA DatesLemma ==
  ASSUME NEW p, Solvable(p), NEW slots, WellPlaced(p, slots, p.tasks), NEW D,
         D = DatesOf(p, slots), NEW days, days = DaysOf(p, D)
  PROVE  /\ \A e \in p.edges : D[e[1]].finish < D[e[2]].start
         /\ \A d \in days : d \in Int /\ p.start <= d /\ Working(p.cal, d)
         /\ StretchesFit(p, D, days)
         /\ EndsFit(p, D, days)
<1>1. \A t \in p.tasks : D[t].start = Starts(slots, t) /\ D[t].finish = Finishes(slots, t)
  BY DEF DatesOf
<1>2. /\ slots \in Slots(p.tasks) /\ IsFiniteSet(slots)
      /\ \A s \in slots : p.start <= s.day /\ Working(p.cal, s.day) /\ s.day \in Int
  BY DEF WellPlaced, Slots
<1>3. \A t \in p.tasks :
        /\ Starts(slots, t) \in {s.day : s \in SlotsOf(slots, t)}
        /\ Finishes(slots, t) \in {s.day : s \in SlotsOf(slots, t)}
        /\ Starts(slots, t) \in Int /\ Finishes(slots, t) \in Int
        /\ \A s \in SlotsOf(slots, t) : Starts(slots, t) <= s.day /\ s.day <= Finishes(slots, t)
  <2> TAKE t \in p.tasks
  <2>1. PICK x \in Nat \ {0} : x = p.effort[t]
    BY DEF Solvable
  <2>2. SumOf(Hours(slots), SlotsOf(slots, t)) = x
    BY <2>1 DEF WellPlaced
  <2> QED BY <1>2, <2>2, SlotsOfLemma
<1>4. \A e \in p.edges : D[e[1]].finish < D[e[2]].start
  <2> TAKE e \in p.edges
  <2>1. e[1] \in p.tasks /\ e[2] \in p.tasks
    BY DEF Solvable
  <2> QED BY <1>1, <2>1, InOrder
<1>5. \A d \in days : d \in Int /\ p.start <= d /\ Working(p.cal, d)
  <2> TAKE d \in days
  <2>1. PICK t \in p.tasks : d = Starts(slots, t) \/ d = Finishes(slots, t)
    BY <1>1 DEF DaysOf
  <2>2. PICK s \in SlotsOf(slots, t) : d = s.day
    BY <1>3, <2>1
  <2> QED BY <1>2, <2>2 DEF SlotsOf
<1>6. ASSUME NEW a \in days, NEW b \in days
      PROVE  SumOf(p.effort, {t \in p.tasks : D[t].start >= a /\ D[t].finish <= b})
               <= SumOf([d \in a..b |-> RoomOn(p, d)], {d \in a..b : Working(p.cal, d)})
  <2> DEFINE I == {t \in p.tasks : D[t].start >= a /\ D[t].finish <= b}
  <2>1. a \in Int /\ b \in Int
    BY <1>5
  <2>2. ASSUME NEW t \in I, NEW s \in SlotsOf(slots, t) PROVE a <= s.day /\ s.day <= b
    <3>1. t \in p.tasks /\ Starts(slots, t) >= a /\ Finishes(slots, t) <= b
      BY <1>1
    <3>2. PICK x \in Int : x = s.day
      BY <1>2 DEF SlotsOf
    <3>3. PICK y \in Int : y = Starts(slots, t)
      BY <1>3, <3>1
    <3>4. PICK z \in Int : z = Finishes(slots, t)
      BY <1>3, <3>1
    <3>5. y >= a /\ z <= b /\ y <= x /\ x <= z
      BY <1>3, <3>1, <3>2, <3>3, <3>4
    <3> QED BY <2>1, <3>2, <3>5
  <2>3. I \in SUBSET p.tasks
    OBVIOUS
  <2> HIDE DEF I
  <2>4. SumOf(p.effort, I) <= SumOf([d \in a..b |-> RoomOn(p, d)], {d \in a..b : Working(p.cal, d)})
    BY <2>1, <2>2, <2>3, LoadLemma
  <2> QED BY <2>4 DEF I
<1>7. ASSUME NEW d \in days
      PROVE  Cardinality({t \in p.tasks : d \in {D[t].start, D[t].finish}}) <= p.cal.parallel
  <2> DEFINE N == {t \in p.tasks : d \in {D[t].start, D[t].finish}}
  <2>1. ASSUME NEW t \in N PROVE t \in TasksOn(slots, d)
    <3>1. t \in p.tasks /\ (d = Starts(slots, t) \/ d = Finishes(slots, t))
      BY <1>1
    <3>2. PICK s \in SlotsOf(slots, t) : d = s.day
      BY <1>3, <3>1
    <3> QED BY <3>2 DEF TasksOn, SlotsOf
  <2>2. N \in SUBSET TasksOn(slots, d)
    BY <2>1
  <2> HIDE DEF N
  <2>3. d \in Int
    BY <1>5
  <2>4. /\ IsFiniteSet(TasksOn(slots, d)) /\ Cardinality(TasksOn(slots, d)) \in Nat
        /\ Cardinality(TasksOn(slots, d)) <= p.cal.parallel /\ p.cal.parallel \in Nat
    BY <1>2, <2>3, OnLemma, RoomLemma DEF WellPlaced
  <2>5. Cardinality(N) <= Cardinality(TasksOn(slots, d)) /\ Cardinality(N) \in Nat
    BY <2>2, <2>4, FS_Subset, FS_CardinalityType
  <2>6. Cardinality(N) <= p.cal.parallel
    <3>1. PICK x : x = Cardinality(TasksOn(slots, d))
      OBVIOUS
    <3>2. PICK y : y = p.cal.parallel
      OBVIOUS
    <3> QED BY <2>4, <2>5, <3>1, <3>2
  <2> QED BY <2>6 DEF N
<1>8. StretchesFit(p, D, days)
  BY <1>6 DEF StretchesFit
<1>9. EndsFit(p, D, days)
  BY <1>7 DEF EndsFit
<1> QED BY <1>4, <1>5, <1>8, <1>9

(* The whole plan can be solved once its graph is judged. *)
LEMMA WholeSolvable ==
  Typed /\ GraphError(Tasks, list) = None =>
    /\ Solvable(WholePlan)
    /\ WholePlan.tasks = Tasks /\ WholePlan.edges = Edges /\ WholePlan.effort = effort
    /\ WholePlan.start = project.start /\ WholePlan.cal = WorkCalendar
    /\ WholePlan.team = project.team
<1> SUFFICES ASSUME Typed, GraphError(Tasks, list) = None
             PROVE  /\ Solvable(WholePlan)
                    /\ WholePlan.tasks = Tasks /\ WholePlan.edges = Edges
                    /\ WholePlan.effort = effort /\ WholePlan.start = project.start
                    /\ WholePlan.cal = WorkCalendar /\ WholePlan.team = project.team
  OBVIOUS
<1> DEFINE p == WholePlan
<1>1. /\ p.tasks = Tasks /\ p.edges = Edges /\ p.effort = effort /\ p.score = PlanScore
      /\ p.start = project.start /\ p.cal = WorkCalendar /\ p.team = project.team
      /\ p.deadline = project.deadline
  BY DEF WholePlan
<1>2. list \in Seq(Int \X Int) /\ effort \in [Tasks -> Nat \ {0}]
  BY DEF Typed
<1>3. GoodList(Tasks, list) /\ NoCircle(Tasks, Edges)
  BY <1>2, TasksLemma, GraphErrorLemma DEF Edges
<1>4. Edges \in SUBSET (Tasks \X Tasks)
  BY <1>3, GoodListEdges DEF Edges
<1>5. \A t \in Tasks : PlanScore[t] \in Int
  BY <1>3, <1>4, TasksLemma, TasksAssumption, ScoreLemma DEF PlanScore
<1>6. /\ project.start \in Int /\ project.team \in Nat \ {0} /\ IsCalendar(WorkCalendar)
      /\ project.deadline \in {None} \cup Int
  BY ProjectLemma, CalendarLemma
<1> HIDE DEF p
<1>7. Solvable(p)
  BY <1>1, <1>2, <1>3, <1>4, <1>5, <1>6, TasksLemma DEF Solvable
<1> QED BY <1>1, <1>7 DEF p

(* A judgement that passes has dated the plan. *)
LEMMA PassedIsDated ==
  ASSUME Typed, Judged, JudgeCandidate \/ Validate, quality' = "passed"
  PROVE  LET s == ScheduleTasks(WholePlan) IN
         /\ GraphError(Tasks, list) = None /\ s.outcome = "placed" /\ dates' = Dated(s)
         /\ list' = list /\ effort' = effort /\ project' = project
<1> DEFINE s == ScheduleTasks(WholePlan)
<1>1. GraphIssues = {} <=> GraphError(Tasks, list) = None
  BY DEF GraphIssues
<1>2. CASE JudgeCandidate
  <2>1. /\ quality' = IF GraphIssues = {} /\ s.outcome = "placed" THEN "passed" ELSE "failed"
        /\ dates' = IF GraphIssues = {} /\ s.outcome = "placed" THEN Dated(s) ELSE dates
        /\ list' = list /\ effort' = effort /\ project' = project
    BY <1>2 DEF JudgeCandidate
  <2> HIDE DEF s
  <2>2. GraphIssues = {} /\ s.outcome = "placed"
    BY <2>1
  <2> QED BY <1>1, <2>1, <2>2 DEF s
<1>3. CASE Validate
  <2>1. /\ quality' = IF StructuralIssues \cup GraphIssues
                         \cup (IF GraphIssues = {} THEN ScheduleIssues(s) ELSE {}) = {}
                      THEN "passed" ELSE "failed"
        /\ dates' = IF GraphIssues = {} /\ s.outcome = "placed" THEN Dated(s) ELSE dates
        /\ list' = list /\ effort' = effort /\ project' = project
    BY <1>3 DEF Validate
  <2>2. Solvable(WholePlan) \/ GraphError(Tasks, list) # None
    BY WholeSolvable
  <2>3. GraphError(Tasks, list) = None => s.outcome \in {"placed", "no_capacity", "error"}
    <3>1. SUFFICES ASSUME Solvable(WholePlan) PROVE s.outcome \in {"placed", "no_capacity", "error"}
      BY <2>2
    <3>2. PICK p : p = WholePlan
      OBVIOUS
    <3>3. PICK x : x = ScheduleTasks(p)
      OBVIOUS
    <3>4. x.outcome \in {"placed", "no_capacity", "error"}
      BY <3>1, <3>2, <3>3, ScheduleLemma
    <3> QED BY <3>2, <3>3, <3>4
  <2> HIDE DEF s
  <2>4. GraphIssues = {} /\ ScheduleIssues(s) = {}
    BY <2>1
  <2>5. s.outcome = "placed"
    BY <1>1, <2>3, <2>4 DEF ScheduleIssues
  <2> QED BY <1>1, <2>1, <2>4, <2>5 DEF s
<1> QED BY <1>2, <1>3

(* A judgement that passes leaves dates that can be kept. *)
LEMMA FitsLemma ==
  Typed /\ Judged => ((JudgeCandidate \/ Validate) /\ quality' = "passed" => Fits')
<1> SUFFICES ASSUME Typed, Judged, JudgeCandidate \/ Validate, quality' = "passed" PROVE Fits'
  OBVIOUS
<1> DEFINE p == WholePlan
           s == ScheduleTasks(p)
           slots == s.slots
<1>1. /\ GraphError(Tasks, list) = None /\ s.outcome = "placed" /\ dates' = Dated(s)
      /\ list' = list /\ effort' = effort /\ project' = project
  BY PassedIsDated
<1>2. /\ Solvable(p) /\ p.tasks = Tasks /\ p.edges = Edges /\ p.effort = effort
      /\ p.start = project.start /\ p.cal = WorkCalendar /\ p.team = project.team
  BY <1>1, WholeSolvable
<1> HIDE DEF p
<1>3. WellPlaced(p, slots, p.tasks)
  <2>1. PICK x : x = ScheduleTasks(p)
    OBVIOUS
  <2>2. WellPlaced(p, x.slots, p.tasks)
    BY <1>1, <1>2, <2>1, ScheduleLemma
  <2> QED BY <2>1, <2>2
<1>4. PICK D : D = dates'
  OBVIOUS
<1>5. D = DatesOf(p, slots)
  BY <1>1, <1>2, <1>4 DEF Dated, DatesOf
<1> HIDE DEF s, slots
<1>6. PICK days : days = DaysOf(p, D)
  OBVIOUS
<1>7. /\ \A e \in p.edges : D[e[1]].finish < D[e[2]].start
      /\ \A d \in days : d \in Int /\ p.start <= d /\ Working(p.cal, d)
      /\ StretchesFit(p, D, days)
      /\ EndsFit(p, D, days)
  BY <1>2, <1>3, <1>5, <1>6, DatesLemma
<1>8. Edges' = Edges /\ WorkCalendar' = WorkCalendar
  BY <1>1 DEF Edges, WorkCalendar
<1>9. \A d : Capacity(d)' = RoomOn(p, d)
  BY <1>1, <1>2, <1>8 DEF Capacity, RoomOn
<1>10. \A d \in days : d >= project'.start /\ Working(WorkCalendar', d)
  <2> TAKE d \in days
  <2>1. p.start \in Int /\ p.start <= d /\ d \in Int
    BY <1>2, <1>7 DEF Solvable
  <2>2. PICK x \in Int : x = p.start
    BY <2>1
  <2>3. d >= x
    BY <2>1, <2>2
  <2> QED BY <1>1, <1>2, <1>7, <1>8, <2>2, <2>3
<1>11. \A a, b \in days :
         SumOf(effort', {t \in Tasks : dates'[t].start >= a /\ dates'[t].finish <= b})
           <= SumOf([d \in a..b |-> Capacity(d)'], {d \in a..b : Working(WorkCalendar', d)})
  <2> TAKE a, b \in days
  <2>1. [d \in a..b |-> Capacity(d)'] = [d \in a..b |-> RoomOn(p, d)]
    BY <1>9
  <2>2. {d \in a..b : Working(WorkCalendar', d)} = {d \in a..b : Working(p.cal, d)}
    BY <1>2, <1>8
  <2>3. {t \in Tasks : dates'[t].start >= a /\ dates'[t].finish <= b}
          = {t \in p.tasks : D[t].start >= a /\ D[t].finish <= b}
    BY <1>2, <1>4
  <2> QED BY <1>1, <1>2, <1>7, <2>1, <2>2, <2>3 DEF StretchesFit
<1>12. days = {dates'[t].start : t \in Tasks} \cup {dates'[t].finish : t \in Tasks}
  BY <1>2, <1>4, <1>6 DEF DaysOf
<1>13. \A e \in Edges' : dates'[e[1]].finish < dates'[e[2]].start
  BY <1>2, <1>4, <1>7, <1>8
<1>14. \A d \in days :
         Cardinality({t \in Tasks : d \in {dates'[t].start, dates'[t].finish}}) <= WorkCalendar'.parallel
  BY <1>2, <1>4, <1>7, <1>8 DEF EndsFit
<1> QED BY <1>10, <1>11, <1>12, <1>13, <1>14 DEF Fits

(* The quality gate passes a plan only with dates that can be kept: after every         *)
(* predecessor, on working days, with no more work in any stretch of days than the team *)
(* has hours there and no more tasks on a day than the limit.                           *)
THEOREM DatesFitHolds == Spec => DatesFit
<1>1. Typed /\ Judged /\ [Next]_vars => [(JudgeCandidate \/ Validate) /\ quality' = "passed" => Fits']_vars
  BY FitsLemma
<1> QED BY <1>1, GraphHolds, PTL DEF Spec, DatesFit

-----------------------------------------------------------------------------
(* Chains of dependencies *)

(* A graph that validate_graph accepts. *)
Graph(tasks, edges) ==
  /\ tasks \in SUBSET Int /\ IsFiniteSet(tasks)
  /\ edges \in SUBSET (tasks \X tasks) /\ NoCircle(tasks, edges)

(* What comes after a task is behind one of its successors, and before what comes *)
(* after it.                                                                      *)
LEMMA AfterLemma ==
  ASSUME NEW tasks, NEW edges, Graph(tasks, edges), NEW t \in tasks
  PROVE  /\ After(tasks, edges, t) \subseteq tasks
         /\ t \notin After(tasks, edges, t)
         /\ \A v : v \in After(tasks, edges, t) <=>
                     \E u \in Succs(edges, t) : v = u \/ v \in After(tasks, edges, u)
         /\ \A v \in After(tasks, edges, t) : After(tasks, edges, v) \subseteq After(tasks, edges, t)
         /\ \A v \in After(tasks, edges, t) :
              \E p \in Preds(edges, v) : p = t \/ p \in After(tasks, edges, t)
<1>1. edges \in SUBSET (tasks \X tasks)
  BY DEF Graph
<1>2. \A x : Succs(edges, x) \subseteq tasks
  BY <1>1, EdgesLemma
<1>3. \A x \in tasks : After(tasks, edges, x) \subseteq tasks
  BY DEF After
<1>4. ASSUME NEW x \in tasks
      PROVE  \A v : v \in After(tasks, edges, x) <=>
                      \E u \in Succs(edges, x) : v = u \/ v \in After(tasks, edges, u)
  <2> DEFINE f == [y \in tasks |-> After(tasks, edges, y)]
  <2>1. Unfolds(tasks, edges, f)
    BY <1>1, AfterUnfolds
  <2>2. \A y \in tasks : f[y] = After(tasks, edges, y)
    OBVIOUS
  <2> HIDE DEF f
  <2>3. f[x] = UNION {{u} \cup f[u] : u \in Succs(edges, x)}
    BY <2>1 DEF Unfolds
  <2>4. \A v : v \in f[x] <=> \E u \in Succs(edges, x) : v \in {u} \cup f[u]
    BY <2>3
  <2> QED BY <1>2, <2>2, <2>4
<1>5. ASSUME NEW x \in tasks, NEW v \in After(tasks, edges, x)
      PROVE  After(tasks, edges, v) \subseteq After(tasks, edges, x)
  BY <1>5 DEF After
<1>6. t \notin After(tasks, edges, t)
  <2> SUFFICES ASSUME t \in After(tasks, edges, t) PROVE FALSE
    OBVIOUS
  <2> DEFINE S == {x \in After(tasks, edges, t) : t \in After(tasks, edges, x)}
  <2>1. S \in SUBSET tasks /\ t \in S
    BY <1>3
  <2>2. PICK u \in S : Succs(edges, u) \cap S = {}
    <3> HIDE DEF S
    <3> QED BY <2>1, LastOfSet DEF Graph
  <2>3. u \in tasks /\ t \in After(tasks, edges, u) /\ u \in After(tasks, edges, t)
    BY <2>1
  <2>4. PICK x \in Succs(edges, u) : t = x \/ t \in After(tasks, edges, x)
    BY <1>4, <2>3
  <2>5. x \in After(tasks, edges, t)
    BY <1>4, <1>5, <2>3
  <2>6. x \in S
    BY <2>1, <2>4, <2>5
  <2> QED BY <2>2, <2>6
<1>7. ASSUME NEW v \in After(tasks, edges, t)
      PROVE  \E p \in Preds(edges, v) : p = t \/ p \in After(tasks, edges, t)
  <2> SUFFICES ASSUME \A p \in Preds(edges, v) : p # t /\ p \notin After(tasks, edges, t)
               PROVE  FALSE
    OBVIOUS
  <2> DEFINE S == After(tasks, edges, t) \ {v}
  <2>1. \A x \in tasks : v \in Succs(edges, x) => x \in Preds(edges, v)
    BY <1>1, EdgesLemma
  <2>2. Succs(edges, t) \subseteq S
    BY <1>4, <2>1
  <2>3. ASSUME NEW x \in S PROVE Succs(edges, x) \subseteq S
    <3>1. x \in tasks /\ x \in After(tasks, edges, t)
      BY <1>3
    <3>2. Succs(edges, x) \subseteq After(tasks, edges, t)
      BY <1>4, <1>5, <3>1
    <3> QED BY <2>1, <3>1, <3>2
  <2>4. S \in SUBSET tasks
    BY <1>3
  <2>5. v \in S
    <3> HIDE DEF S
    <3> QED BY <2>2, <2>3, <2>4 DEF After
  <2> QED BY <2>5
<1> QED BY <1>3, <1>4, <1>5, <1>6, <1>7

(* The same tasks the other way round. *)
Reversed(edges) == {<<e[2], e[1]>> : e \in edges}

(* The other way round a graph is a graph, and what a task waits for follows it. *)
LEMMA ReversedLemma ==
  ASSUME NEW tasks, NEW edges, Graph(tasks, edges)
  PROVE  /\ Graph(tasks, Reversed(edges)) /\ Reversed(Reversed(edges)) = edges
         /\ \A t : /\ Preds(Reversed(edges), t) = Succs(edges, t)
                   /\ Succs(Reversed(edges), t) = Preds(edges, t)
<1> DEFINE r == Reversed(edges)
<1>1. edges \in SUBSET (tasks \X tasks) /\ tasks \in SUBSET Int /\ IsFiniteSet(tasks)
  BY DEF Graph
<1>2. \A e \in edges : e = <<e[1], e[2]>> /\ e[1] \in tasks /\ e[2] \in tasks
  BY <1>1
<1>3. \A a, b : <<a, b>> \in r <=> <<b, a>> \in edges
  <2> TAKE a, b
  <2>1. ASSUME <<a, b>> \in r PROVE <<b, a>> \in edges
    <3>1. PICK e \in edges : <<a, b>> = <<e[2], e[1]>>
      BY <2>1 DEF Reversed
    <3>2. a = e[2] /\ b = e[1]
      BY <3>1
    <3> QED BY <1>2, <3>2
  <2>2. ASSUME <<b, a>> \in edges PROVE <<a, b>> \in r
    <3>1. <<b, a>>[1] = b /\ <<b, a>>[2] = a
      OBVIOUS
    <3> QED BY <2>2, <3>1 DEF Reversed
  <2> QED BY <2>1, <2>2
<1>4. r \in SUBSET (tasks \X tasks)
  BY <1>2 DEF Reversed
<1>5. \A e \in r : e = <<e[1], e[2]>>
  BY <1>4
<1> HIDE DEF r
<1>6. \A t : Preds(r, t) = Succs(edges, t) /\ Succs(r, t) = Preds(edges, t)
  <2> TAKE t
  <2>1. \A u : u \in Preds(r, t) <=> u \in Succs(edges, t)
    BY <1>1, <1>3, <1>4, EdgesLemma
  <2>2. \A u : u \in Succs(r, t) <=> u \in Preds(edges, t)
    BY <1>1, <1>3, <1>4, EdgesLemma
  <2> QED BY <2>1, <2>2
<1>7. Reversed(r) = edges
  <2>1. \A e : e \in Reversed(r) <=> \E d \in r : e = <<d[2], d[1]>>
    BY DEF Reversed
  <2>2. ASSUME NEW e, e \in Reversed(r) PROVE e \in edges
    <3>1. PICK d \in r : e = <<d[2], d[1]>>
      BY <2>1, <2>2
    <3> QED BY <1>3, <1>5, <3>1
  <2>3. ASSUME NEW e \in edges PROVE e \in Reversed(r)
    <3>1. <<e[2], e[1]>> \in r
      BY <1>2, <1>3
    <3>2. <<e[2], e[1]>>[1] = e[2] /\ <<e[2], e[1]>>[2] = e[1]
      OBVIOUS
    <3> QED BY <1>2, <2>1, <3>1, <3>2
  <2> QED BY <2>2, <2>3
<1>8. NoCircle(tasks, r)
  <2> SUFFICES ASSUME NEW S \in SUBSET tasks, S # {} PROVE \E t \in S : Preds(r, t) \cap S = {}
    BY DEF NoCircle
  <2> QED BY <1>6, LastOfSet DEF Graph
<1> QED BY <1>1, <1>4, <1>6, <1>7, <1>8 DEF Graph, r

(* What comes after a task comes before it the other way round. *)
LEMMA AfterReversed ==
  ASSUME NEW tasks, NEW edges, Graph(tasks, edges), NEW u \in tasks,
         NEW t \in After(tasks, edges, u)
  PROVE  u \in After(tasks, Reversed(edges), t)
<1> DEFINE r == Reversed(edges)
           S == {x \in After(tasks, edges, u) : u \in After(tasks, r, x)}
<1>1. Graph(tasks, r) /\ \A x : Succs(r, x) = Preds(edges, x)
  BY ReversedLemma
<1>2. edges \in SUBSET (tasks \X tasks)
  BY DEF Graph
<1>3. \A x, y : y \in Succs(edges, x) => x \in Succs(r, y) /\ y \in tasks
  <2>1. \A x, y : y \in Succs(edges, x) => x \in Preds(edges, y) /\ y \in tasks
    BY <1>2, EdgesLemma
  <2> QED BY <1>1, <2>1
<1> HIDE DEF r
<1>4. After(tasks, edges, u) \subseteq tasks
  BY AfterLemma
<1>5. ASSUME NEW y \in Succs(edges, u) PROVE y \in S
  <2>1. y \in After(tasks, edges, u)
    BY AfterLemma
  <2>2. u \in After(tasks, r, y)
    <3>1. u \in Succs(r, y) /\ y \in tasks
      BY <1>3
    <3> QED BY <1>1, <3>1, AfterLemma
  <2> QED BY <2>1, <2>2
<1>6. ASSUME NEW x \in S, NEW y \in Succs(edges, x) PROVE y \in S
  <2>1. x \in tasks /\ x \in After(tasks, edges, u) /\ u \in After(tasks, r, x)
    BY <1>4
  <2>2. y \in After(tasks, edges, x)
    BY <2>1, AfterLemma
  <2>3. y \in After(tasks, edges, u)
    BY <2>1, <2>2, AfterLemma
  <2>4. y \in tasks /\ x \in Succs(r, y)
    BY <1>3
  <2>5. u \in After(tasks, r, y)
    BY <1>1, <2>1, <2>4, AfterLemma
  <2> QED BY <2>3, <2>5
<1>7. S \in SUBSET tasks
  BY <1>4
<1>8. t \in S
  <2> HIDE DEF S
  <2> QED BY <1>5, <1>6, <1>7 DEF After
<1> QED BY <1>8 DEF r

(* Tasks each two of which come one after the other. *)
Chain(tasks, edges, S) ==
  /\ S \in SUBSET tasks
  /\ \A t, u \in S : t = u \/ u \in After(tasks, edges, t) \/ t \in After(tasks, edges, u)

(* A chain that ends with t. *)
ChainTo(tasks, edges, S, t) ==
  Chain(tasks, edges, S) /\ t \in S /\ \A u \in S : u = t \/ t \in After(tasks, edges, u)

(* A chain is a chain the other way round. *)
LEMMA ChainReversed ==
  ASSUME NEW tasks, NEW edges, Graph(tasks, edges), NEW S
  PROVE  Chain(tasks, edges, S) <=> Chain(tasks, Reversed(edges), S)
<1> DEFINE r == Reversed(edges)
<1>1. Graph(tasks, r) /\ Reversed(r) = edges
  BY ReversedLemma
<1>2. \A u \in tasks : \A t \in After(tasks, edges, u) : u \in After(tasks, r, t)
  BY AfterReversed
<1>3. \A u \in tasks : \A t \in After(tasks, r, u) : u \in After(tasks, edges, t)
  <2> HIDE DEF r
  <2> QED BY <1>1, AfterReversed
<1> HIDE DEF r
<1> QED BY <1>2, <1>3 DEF Chain, r

(* A chain has a last task. *)
LEMMA TopOfChain ==
  ASSUME NEW tasks, NEW edges, Graph(tasks, edges), NEW S, Chain(tasks, edges, S), S # {}
  PROVE  \E t \in S : ChainTo(tasks, edges, S, t)
<1> DEFINE U == {x \in tasks : x \in S \/ After(tasks, edges, x) \cap S # {}}
<1>1. S \in SUBSET tasks
  BY DEF Chain
<1>2. U \in SUBSET tasks /\ U # {}
  BY <1>1
<1>3. PICK x \in U : Succs(edges, x) \cap U = {}
  <2> HIDE DEF U
  <2> QED BY <1>2, LastOfSet DEF Graph
<1>4. x \in tasks
  OBVIOUS
<1>5. \A y \in Succs(edges, x) : y \in tasks
  BY EdgesLemma DEF Graph
<1>6. After(tasks, edges, x) \cap S = {}
  <2> SUFFICES ASSUME NEW s \in After(tasks, edges, x), s \in S PROVE FALSE
    OBVIOUS
  <2>1. PICK y \in Succs(edges, x) : s = y \/ s \in After(tasks, edges, y)
    BY <1>4, AfterLemma
  <2>2. y \in U
    BY <1>5, <2>1
  <2> QED BY <1>3, <2>2
<1>7. x \in S
  BY <1>3, <1>6
<1>8. \A u \in S : u = x \/ x \in After(tasks, edges, u)
  BY <1>6, <1>7 DEF Chain
<1> QED BY <1>7, <1>8 DEF ChainTo

-----------------------------------------------------------------------------
(* The heaviest chains *)

(* The number that all others of a set are at most. *)
LEMMA MaxIs ==
  ASSUME NEW S \in SUBSET Int, NEW n \in S, \A x \in S : x <= n
  PROVE  Max(S) = n
<1>1. Max(S) \in S /\ \A y \in S : Max(S) >= y
  <2>1. \E x \in S : \A y \in S : x >= y
    <3>1. \A y \in S : n >= y
      OBVIOUS
    <3> QED BY <3>1
  <2> QED BY <2>1 DEF Max
<1>2. PICK m : m = Max(S)
  OBVIOUS
<1>3. m \in Int /\ n \in Int /\ m <= n /\ m >= n
  BY <1>1, <1>2
<1>4. m = n
  BY <1>3
<1> QED BY <1>2, <1>4

(* What f gives for the members of P. *)
Values(f, P) == {f[p] : p \in P}

(* The largest and the smallest value of f on a finite set. *)
LEMMA LargestLemma ==
  ASSUME NEW P, IsFiniteSet(P), NEW f, \A p \in P : f[p] \in Int, NEW d
  PROVE  LET m == LargestOf(Values(f, P), d)
             l == SmallestOf(Values(f, P), d) IN
         /\ P = {} => m = d /\ l = d
         /\ P # {} => (\E p \in P : m = f[p]) /\ (\E p \in P : l = f[p])
         /\ \A p \in P : f[p] <= m /\ l <= f[p]
<1> DEFINE D == Values(f, P)
           g == [p \in P |-> f[p]]
<1>1. g \in Surjection(P, D)
  BY DEF Surjection, Values
<1>2. D \in SUBSET Int /\ (P = {} <=> D = {})
  BY DEF Values
<1>3. \A x : x \in D <=> \E p \in P : x = f[p]
  BY DEF Values
<1> HIDE DEF g, D
<1>4. IsFiniteSet(D)
  BY <1>1, FS_Surjection
<1>5. P # {} => /\ Min(D) \in D /\ \A x \in D : Min(D) <= x
                /\ Max(D) \in D /\ \A x \in D : x <= Max(D)
  BY <1>2, <1>4, MinMax
<1>6. LargestOf(D, d) = (IF P = {} THEN d ELSE Max(D))
      /\ SmallestOf(D, d) = (IF P = {} THEN d ELSE Min(D))
  BY <1>2 DEF LargestOf, SmallestOf
<1>7. /\ P = {} => LargestOf(D, d) = d /\ SmallestOf(D, d) = d
      /\ P # {} => (\E p \in P : LargestOf(D, d) = f[p]) /\ (\E p \in P : SmallestOf(D, d) = f[p])
      /\ \A p \in P : f[p] <= LargestOf(D, d) /\ SmallestOf(D, d) <= f[p]
  BY <1>3, <1>5, <1>6
<1> QED BY <1>7 DEF D

(* n hours are what the heaviest chain that ends with t weighs. *)
Heaviest(tasks, edges, hours, t, n) ==
  /\ n \in Nat
  /\ \E S \in SUBSET tasks : ChainTo(tasks, edges, S, t) /\ SumOf(hours, S) = n
  /\ \A S \in SUBSET tasks : ChainTo(tasks, edges, S, t) => SumOf(hours, S) <= n

(* A chain to t is a chain to one of its predecessors, and t. *)
LEMMA HeaviestStep ==
  ASSUME NEW tasks, NEW edges, Graph(tasks, edges), NEW hours, \A t \in tasks : hours[t] \in Nat,
         NEW t \in tasks, NEW f,
         \A p \in Preds(edges, t) : Heaviest(tasks, edges, hours, p, f[p])
  PROVE  Heaviest(tasks, edges, hours, t,
                  LargestOf(Values(f, Preds(edges, t)), 0) + hours[t])
<1> DEFINE P == Preds(edges, t)
           m == LargestOf(Values(f, P), 0)
<1>1. P \in SUBSET tasks /\ IsFiniteSet(tasks)
  BY EdgesLemma DEF Graph
<1>2. \A p \in P : f[p] \in Nat
  BY DEF Heaviest
<1>3. /\ P = {} => m = 0
      /\ P # {} => \E p \in P : m = f[p]
      /\ \A p \in P : f[p] <= m
  <2>1. IsFiniteSet(P) /\ \A p \in P : f[p] \in Int
    BY <1>1, <1>2, FS_Subset
  <2>2. PICK Q : Q = P
    OBVIOUS
  <2>3. IsFiniteSet(Q) /\ \A p \in Q : f[p] \in Int
    BY <2>1, <2>2
  <2>4. LET k == LargestOf(Values(f, Q), 0) IN
        (Q = {} => k = 0) /\ (Q # {} => \E p \in Q : k = f[p]) /\ (\A p \in Q : f[p] <= k)
    <3> HIDE DEF P
    <3> QED BY <2>3, LargestLemma
  <2> QED BY <2>2, <2>4
<1>4. \A p \in P : t \in After(tasks, edges, p)
  <2>1. \A p \in P : p \in tasks /\ t \in Succs(edges, p)
    BY <1>1, EdgesLemma DEF Graph
  <2> QED BY <2>1, AfterLemma
<1> HIDE DEF m
<1>5. m \in Nat
  BY <1>2, <1>3
<1>6. \A S \in SUBSET tasks : /\ IsFiniteSet(S) /\ SumOf(hours, S) \in Nat
                              /\ (S = {} => SumOf(hours, S) = 0)
  <2> TAKE S \in SUBSET tasks
  <2>1. IsFiniteSet(S) /\ \A x \in S : hours[x] \in Nat
    BY <1>1, FS_Subset
  <2> QED BY <2>1, SumLemma
<1>7. ASSUME NEW S \in SUBSET tasks, ChainTo(tasks, edges, S, t)
      PROVE  SumOf(hours, S) <= m + hours[t]
  <2> DEFINE R == S \ {t}
  <2>1. Chain(tasks, edges, S) /\ t \in S /\ \A u \in S : u = t \/ t \in After(tasks, edges, u)
    BY <1>7 DEF ChainTo
  <2>2. SumOf(hours, S) = hours[t] + SumOf(hours, R)
    <3>1. IsFiniteSet(S) /\ \A x \in S : hours[x] \in Nat
      BY <1>6
    <3> QED BY <2>1, <3>1, SumLemma
  <2>3. R \in SUBSET tasks /\ Chain(tasks, edges, R) /\ \A u \in R : t \in After(tasks, edges, u)
    BY <2>1 DEF Chain
  <2> HIDE DEF R
  <2>4. SumOf(hours, R) \in Nat /\ SumOf(hours, R) <= m
    <3>1. CASE R = {}
      BY <1>5, <1>6, <2>3, <3>1
    <3>2. CASE R # {}
      <4>1. PICK v \in R : ChainTo(tasks, edges, R, v)
        BY <2>3, <3>2, TopOfChain
      <4>2. v \in tasks /\ t \in After(tasks, edges, v)
        BY <2>3
      <4>3. PICK p \in P : p = v \/ p \in After(tasks, edges, v)
        BY <4>2, AfterLemma
      <4>4. \A u \in R : u = p \/ p \in After(tasks, edges, u)
        <5> TAKE u \in R
        <5>1. u \in tasks /\ (u = v \/ v \in After(tasks, edges, u))
          BY <2>3, <4>1 DEF ChainTo
        <5> QED BY <4>3, <5>1, AfterLemma
      <4>5. R \cup {p} \in SUBSET tasks /\ p \in tasks
        BY <1>1, <2>3
      <4>6. ChainTo(tasks, edges, R \cup {p}, p)
        BY <2>3, <4>4, <4>5 DEF ChainTo, Chain
      <4>7. SumOf(hours, R \cup {p}) <= f[p]
        BY <4>5, <4>6 DEF Heaviest
      <4>8. SumOf(hours, R) <= SumOf(hours, R \cup {p})
        <5>1. PICK T : T = R \cup {p}
          OBVIOUS
        <5>2. IsFiniteSet(T) /\ R \in SUBSET T /\ \A x \in T : hours[x] \in Nat
          BY <1>6, <4>5, <5>1
        <5> QED BY <5>1, <5>2, SumPart
      <4>9. SumOf(hours, R) \in Nat /\ SumOf(hours, R \cup {p}) \in Nat /\ f[p] \in Nat /\ f[p] <= m
        BY <1>2, <1>3, <1>6, <2>3, <4>5
      <4>10. \A a, b, c \in Nat : a <= b /\ b <= c /\ c <= m => a <= m
        BY <1>5
      <4> QED BY <4>7, <4>8, <4>9, <4>10
    <3> QED BY <3>1, <3>2
  <2>5. \A a, b \in Nat : a <= m => b + a <= m + b
    BY <1>5
  <2>6. SumOf(hours, S) \in Nat /\ hours[t] \in Nat
    BY <1>6
  <2> QED BY <2>2, <2>4, <2>5, <2>6
<1>8. \E S \in SUBSET tasks : ChainTo(tasks, edges, S, t) /\ SumOf(hours, S) = m + hours[t]
  <2>1. CASE P = {}
    <3>1. {t} \in SUBSET tasks /\ ChainTo(tasks, edges, {t}, t)
      BY DEF ChainTo, Chain
    <3>2. SumOf(hours, {t}) = hours[t] + SumOf(hours, {t} \ {t})
      <4>1. PICK T : T = {t}
        OBVIOUS
      <4>2. IsFiniteSet(T) /\ \A x \in T : hours[x] \in Nat
        BY <1>6, <3>1, <4>1
      <4> QED BY <4>1, <4>2, SumLemma
    <3>3. SumOf(hours, {t} \ {t}) = 0
      BY <1>6
    <3>4. SumOf(hours, {t}) = m + hours[t]
      BY <1>3, <2>1, <3>2, <3>3
    <3> QED BY <3>1, <3>4
  <2>2. CASE P # {}
    <3>1. PICK p \in P : m = f[p]
      BY <1>3, <2>2
    <3>2. PICK S \in SUBSET tasks : ChainTo(tasks, edges, S, p) /\ SumOf(hours, S) = m
      BY <3>1 DEF Heaviest
    <3>3. p \in tasks /\ t \in After(tasks, edges, p)
      BY <1>1, <1>4
    <3>4. \A u \in S : t \in After(tasks, edges, u)
      <4> TAKE u \in S
      <4>1. u \in tasks /\ (u = p \/ p \in After(tasks, edges, u))
        BY <3>2 DEF ChainTo
      <4> QED BY <3>3, <4>1, AfterLemma
    <3>5. t \notin S
      BY <3>4, AfterLemma
    <3>6. S \cup {t} \in SUBSET tasks
      OBVIOUS
    <3>7. ChainTo(tasks, edges, S \cup {t}, t)
      BY <3>2, <3>4, <3>6 DEF ChainTo, Chain
    <3>8. SumOf(hours, S \cup {t}) = hours[t] + SumOf(hours, S)
      <4>1. IsFiniteSet(S) /\ \A x \in S \cup {t} : hours[x] \in Nat
        BY <1>6
      <4> QED BY <3>5, <4>1, SumAdd
    <3>9. SumOf(hours, S \cup {t}) = m + hours[t]
      <4>1. hours[t] \in Nat
        OBVIOUS
      <4> QED BY <1>5, <3>2, <3>8, <4>1
    <3> QED BY <3>6, <3>7, <3>9
  <2> QED BY <2>1, <2>2
<1>9. m + hours[t] \in Nat
  <2>1. hours[t] \in Nat
    OBVIOUS
  <2> QED BY <1>5, <2>1
<1>10. Heaviest(tasks, edges, hours, t, m + hours[t])
  BY <1>7, <1>8, <1>9 DEF Heaviest
<1> QED BY <1>10 DEF m

(* There is one weight of the heaviest chain to a task. *)
LEMMA HeaviestLemma ==
  ASSUME NEW tasks, NEW edges, Graph(tasks, edges), NEW hours, \A t \in tasks : hours[t] \in Nat
  PROVE  /\ \A t \in tasks : \E n : Heaviest(tasks, edges, hours, t, n)
         /\ \A t, m, n : /\ Heaviest(tasks, edges, hours, t, m)
                         /\ Heaviest(tasks, edges, hours, t, n)
                         => m = n
<1> DEFINE H(t, n) == Heaviest(tasks, edges, hours, t, n)
           S == {t \in tasks : \A n : ~ H(t, n)}
           f == [t \in tasks |-> CHOOSE n : H(t, n)]
<1>1. S = {}
  <2> SUFFICES ASSUME S # {} PROVE FALSE
    OBVIOUS
  <2>1. S \in SUBSET tasks
    OBVIOUS
  <2>2. PICK t \in S : Preds(edges, t) \cap S = {}
    <3> HIDE DEF S
    <3> QED BY <2>1 DEF Graph, NoCircle
  <2>3. t \in tasks /\ Preds(edges, t) \subseteq tasks
    BY EdgesLemma DEF Graph
  <2>4. \A p \in Preds(edges, t) : H(p, f[p])
    <3> TAKE p \in Preds(edges, t)
    <3>1. p \in tasks /\ \E n : H(p, n)
      BY <2>2, <2>3
    <3>2. f[p] = CHOOSE n : H(p, n)
      BY <3>1
    <3> HIDE DEF H, f
    <3> QED BY <3>1, <3>2
  <2> HIDE DEF f, S
  <2>5. \E n : H(t, n)
    BY <2>3, <2>4, HeaviestStep
  <2> QED BY <2>5 DEF S
<1>2. \A t, m, n : H(t, m) /\ H(t, n) => m = n
  BY DEF Heaviest
<1> QED BY <1>1, <1>2

-----------------------------------------------------------------------------
(* The critical path *)

(* f is a solution of the recursion of EarliestFinish, and of LatestStart. *)
IsEarliest(tasks, edges, hours, f) ==
  f = [t \in tasks |-> LargestOf({f[p] : p \in Preds(edges, t)}, 0) + hours[t]]
(* f is a solution of the recursion of the latest starts. *)
IsLatest(tasks, edges, hours, end, f) ==
  f = [t \in tasks |-> SmallestOf({f[s] : s \in Succs(edges, t)}, end) - hours[t]]

(* A task ends when the heaviest chain that ends with it has been worked off. *)
LEMMA EarliestLemma ==
  ASSUME NEW tasks, NEW edges, Graph(tasks, edges), NEW hours, \A t \in tasks : hours[t] \in Nat,
         NEW t \in tasks
  PROVE  Heaviest(tasks, edges, hours, t, EarliestFinish(tasks, edges, hours)[t])
<1> DEFINE H(u, n) == Heaviest(tasks, edges, hours, u, n)
           F == [u \in tasks |-> CHOOSE n : H(u, n)]
           f == CHOOSE g : IsEarliest(tasks, edges, hours, g)
           B == {u \in tasks : ~ H(u, f[u])}
<1>1. EarliestFinish(tasks, edges, hours) = [u \in tasks |-> f[u]]
  BY DEF EarliestFinish, IsEarliest
<1>2. \A u \in tasks : F[u] = CHOOSE n : H(u, n)
  OBVIOUS
<1>3. \A u \in tasks : (\E n : H(u, n)) /\ \A m, n : H(u, m) /\ H(u, n) => m = n
  BY HeaviestLemma
<1>4. \A u \in tasks : Preds(edges, u) \in SUBSET tasks
  BY EdgesLemma DEF Graph
<1>5. \A u \in tasks : H(u, F[u])
  <2> HIDE DEF F, H
  <2> QED BY <1>2, <1>3
<1>6. F \in [tasks -> {F[u] : u \in tasks}]
  OBVIOUS
<1>7. ASSUME NEW u \in tasks
      PROVE  F[u] = LargestOf({F[p] : p \in Preds(edges, u)}, 0) + hours[u]
  <2>1. \A p \in Preds(edges, u) : H(p, F[p])
    BY <1>4, <1>5
  <2> HIDE DEF F
  <2>2. H(u, LargestOf(Values(F, Preds(edges, u)), 0) + hours[u])
    BY <2>1, HeaviestStep
  <2>3. F[u] = LargestOf(Values(F, Preds(edges, u)), 0) + hours[u]
    <3> HIDE DEF H
    <3> QED BY <1>3, <1>5, <2>2
  <2> QED BY <2>3 DEF Values
<1>8. IsEarliest(tasks, edges, hours, F)
  <2>1. F = [u \in tasks |-> F[u]]
    OBVIOUS
  <2> HIDE DEF F
  <2> QED BY <1>7, <2>1 DEF IsEarliest
<1>9. IsEarliest(tasks, edges, hours, f)
  <2> HIDE DEF F
  <2> QED BY <1>8
<1> HIDE DEF f, F
<1>10. B = {}
  <2> SUFFICES ASSUME B # {} PROVE FALSE
    OBVIOUS
  <2>1. B \in SUBSET tasks
    OBVIOUS
  <2>2. PICK u \in B : Preds(edges, u) \cap B = {}
    <3> HIDE DEF B
    <3> QED BY <2>1 DEF Graph, NoCircle
  <2>3. u \in tasks /\ ~ H(u, f[u])
    OBVIOUS
  <2>4. \A p \in Preds(edges, u) : H(p, f[p])
    BY <1>4, <2>2
  <2> HIDE DEF B
  <2>5. H(u, LargestOf(Values(f, Preds(edges, u)), 0) + hours[u])
    BY <2>3, <2>4, HeaviestStep
  <2>6. f[u] = LargestOf(Values(f, Preds(edges, u)), 0) + hours[u]
    BY <1>9, <2>3 DEF IsEarliest, Values
  <2> QED BY <2>3, <2>5, <2>6
<1>11. H(t, f[t])
  BY <1>10
<1> QED BY <1>1, <1>11

(* A task must start as long before the end as the heaviest chain from it takes. *)
LEMMA LatestStep ==
  ASSUME NEW tasks, NEW edges, Graph(tasks, edges), NEW hours, \A t \in tasks : hours[t] \in Nat,
         NEW end \in Int, NEW t \in tasks, NEW g,
         \A s \in Succs(edges, t) :
           g[s] \in Int /\ Heaviest(tasks, Reversed(edges), hours, s, end - g[s])
  PROVE  LET l == SmallestOf(Values(g, Succs(edges, t)), end) - hours[t] IN
         l \in Int /\ Heaviest(tasks, Reversed(edges), hours, t, end - l)
<1> DEFINE r == Reversed(edges)
           f == [s \in tasks |-> end - g[s]]
<1>1. Graph(tasks, r) /\ Preds(r, t) = Succs(edges, t)
  BY ReversedLemma
<1>2. Succs(edges, t) \in SUBSET tasks /\ IsFiniteSet(tasks)
  BY EdgesLemma DEF Graph
<1>3. PICK Q : Q = Succs(edges, t)
  OBVIOUS
<1>4. IsFiniteSet(Q)
  BY <1>2, <1>3, FS_Subset
<1>5. \A s \in Q : g[s] \in Int /\ f[s] = end - g[s] /\ f[s] \in Int
  BY <1>2, <1>3
<1>6. \A s \in Preds(r, t) : Heaviest(tasks, r, hours, s, f[s])
  BY <1>1, <1>3, <1>5
<1> HIDE DEF f, r
<1>7. PICK m : m = LargestOf(Values(f, Q), 0)
  OBVIOUS
<1>8. PICK l : l = SmallestOf(Values(g, Q), end)
  OBVIOUS
<1>9. Heaviest(tasks, r, hours, t, m + hours[t])
  <2>1. Heaviest(tasks, r, hours, t, LargestOf(Values(f, Preds(r, t)), 0) + hours[t])
    BY <1>1, <1>6, HeaviestStep
  <2> QED BY <1>1, <1>3, <1>7, <2>1
<1>10. /\ Q = {} => m = 0
       /\ Q # {} => \E s \in Q : m = f[s]
       /\ \A s \in Q : f[s] <= m
  <2>1. \A s \in Q : f[s] \in Int
    BY <1>5
  <2> QED BY <1>4, <1>7, <2>1, LargestLemma
<1>11. /\ Q = {} => l = end
       /\ Q # {} => \E s \in Q : l = g[s]
       /\ \A s \in Q : l <= g[s]
  <2>1. \A s \in Q : g[s] \in Int
    BY <1>5
  <2> QED BY <1>4, <1>8, <2>1, LargestLemma
<1>12. l \in Int /\ m = end - l
  <2>1. CASE Q = {}
    BY <1>10, <1>11, <2>1
  <2>2. CASE Q # {}
    <3>1. PICK s \in Q : m = f[s]
      BY <1>10, <2>2
    <3>2. PICK q \in Q : l = g[q]
      BY <1>11, <2>2
    <3>3. m \in Int /\ l \in Int /\ m = end - g[s] /\ f[q] = end - l /\ f[q] <= m /\ l <= g[s]
          /\ g[s] \in Int
      BY <1>5, <1>10, <1>11, <3>1, <3>2
    <3>4. PICK a \in Int : a = g[s]
      BY <3>3
    <3>5. end - l <= m /\ l <= a /\ m = end - a
      BY <3>3, <3>4
    <3> QED BY <3>3, <3>5
  <2> QED BY <2>1, <2>2
<1>13. PICK h \in Nat : h = hours[t]
  OBVIOUS
<1>14. l - h \in Int /\ end - (l - h) = m + h
  BY <1>12, <1>13
<1> QED BY <1>3, <1>8, <1>9, <1>13, <1>14 DEF r

(* A task has to start in time for the heaviest chain that begins with it. *)
LEMMA LatestLemma ==
  ASSUME NEW tasks, NEW edges, Graph(tasks, edges), NEW hours, \A t \in tasks : hours[t] \in Nat,
         NEW end \in Int, NEW t \in tasks
  PROVE  LET l == LatestStart(tasks, edges, hours, end)[t] IN
         l \in Int /\ Heaviest(tasks, Reversed(edges), hours, t, end - l)
<1> DEFINE r == Reversed(edges)
           H(u, n) == Heaviest(tasks, r, hours, u, n)
           F == [u \in tasks |-> end - CHOOSE n : H(u, n)]
           f == CHOOSE g : IsLatest(tasks, edges, hours, end, g)
           Good(u, n) == n \in Int /\ H(u, end - n)
           B == {u \in tasks : ~ Good(u, f[u])}
<1>0. Graph(tasks, r)
  BY ReversedLemma
<1>1. LatestStart(tasks, edges, hours, end) = [u \in tasks |-> f[u]]
  BY DEF LatestStart, IsLatest
<1>2. \A u \in tasks : F[u] = end - CHOOSE n : H(u, n)
  OBVIOUS
<1>3. \A u \in tasks : (\E n : H(u, n)) /\ \A m, n : H(u, m) /\ H(u, n) => m = n
  BY <1>0, HeaviestLemma
<1>4. \A u \in tasks : Succs(edges, u) \in SUBSET tasks
  BY EdgesLemma DEF Graph
<1>5. ASSUME NEW u \in tasks PROVE Good(u, F[u])
  <2>1. PICK n : n = CHOOSE k : H(u, k)
    OBVIOUS
  <2>2. H(u, n)
    <3> HIDE DEF H
    <3> QED BY <1>3, <2>1
  <2>3. n \in Nat /\ F[u] = end - n
    BY <1>2, <2>1, <2>2 DEF Heaviest
  <2>4. F[u] \in Int /\ end - F[u] = n
    <3> HIDE DEF F
    <3> QED BY <2>3
  <2> HIDE DEF H, F
  <2> QED BY <2>2, <2>4
<1>6. ASSUME NEW u \in tasks, NEW a, NEW b, Good(u, a), Good(u, b) PROVE a = b
  <2>1. end - a = end - b
    <3> HIDE DEF H
    <3> QED BY <1>3, <1>6
  <2> QED BY <1>6, <2>1
<1>7. ASSUME NEW u \in tasks, NEW g, \A s \in Succs(edges, u) : Good(s, g[s])
      PROVE  Good(u, SmallestOf(Values(g, Succs(edges, u)), end) - hours[u])
  BY <1>7, LatestStep
<1> HIDE DEF Good, H
<1>8. ASSUME NEW u \in tasks
      PROVE  F[u] = SmallestOf({F[s] : s \in Succs(edges, u)}, end) - hours[u]
  <2>1. \A s \in Succs(edges, u) : Good(s, F[s])
    BY <1>4, <1>5
  <2> HIDE DEF F
  <2>2. Good(u, SmallestOf(Values(F, Succs(edges, u)), end) - hours[u])
    BY <1>7, <2>1
  <2>3. F[u] = SmallestOf(Values(F, Succs(edges, u)), end) - hours[u]
    BY <1>5, <1>6, <2>2
  <2> QED BY <2>3 DEF Values
<1>9. IsLatest(tasks, edges, hours, end, F)
  <2>1. F = [u \in tasks |-> F[u]]
    OBVIOUS
  <2> HIDE DEF F
  <2> QED BY <1>8, <2>1 DEF IsLatest
<1>10. IsLatest(tasks, edges, hours, end, f)
  <2> HIDE DEF F
  <2> QED BY <1>9
<1> HIDE DEF f, F
<1>11. B = {}
  <2> SUFFICES ASSUME B # {} PROVE FALSE
    OBVIOUS
  <2>1. B \in SUBSET tasks
    OBVIOUS
  <2>2. PICK u \in B : Succs(edges, u) \cap B = {}
    <3> HIDE DEF B
    <3> QED BY <2>1, LastOfSet DEF Graph
  <2>3. u \in tasks /\ ~ Good(u, f[u])
    OBVIOUS
  <2>4. \A s \in Succs(edges, u) : Good(s, f[s])
    BY <1>4, <2>2
  <2> HIDE DEF B
  <2>5. Good(u, SmallestOf(Values(f, Succs(edges, u)), end) - hours[u])
    BY <1>7, <2>3, <2>4
  <2>6. f[u] = SmallestOf(Values(f, Succs(edges, u)), end) - hours[u]
    BY <1>10, <2>3 DEF IsLatest, Values
  <2> QED BY <2>3, <2>5, <2>6
<1>12. Good(t, f[t])
  BY <1>11
<1>13. LatestStart(tasks, edges, hours, end)[t] = f[t]
  BY <1>1
<1> QED BY <1>12, <1>13 DEF Good, H

(* A chain to a task and one from it are a chain, with the task in both. *)
LEMMA JoinedChains ==
  ASSUME NEW tasks, NEW edges, Graph(tasks, edges), NEW hours, \A t \in tasks : hours[t] \in Nat,
         NEW t \in tasks, NEW A, ChainTo(tasks, edges, A, t),
         NEW B, ChainTo(tasks, Reversed(edges), B, t)
  PROVE  /\ Chain(tasks, edges, A \cup B)
         /\ SumOf(hours, A \cup B) + hours[t] = SumOf(hours, A) + SumOf(hours, B)
<1> DEFINE r == Reversed(edges)
<1>1. Graph(tasks, r) /\ Reversed(r) = edges
  BY ReversedLemma
<1>2. /\ A \in SUBSET tasks /\ B \in SUBSET tasks /\ t \in A /\ t \in B
      /\ Chain(tasks, edges, A) /\ Chain(tasks, edges, B)
  BY ChainReversed DEF ChainTo, Chain
<1>3. \A x \in A : x = t \/ t \in After(tasks, edges, x)
  BY DEF ChainTo
<1>4. \A y \in B : y = t \/ y \in After(tasks, edges, t)
  <2> TAKE y \in B
  <2>1. y = t \/ t \in After(tasks, r, y)
    BY DEF ChainTo
  <2>2. t \in After(tasks, r, y) => y \in After(tasks, edges, t)
    <3> HIDE DEF r
    <3> QED BY <1>1, <1>2, AfterReversed
  <2> QED BY <2>1, <2>2
<1>5. \A x \in A, y \in B : x = y \/ y \in After(tasks, edges, x)
  <2> TAKE x \in A, y \in B
  <2>1. x \in tasks
    BY <1>2
  <2> QED BY <1>3, <1>4, <2>1, AfterLemma
<1>6. Chain(tasks, edges, A \cup B)
  BY <1>2, <1>5 DEF Chain
<1>7. A \cap (B \ {t}) = {}
  <2> SUFFICES ASSUME NEW u \in A, u \in B, u # t PROVE FALSE
    OBVIOUS
  <2>1. u \in tasks /\ t \in After(tasks, edges, u) /\ u \in After(tasks, edges, t)
    BY <1>2, <1>3, <1>4
  <2> QED BY <2>1, AfterLemma
<1>8. PICK R : R = B \ {t}
  OBVIOUS
<1>9. /\ IsFiniteSet(A) /\ IsFiniteSet(B) /\ IsFiniteSet(R) /\ A \cap R = {}
      /\ \A x \in A \cup R : hours[x] \in Nat
      /\ \A x \in B : hours[x] \in Nat
  BY <1>2, <1>7, <1>8, FS_Subset DEF Graph
<1>10. SumOf(hours, A \cup R) = SumOf(hours, A) + SumOf(hours, R)
  BY <1>9, SumUnion
<1>11. SumOf(hours, B) = hours[t] + SumOf(hours, R)
  BY <1>2, <1>8, <1>9, SumLemma
<1>12. A \cup R = A \cup B
  BY <1>2, <1>8
<1>13. SumOf(hours, A) \in Nat /\ SumOf(hours, R) \in Nat /\ hours[t] \in Nat
  BY <1>9, SumLemma
<1>14. SumOf(hours, A \cup R) + hours[t] = SumOf(hours, A) + SumOf(hours, B)
  <2>1. \A a, b, h \in Nat : (a + b) + h = a + (h + b)
    OBVIOUS
  <2> QED BY <1>10, <1>11, <1>13, <2>1
<1> QED BY <1>6, <1>12, <1>14

(* A chain through a task is one to it and one from it. *)
LEMMA SplitChain ==
  ASSUME NEW tasks, NEW edges, Graph(tasks, edges), NEW S, Chain(tasks, edges, S), NEW t \in S
  PROVE  \E A, B \in SUBSET tasks : /\ ChainTo(tasks, edges, A, t)
                                    /\ ChainTo(tasks, Reversed(edges), B, t)
                                    /\ S = A \cup B
<1> DEFINE r == Reversed(edges)
           A == {u \in S : u = t \/ t \in After(tasks, edges, u)}
           B == {u \in S : u = t \/ u \in After(tasks, edges, t)}
<1>1. S \in SUBSET tasks /\ t \in tasks
  BY DEF Chain
<1>2. S = A \cup B
  BY DEF Chain
<1>3. ChainTo(tasks, edges, A, t)
  BY <1>1 DEF Chain, ChainTo
<1>4. Chain(tasks, edges, B)
  BY <1>1 DEF Chain
<1>5. \A u \in B : u = t \/ t \in After(tasks, r, u)
  BY <1>1, AfterReversed
<1>6. B \in SUBSET tasks /\ t \in B /\ A \in SUBSET tasks
  BY <1>1
<1> HIDE DEF A, B, r
<1>7. Chain(tasks, r, B)
  BY <1>4, ChainReversed DEF r
<1>8. ChainTo(tasks, r, B, t)
  BY <1>5, <1>6, <1>7 DEF ChainTo
<1> QED BY <1>2, <1>3, <1>6, <1>8 DEF r

(* No chain weighs more than n hours, some chain weighs n, and the keys are the tasks *)
(* of such chains.                                                                    *)
IsCritical(tasks, edges, hours, n, keys) ==
  /\ n \in Nat
  /\ \A S : Chain(tasks, edges, S) => SumOf(hours, S) <= n
  /\ \E S : Chain(tasks, edges, S) /\ SumOf(hours, S) = n
  /\ \A t : t \in keys <=>
              \E S : Chain(tasks, edges, S) /\ SumOf(hours, S) = n /\ t \in S

(* The critical path is the heaviest chain, and its tasks are those on such a chain. *)
LEMMA CriticalLemma ==
  ASSUME NEW tasks, NEW edges, Graph(tasks, edges), tasks # {},
         NEW hours, \A t \in tasks : hours[t] \in Nat,
         NEW c, c = CriticalPath(tasks, edges, hours)
  PROVE  IsCritical(tasks, edges, hours, c.duration, c.keys)
<1> DEFINE e == EarliestFinish(tasks, edges, hours)
           end == LargestOf(Range(e), 0)
           l == LatestStart(tasks, edges, hours, end)
           slack == [t \in tasks |-> l[t] - (e[t] - hours[t])]
           r == Reversed(edges)
<1>0. IsFiniteSet(tasks)
  BY DEF Graph
<1>1. \A t \in tasks : Heaviest(tasks, edges, hours, t, e[t])
  BY EarliestLemma
<1>2. DOMAIN e = tasks
  BY DEF EarliestFinish
<1>3. /\ c.duration = end
      /\ c.keys = {t \in tasks : slack[t] <= 0}
  BY DEF CriticalPath, Quantum
<1>4. Range(e) = Values(e, tasks)
  <2> HIDE DEF e
  <2> QED BY <1>2 DEF Range, Values
<1> HIDE DEF e
<1>5. \A t \in tasks : e[t] \in Nat
  BY <1>1 DEF Heaviest
<1>6. (\E t \in tasks : end = e[t]) /\ \A t \in tasks : e[t] <= end
  <2>1. PICK m : m = LargestOf(Values(e, tasks), 0)
    OBVIOUS
  <2>2. \A t \in tasks : e[t] \in Int
    BY <1>5
  <2>3. (\E t \in tasks : m = e[t]) /\ \A t \in tasks : e[t] <= m
    BY <1>0, <2>1, <2>2, LargestLemma
  <2> QED BY <1>4, <2>1, <2>3
<1> HIDE DEF end
<1>7. end \in Nat
  BY <1>5, <1>6
<1>8. \A t \in tasks : l[t] \in Int /\ Heaviest(tasks, r, hours, t, end - l[t])
  <2> TAKE t \in tasks
  <2>1. PICK k : k = LatestStart(tasks, edges, hours, end)[t]
    OBVIOUS
  <2>2. end \in Int
    BY <1>7
  <2>3. k \in Int /\ Heaviest(tasks, Reversed(edges), hours, t, end - k)
    BY <2>1, <2>2, LatestLemma
  <2> QED BY <2>1, <2>3
<1> HIDE DEF l
<1>9. \A S : Chain(tasks, edges, S) => SumOf(hours, S) \in Nat
  <2> TAKE S
  <2> SUFFICES ASSUME Chain(tasks, edges, S) PROVE SumOf(hours, S) \in Nat
    OBVIOUS
  <2>1. S \in SUBSET tasks
    BY DEF Chain
  <2>2. IsFiniteSet(S) /\ \A x \in S : hours[x] \in Nat
    BY <1>0, <2>1, FS_Subset
  <2> QED BY <2>2, SumLemma
<1>10. ASSUME NEW S, Chain(tasks, edges, S) PROVE SumOf(hours, S) <= end
  <2>1. S \in SUBSET tasks
    BY <1>10 DEF Chain
  <2>2. CASE S = {}
    <3>1. SumOf(hours, S) = 0
      <4>1. IsFiniteSet(S) /\ \A x \in S : hours[x] \in Nat
        BY <1>0, <2>1, FS_Subset
      <4> QED BY <2>2, <4>1, SumLemma
    <3> QED BY <1>7, <3>1
  <2>3. CASE S # {}
    <3>1. PICK t \in S : ChainTo(tasks, edges, S, t)
      BY <1>10, <2>3, TopOfChain
    <3>2. t \in tasks
      BY <2>1
    <3>3. SumOf(hours, S) <= e[t]
      BY <1>1, <2>1, <3>1, <3>2 DEF Heaviest
    <3>4. e[t] \in Nat /\ e[t] <= end /\ SumOf(hours, S) \in Nat
      BY <1>5, <1>6, <1>9, <1>10, <3>2
    <3>5. \A a, b \in Nat : a <= b /\ b <= end => a <= end
      BY <1>7
    <3> QED BY <3>3, <3>4, <3>5
  <2> QED BY <2>2, <2>3
<1>11. \E S : Chain(tasks, edges, S) /\ SumOf(hours, S) = end
  <2>1. PICK t \in tasks : end = e[t]
    BY <1>6
  <2> QED BY <1>1, <2>1 DEF Heaviest, ChainTo
<1>12. ASSUME NEW t \in tasks
       PROVE  \E a, b, h \in Nat :
                /\ a = e[t] /\ b = end - l[t] /\ h = hours[t]
                /\ slack[t] <= 0 <=> end <= (a + b) - h
  <2>1. PICK a \in Nat : a = e[t]
    BY <1>5
  <2>2. PICK b \in Nat : b = end - l[t]
    BY <1>8 DEF Heaviest
  <2>3. PICK h \in Nat : h = hours[t]
    OBVIOUS
  <2>4. PICK k \in Int : k = l[t]
    BY <1>8
  <2>5. slack[t] = k - (a - h)
    BY <2>1, <2>3, <2>4
  <2>6. b = end - k
    BY <2>2, <2>4
  <2>7. k - (a - h) <= 0 <=> end <= (a + b) - h
    BY <1>7, <2>6
  <2> HIDE DEF slack
  <2>8. slack[t] <= 0 <=> end <= (a + b) - h
    BY <2>5, <2>7
  <2> QED BY <2>1, <2>2, <2>3, <2>8
<1> HIDE DEF slack
<1>13. ASSUME NEW t \in tasks, slack[t] <= 0
       PROVE  \E S : Chain(tasks, edges, S) /\ SumOf(hours, S) = end /\ t \in S
  <2>1. PICK a, b, h \in Nat : /\ a = e[t] /\ b = end - l[t] /\ h = hours[t]
                               /\ end <= (a + b) - h
    BY <1>12, <1>13
  <2>2. PICK A \in SUBSET tasks : ChainTo(tasks, edges, A, t) /\ SumOf(hours, A) = a
    BY <1>1, <2>1 DEF Heaviest
  <2>3. PICK B \in SUBSET tasks : ChainTo(tasks, r, B, t) /\ SumOf(hours, B) = b
    BY <1>8, <2>1 DEF Heaviest
  <2>4. PICK S : S = A \cup B
    OBVIOUS
  <2>5. Chain(tasks, edges, S) /\ SumOf(hours, S) + h = a + b
    BY <2>1, <2>2, <2>3, <2>4, JoinedChains
  <2>6. t \in S
    BY <2>2, <2>4 DEF ChainTo
  <2>7. PICK w \in Nat : w = SumOf(hours, S)
    BY <1>9, <2>5
  <2>8. w <= end /\ w + h = a + b
    BY <1>10, <2>5, <2>7
  <2>9. w = end
    BY <1>7, <2>1, <2>8
  <2> QED BY <2>5, <2>6, <2>7, <2>9
<1>14. ASSUME NEW S, Chain(tasks, edges, S), SumOf(hours, S) = end, NEW t \in S
       PROVE  t \in tasks /\ slack[t] <= 0
  <2>0. t \in tasks
    BY <1>14 DEF Chain
  <2>1. PICK a, b, h \in Nat : /\ a = e[t] /\ b = end - l[t] /\ h = hours[t]
                               /\ slack[t] <= 0 <=> end <= (a + b) - h
    BY <1>12, <2>0
  <2>2. PICK A, B \in SUBSET tasks : /\ ChainTo(tasks, edges, A, t)
                                     /\ ChainTo(tasks, r, B, t) /\ S = A \cup B
    BY <1>14, SplitChain
  <2>3. SumOf(hours, S) + h = SumOf(hours, A) + SumOf(hours, B)
    BY <2>0, <2>1, <2>2, JoinedChains
  <2>4. SumOf(hours, A) <= a /\ SumOf(hours, B) <= b
    BY <1>1, <1>8, <2>0, <2>1, <2>2 DEF Heaviest
  <2>5. SumOf(hours, A) \in Nat /\ SumOf(hours, B) \in Nat
    <3>1. IsFiniteSet(A) /\ IsFiniteSet(B) /\ (\A x \in A : hours[x] \in Nat)
          /\ \A x \in B : hours[x] \in Nat
      BY <1>0, FS_Subset
    <3> QED BY <3>1, SumLemma
  <2>6. \A x, y \in Nat : x <= a /\ y <= b /\ end + h = x + y => end <= (a + b) - h
    BY <1>7
  <2> QED BY <1>14, <2>0, <2>1, <2>3, <2>4, <2>5, <2>6
<1>15. \A t : t \in c.keys <=>
                \E S : Chain(tasks, edges, S) /\ SumOf(hours, S) = end /\ t \in S
  BY <1>3, <1>13, <1>14
<1> QED BY <1>3, <1>7, <1>10, <1>11, <1>15 DEF IsCritical

-----------------------------------------------------------------------------
(* Lanes of workstreams *)

(* The slot that is taken is one that is free first. *)
LEMMA SoonestLemma ==
  ASSUME NEW k \in Nat \ {0}, NEW lane \in [1..k -> Nat]
  PROVE  Soonest(lane) \in 1..k /\ \A j \in 1..k : lane[Soonest(lane)] <= lane[j]
<1> DEFINE a == [i \in 1..k |-> 0 - lane[i]]
           b == [i \in 1..k |-> i]
<1>1. IsFiniteSet(1..k) /\ 1..k # {}
  <2>1. k \in Int /\ 1 \in Int /\ 1 \in 1..k
    OBVIOUS
  <2>2. IsFiniteSet(1..k)
    BY <2>1, FS_Interval
  <2> QED BY <2>1, <2>2
<1>2. \A i \in 1..k : lane[i] \in Nat
  OBVIOUS
<1>3. \A i \in 1..k : a[i] = 0 - lane[i] /\ b[i] = i /\ a[i] \in Int /\ b[i] \in Int
  BY <1>2
<1> HIDE DEF a, b
<1>4. \E t \in 1..k : \A u \in 1..k : a[t] > a[u] \/ (a[t] = a[u] /\ b[t] <= b[u])
  BY <1>1, <1>3, BestLemma
<1>5. \A x, y \in Nat : (0 - x > 0 - y <=> x < y) /\ (0 - x = 0 - y <=> x = y)
  OBVIOUS
<1>6. DOMAIN lane = 1..k
  OBVIOUS
<1>7. \E t \in DOMAIN lane : \A u \in DOMAIN lane :
        lane[t] < lane[u] \/ (lane[t] = lane[u] /\ t <= u)
  <2>1. PICK t \in 1..k : \A u \in 1..k : a[t] > a[u] \/ (a[t] = a[u] /\ b[t] <= b[u])
    BY <1>4
  <2>2. PICK x \in Nat : x = lane[t]
    BY <1>2
  <2>3. ASSUME NEW u \in 1..k PROVE lane[t] < lane[u] \/ (lane[t] = lane[u] /\ t <= u)
    <3>1. PICK y \in Nat : y = lane[u]
      BY <1>2
    <3>2. a[t] = 0 - x /\ a[u] = 0 - y /\ b[t] = t /\ b[u] = u
      BY <1>3, <2>2, <3>1
    <3>3. 0 - x > 0 - y \/ (0 - x = 0 - y /\ t <= u)
      BY <2>1, <3>2
    <3>4. x < y \/ (x = y /\ t <= u)
      BY <1>5, <3>3
    <3> QED BY <2>2, <3>1, <3>4
  <2> QED BY <1>6, <2>3
<1>8. /\ Soonest(lane) \in DOMAIN lane
      /\ \A u \in DOMAIN lane : \/ lane[Soonest(lane)] < lane[u]
                                \/ lane[Soonest(lane)] = lane[u] /\ Soonest(lane) <= u
  BY <1>7 DEF Soonest
<1>9. ASSUME NEW j \in 1..k PROVE lane[Soonest(lane)] <= lane[j]
  <2>1. PICK x \in Nat : x = lane[Soonest(lane)]
    BY <1>2, <1>6, <1>8
  <2>2. PICK y \in Nat : y = lane[j]
    BY <1>2
  <2>3. x < y \/ x = y
    BY <1>6, <1>8, <2>1, <2>2
  <2> QED BY <2>1, <2>2, <2>3
<1> QED BY <1>6, <1>8, <1>9

(* Paired up, no slot of A is free later than that of B. *)
Dominated(k, A, B) ==
  \E s \in [1..k -> 1..k] :
    /\ \A i, j \in 1..k : s[i] = s[j] => i = j
    /\ \A j \in 1..k : \E i \in 1..k : s[i] = j
    /\ \A i \in 1..k : A[i] <= B[s[i]]

(* It stays so when in each the slot that is free first is taken, in A no longer than *)
(* in B.                                                                              *)
LEMMA DominatedLemma ==
  ASSUME NEW k \in Nat \ {0}, NEW A \in [1..k -> Nat], NEW B \in [1..k -> Nat],
         Dominated(k, A, B), NEW x \in Nat, NEW y \in Nat, x <= y
  PROVE  /\ A[Soonest(A)] <= B[Soonest(B)]
         /\ Dominated(k, [A EXCEPT ![Soonest(A)] = x], [B EXCEPT ![Soonest(B)] = y])
<1>1. PICK a \in 1..k : a = Soonest(A) /\ \A j \in 1..k : A[a] <= A[j]
  BY SoonestLemma
<1>2. PICK b \in 1..k : b = Soonest(B) /\ \A j \in 1..k : B[b] <= B[j]
  BY SoonestLemma
<1>3. PICK s \in [1..k -> 1..k] :
        /\ \A i, j \in 1..k : s[i] = s[j] => i = j
        /\ \A j \in 1..k : \E i \in 1..k : s[i] = j
        /\ \A i \in 1..k : A[i] <= B[s[i]]
  BY DEF Dominated
<1>4. PICK c \in 1..k : s[c] = b
  BY <1>3
<1>5. \A i \in 1..k : A[i] \in Nat /\ B[i] \in Nat /\ s[i] \in 1..k
  OBVIOUS
<1>6. \A u, v, w \in Nat : u <= v /\ v <= w => u <= w
  OBVIOUS
<1>7. A[a] <= B[b]
  <2>1. A[a] <= A[c] /\ A[c] <= B[b]
    BY <1>1, <1>3, <1>4
  <2>2. PICK u, v, w \in Nat : u = A[a] /\ v = A[c] /\ w = B[b]
    BY <1>5
  <2> QED BY <1>6, <2>1, <2>2
<1> DEFINE z == [i \in 1..k |-> IF i = a THEN b ELSE IF i = c THEN s[a] ELSE s[i]]
           A1 == [A EXCEPT ![a] = x]
           B1 == [B EXCEPT ![b] = y]
<1>8. \A i \in 1..k : z[i] = IF i = a THEN b ELSE IF i = c THEN s[a] ELSE s[i]
  OBVIOUS
<1>9. z \in [1..k -> 1..k]
  BY <1>5
<1>10. \A i \in 1..k : /\ A1[i] = IF i = a THEN x ELSE A[i]
                       /\ B1[i] = IF i = b THEN y ELSE B[i]
  OBVIOUS
<1> HIDE DEF z, A1, B1
<1>11. \A i, j \in 1..k : z[i] = z[j] => i = j
  BY <1>3, <1>4, <1>8
<1>12. \A j \in 1..k : \E i \in 1..k : z[i] = j
  <2> TAKE j \in 1..k
  <2>1. PICK i \in 1..k : s[i] = j
    BY <1>3
  <2>2. CASE i = c
    BY <1>4, <1>8, <2>1, <2>2
  <2>3. CASE i # c /\ i = a
    BY <1>8, <2>1, <2>3
  <2>4. CASE i # c /\ i # a
    BY <1>8, <2>1, <2>4
  <2> QED BY <2>2, <2>3, <2>4
<1>13. ASSUME NEW i \in 1..k PROVE A1[i] <= B1[z[i]]
  <2>1. CASE i = a
    <3>1. A1[i] = x /\ z[i] = b /\ B1[b] = y
      BY <1>8, <1>10, <2>1
    <3> QED BY <3>1
  <2>2. CASE i # a /\ i = c
    <3>1. A1[i] = A[c] /\ z[i] = s[a] /\ s[a] # b
      BY <1>3, <1>4, <1>8, <1>10, <2>2
    <3>2. B1[s[a]] = B[s[a]]
      BY <1>5, <1>10, <3>1
    <3>3. A[c] <= B[b] /\ B[b] <= B[s[a]]
      BY <1>2, <1>3, <1>4, <1>5
    <3> QED BY <1>5, <1>6, <3>1, <3>2, <3>3
  <2>3. CASE i # a /\ i # c
    <3>1. A1[i] = A[i] /\ z[i] = s[i] /\ s[i] # b
      BY <1>3, <1>4, <1>8, <1>10, <2>3
    <3>2. B1[s[i]] = B[s[i]]
      BY <1>5, <1>10, <3>1
    <3> QED BY <1>3, <3>1, <3>2
  <2> QED BY <2>1, <2>2, <2>3
<1>14. Dominated(k, A1, B1)
  BY <1>9, <1>11, <1>12, <1>13 DEF Dominated
<1> QED BY <1>1, <1>2, <1>7, <1>14 DEF A1, B1

-----------------------------------------------------------------------------
(* One task of a range *)

(* When the first slots of the workstreams W are free. *)
Frees(lanes, W) == {lanes[w][Soonest(lanes[w])] : w \in W}

(* The times a task waits for, and when it starts. *)
Waits(edges, streams, t, r) ==
  {0} \cup Values(r.finish, Preds(edges, t)) \cup Frees(r.lanes, streams[t])

(* What there is to schedule. *)
Lined(tasks, edges, names, streams, k, weeks) ==
  /\ Graph(tasks, edges) /\ k \in Nat \ {0}
  /\ \A t \in tasks : streams[t] \in SUBSET names /\ IsFiniteSet(streams[t]) /\ weeks[t] \in Nat

(* The tasks of T are scheduled, each behind its predecessors. *)
Ranged(edges, names, k, weeks, T, r) ==
  /\ r.lanes \in [names -> [1..k -> Nat]] /\ r.finish \in [T -> Nat]
  /\ \A t \in T : /\ weeks[t] <= r.finish[t]
                  /\ \A u \in Preds(edges, t) : u \in T /\ r.finish[u] + weeks[t] <= r.finish[t]

(* v is r with t from b on: as soon as all it waits for is there. *)
Booked(edges, names, streams, k, weeks, T, t, r, v, b) ==
  /\ b \in Waits(edges, streams, t, r)
  /\ b \in Nat /\ \A x \in Waits(edges, streams, t, r) : x \in Nat /\ x <= b
  /\ v.finish \in [T \cup {t} -> Nat]
  /\ v.finish[t] = b + weeks[t] /\ \A u \in T : v.finish[u] = r.finish[u]
  /\ v.lanes \in [names -> [1..k -> Nat]]
  /\ \A w \in names :
       v.lanes[w] = IF w \in streams[t]
                    THEN [r.lanes[w] EXCEPT ![Soonest(r.lanes[w])] = b + weeks[t]]
                    ELSE r.lanes[w]

(* What a pass does, as a start and an end. *)
LEMMA BookLemma ==
  ASSUME NEW tasks, NEW edges, NEW names, NEW streams, NEW k, NEW weeks,
         Lined(tasks, edges, names, streams, k, weeks),
         NEW T \in SUBSET tasks, NEW r, Ranged(edges, names, k, weeks, T, r),
         NEW t \in tasks \ T, Preds(edges, t) \subseteq T,
         NEW v, v = Book(edges, weeks, streams, t, r)
  PROVE  \E b : Booked(edges, names, streams, k, weeks, T, t, r, v, b)
<1> DEFINE W == Waits(edges, streams, t, r)
           F == Frees(r.lanes, streams[t])
           V == Values(r.finish, Preds(edges, t))
<1>0. /\ r.lanes \in [names -> [1..k -> Nat]] /\ r.finish \in [T -> Nat] /\ k \in Nat \ {0}
      /\ streams[t] \in SUBSET names /\ IsFiniteSet(streams[t]) /\ weeks[t] \in Nat
      /\ IsFiniteSet(tasks)
  BY DEF Lined, Ranged, Graph
<1>1. \A w \in names : r.lanes[w][Soonest(r.lanes[w])] \in Nat
  <2> TAKE w \in names
  <2>1. PICK lane \in [1..k -> Nat] : lane = r.lanes[w]
    BY <1>0
  <2>2. Soonest(lane) \in 1..k
    BY <1>0, SoonestLemma
  <2> QED BY <2>1, <2>2
<1>2. IsFiniteSet(F) /\ F \in SUBSET Nat
  <2> DEFINE g == [w \in streams[t] |-> r.lanes[w][Soonest(r.lanes[w])]]
  <2>1. g \in Surjection(streams[t], F)
    BY DEF Surjection, Frees
  <2>2. F \in SUBSET Nat
    BY <1>0, <1>1 DEF Frees
  <2> HIDE DEF g, F
  <2> QED BY <1>0, <2>1, <2>2, FS_Surjection
<1>3. IsFiniteSet(V) /\ V \in SUBSET Nat
  <2> DEFINE g == [u \in Preds(edges, t) |-> r.finish[u]]
  <2>1. g \in Surjection(Preds(edges, t), V)
    BY DEF Surjection, Values
  <2>2. V \in SUBSET Nat
    BY <1>0 DEF Values
  <2>3. IsFiniteSet(Preds(edges, t))
    <3>1. Preds(edges, t) \in SUBSET tasks
      OBVIOUS
    <3> QED BY <1>0, <3>1, FS_Subset
  <2> HIDE DEF g, V
  <2> QED BY <2>1, <2>2, <2>3, FS_Surjection
<1>4. W = {0} \cup V \cup F
  BY DEF Waits
<1> HIDE DEF V, F, W
<1>5. IsFiniteSet(W) /\ W \in SUBSET Int /\ W \in SUBSET Nat /\ W # {}
  <2>1. IsFiniteSet({0})
    BY FS_Singleton
  <2>2. IsFiniteSet({0} \cup V)
    BY <1>3, <2>1, FS_Union
  <2>3. IsFiniteSet(({0} \cup V) \cup F)
    BY <1>2, <2>2, FS_Union
  <2> QED BY <1>2, <1>3, <1>4, <2>3
<1>6. PICK b : b = Max(W)
  OBVIOUS
<1>7. b \in W /\ b \in Nat /\ \A x \in W : x \in Nat /\ x <= b
  BY <1>5, <1>6, MinMax
<1>8. PICK end \in Nat : end = b + weeks[t]
  BY <1>0, <1>7
<1>9. v = [lanes |-> [w \in DOMAIN r.lanes |->
                   IF w \in streams[t]
                   THEN [r.lanes[w] EXCEPT ![Soonest(r.lanes[w])] = end]
                   ELSE r.lanes[w]],
           finish |-> [u \in {t} \cup DOMAIN r.finish |-> IF u = t THEN end ELSE r.finish[u]]]
  BY <1>6, <1>8 DEF Book, W, Waits, Values, Frees
<1>10. v.finish = [u \in {t} \cup T |-> IF u = t THEN end ELSE r.finish[u]]
  BY <1>0, <1>9
<1>11. /\ v.finish \in [T \cup {t} -> Nat]
       /\ v.finish[t] = end /\ \A u \in T : v.finish[u] = r.finish[u]
  BY <1>0, <1>10
<1>12. ASSUME NEW w \in names
       PROVE  /\ v.lanes[w] = IF w \in streams[t]
                              THEN [r.lanes[w] EXCEPT ![Soonest(r.lanes[w])] = end]
                              ELSE r.lanes[w]
              /\ v.lanes[w] \in [1..k -> Nat]
  <2>1. v.lanes[w] = IF w \in streams[t]
                     THEN [r.lanes[w] EXCEPT ![Soonest(r.lanes[w])] = end]
                     ELSE r.lanes[w]
    BY <1>0, <1>9
  <2>2. PICK lane \in [1..k -> Nat] : lane = r.lanes[w]
    BY <1>0
  <2>3. [lane EXCEPT ![Soonest(lane)] = end] \in [1..k -> Nat]
    OBVIOUS
  <2> QED BY <2>1, <2>2, <2>3
<1>13. v.lanes \in [names -> [1..k -> Nat]]
  <2>1. v.lanes = [w \in names |-> v.lanes[w]]
    BY <1>0, <1>9
  <2> QED BY <1>12, <2>1
<1> QED BY <1>7, <1>8, <1>11, <1>12, <1>13 DEF W, Booked

(* A task that is booked keeps what is scheduled in order. *)
LEMMA RangedLemma ==
  ASSUME NEW tasks, NEW edges, NEW names, NEW streams, NEW k, NEW weeks,
         Lined(tasks, edges, names, streams, k, weeks),
         NEW T \in SUBSET tasks, NEW r, Ranged(edges, names, k, weeks, T, r),
         NEW t \in tasks \ T, Preds(edges, t) \subseteq T
  PROVE  Ranged(edges, names, k, weeks, T \cup {t}, Book(edges, weeks, streams, t, r))
<1>1. PICK v : v = Book(edges, weeks, streams, t, r)
  OBVIOUS
<1>2. PICK b : Booked(edges, names, streams, k, weeks, T, t, r, v, b)
  BY <1>1, BookLemma
<1>20. /\ b \in Nat /\ \A x \in Waits(edges, streams, t, r) : x \in Nat /\ x <= b
      /\ v.finish \in [T \cup {t} -> Nat]
      /\ v.finish[t] = b + weeks[t] /\ \A u \in T : v.finish[u] = r.finish[u]
      /\ v.lanes \in [names -> [1..k -> Nat]]
  BY <1>2 DEF Booked
<1>3. r.finish \in [T -> Nat] /\ weeks[t] \in Nat
  BY DEF Ranged, Lined
<1>4. PICK w \in Nat : w = weeks[t]
  BY <1>3
<1>5. ASSUME NEW x \in T \cup {t}
      PROVE  /\ weeks[x] <= v.finish[x]
             /\ \A u \in Preds(edges, x) : u \in T \cup {t} /\ v.finish[u] + weeks[x] <= v.finish[x]
  <2>1. CASE x = t
    <3>1. w <= b + w
      BY <1>20
    <3>2. ASSUME NEW u \in Preds(edges, t) PROVE u \in T /\ v.finish[u] + w <= b + w
      <4>1. u \in T /\ r.finish[u] \in Waits(edges, streams, t, r)
        BY DEF Waits, Values
      <4>2. PICK y \in Nat : y = r.finish[u] /\ y <= b
        BY <1>20, <4>1
      <4>3. v.finish[u] = y
        BY <1>20, <4>1, <4>2
      <4> QED BY <1>20, <4>1, <4>2, <4>3
    <3> QED BY <1>20, <1>4, <2>1, <3>1, <3>2
  <2>2. CASE x # t
    <3>1. x \in T /\ v.finish[x] = r.finish[x] /\ weeks[x] <= r.finish[x]
      BY <1>20, <2>2 DEF Ranged
    <3>2. \A u \in Preds(edges, x) : u \in T /\ r.finish[u] + weeks[x] <= r.finish[x]
      BY <3>1 DEF Ranged
    <3> QED BY <1>20, <3>1, <3>2
  <2> QED BY <2>1, <2>2
<1>6. Ranged(edges, names, k, weeks, T \cup {t}, v)
  <2>1. v.lanes \in [names -> [1..k -> Nat]] /\ v.finish \in [T \cup {t} -> Nat]
    BY <1>2, Zenon DEF Booked
  <2>2. \A x \in T \cup {t} :
          /\ weeks[x] <= v.finish[x]
          /\ \A u \in Preds(edges, x) : u \in T \cup {t} /\ v.finish[u] + weeks[x] <= v.finish[x]
    BY <1>5
  <2> QED BY <2>1, <2>2, Zenon DEF Ranged
<1> QED BY <1>1, <1>6

(* Nothing of r is later than in q. *)
Below(names, k, T, r, q) ==
  /\ \A t \in T : r.finish[t] <= q.finish[t]
  /\ \A w \in names : Dominated(k, r.lanes[w], q.lanes[w])

(* It stays so with a task that takes no longer in r than in q. *)
LEMMA BelowLemma ==
  ASSUME NEW tasks, NEW edges, NEW names, NEW streams, NEW k, NEW short, NEW long,
         Lined(tasks, edges, names, streams, k, short),
         Lined(tasks, edges, names, streams, k, long),
         NEW T \in SUBSET tasks,
         NEW r, Ranged(edges, names, k, short, T, r), NEW q, Ranged(edges, names, k, long, T, q),
         Below(names, k, T, r, q),
         NEW t \in tasks \ T, Preds(edges, t) \subseteq T, short[t] <= long[t]
  PROVE  Below(names, k, T \cup {t}, Book(edges, short, streams, t, r),
                                     Book(edges, long, streams, t, q))
<1>1. PICK v : v = Book(edges, short, streams, t, r)
  OBVIOUS
<1>2. PICK z : z = Book(edges, long, streams, t, q)
  OBVIOUS
<1>3. PICK a : Booked(edges, names, streams, k, short, T, t, r, v, a)
  BY <1>1, BookLemma
<1>4. PICK b : Booked(edges, names, streams, k, long, T, t, q, z, b)
  BY <1>2, BookLemma
<1>30. /\ a \in Waits(edges, streams, t, r) /\ a \in Nat
       /\ v.finish[t] = a + short[t] /\ \A u \in T : v.finish[u] = r.finish[u]
       /\ \A w \in names :
            v.lanes[w] = IF w \in streams[t]
                         THEN [r.lanes[w] EXCEPT ![Soonest(r.lanes[w])] = a + short[t]]
                         ELSE r.lanes[w]
  BY <1>3 DEF Booked
<1>40. /\ b \in Nat /\ \A x \in Waits(edges, streams, t, q) : x \in Nat /\ x <= b
       /\ z.finish[t] = b + long[t] /\ \A u \in T : z.finish[u] = q.finish[u]
       /\ \A w \in names :
            z.lanes[w] = IF w \in streams[t]
                         THEN [q.lanes[w] EXCEPT ![Soonest(q.lanes[w])] = b + long[t]]
                         ELSE q.lanes[w]
  BY <1>4 DEF Booked
<1>5. /\ k \in Nat \ {0} /\ short[t] \in Nat /\ long[t] \in Nat /\ streams[t] \in SUBSET names
      /\ r.lanes \in [names -> [1..k -> Nat]] /\ q.lanes \in [names -> [1..k -> Nat]]
      /\ r.finish \in [T -> Nat] /\ q.finish \in [T -> Nat]
  BY DEF Lined, Ranged
<1>6. a <= b
  <2>1. CASE a = 0
    BY <1>40, <2>1
  <2>2. CASE a \in Values(r.finish, Preds(edges, t))
    <3>1. PICK u \in Preds(edges, t) : a = r.finish[u]
      BY <2>2 DEF Values
    <3>2. u \in T /\ r.finish[u] <= q.finish[u]
      BY <3>1 DEF Below
    <3>3. q.finish[u] \in Waits(edges, streams, t, q)
      BY <3>1 DEF Waits, Values
    <3>4. PICK y \in Nat : y = q.finish[u] /\ y <= b
      BY <1>40, <3>3
    <3> QED BY <1>30, <1>40, <3>1, <3>2, <3>4
  <2>3. CASE a \in Frees(r.lanes, streams[t])
    <3>1. PICK w \in streams[t] : a = r.lanes[w][Soonest(r.lanes[w])]
      BY <2>3 DEF Frees
    <3>2. PICK A \in [1..k -> Nat] : A = r.lanes[w]
      BY <1>5
    <3>3. PICK B \in [1..k -> Nat] : B = q.lanes[w]
      BY <1>5
    <3>4. Dominated(k, A, B)
      BY <1>5, <3>2, <3>3 DEF Below
    <3>5. PICK n \in Nat : n = 0
      OBVIOUS
    <3>6. n <= n
      OBVIOUS
    <3>7. A[Soonest(A)] <= B[Soonest(B)]
      BY <1>5, <3>4, <3>6, DominatedLemma
    <3>8. B[Soonest(B)] \in Waits(edges, streams, t, q)
      BY <3>3 DEF Waits, Frees
    <3>9. PICK y \in Nat : y = B[Soonest(B)] /\ y <= b
      BY <1>40, <3>8
    <3> QED BY <1>30, <1>40, <3>1, <3>2, <3>7, <3>9
  <2>4. a \in {0} \cup Values(r.finish, Preds(edges, t)) \cup Frees(r.lanes, streams[t])
    BY <1>30 DEF Waits
  <2> QED BY <2>1, <2>2, <2>3, <2>4
<1>7. PICK x \in Nat : x = a + short[t]
  BY <1>30, <1>5
<1>8. PICK y \in Nat : y = b + long[t]
  BY <1>40, <1>5
<1>9. x <= y
  <2>1. PICK i, j \in Nat : i = short[t] /\ j = long[t] /\ i <= j
    BY <1>5
  <2> QED BY <1>30, <1>40, <1>6, <1>7, <1>8, <2>1
<1>10. \A u \in T \cup {t} : v.finish[u] <= z.finish[u]
  BY <1>30, <1>40, <1>7, <1>8, <1>9 DEF Below
<1>11. ASSUME NEW w \in names PROVE Dominated(k, v.lanes[w], z.lanes[w])
  <2>1. Dominated(k, r.lanes[w], q.lanes[w])
    BY DEF Below
  <2>2. CASE w \notin streams[t]
    BY <1>30, <1>40, <2>1, <2>2
  <2>3. CASE w \in streams[t]
    <3>1. PICK A \in [1..k -> Nat] : A = r.lanes[w]
      BY <1>5
    <3>2. PICK B \in [1..k -> Nat] : B = q.lanes[w]
      BY <1>5
    <3>3. Dominated(k, A, B)
      BY <2>1, <3>1, <3>2
    <3>4. Dominated(k, [A EXCEPT ![Soonest(A)] = x], [B EXCEPT ![Soonest(B)] = y])
      BY <1>5, <1>9, <3>3, DominatedLemma
    <3>5. v.lanes[w] = [A EXCEPT ![Soonest(A)] = x] /\ z.lanes[w] = [B EXCEPT ![Soonest(B)] = y]
      BY <1>30, <1>40, <1>7, <1>8, <2>3, <3>1, <3>2
    <3> QED BY <3>4, <3>5
  <2> QED BY <2>2, <2>3
<1> QED BY <1>1, <1>2, <1>10, <1>11 DEF Below

-----------------------------------------------------------------------------
(* Whole ranges *)

(* The tasks among the first n of an order. *)
Among(o, n) == {o[i] : i \in 1..n}

(* The next task of an order comes behind its predecessors. *)
LEMMA AmongLemma ==
  ASSUME NEW tasks, NEW edges, NEW o, Ordered(tasks, edges, o), NEW n \in 0..Len(o), n < Len(o)
  PROVE  /\ n + 1 \in 0..Len(o) /\ n + 1 # 0 /\ (n + 1) - 1 = n /\ Len(o) \in Nat
         /\ Among(o, n) \in SUBSET tasks /\ o[n + 1] \in tasks \ Among(o, n)
         /\ Preds(edges, o[n + 1]) \subseteq Among(o, n)
         /\ Among(o, n + 1) = Among(o, n) \cup {o[n + 1]}
<1>1. PICK m \in Nat : m = Len(o)
  BY LenProperties DEF Ordered
<1>2. o \in [1..m -> tasks]
  BY <1>1, LenProperties DEF Ordered
<1>3. /\ n + 1 \in 0..m /\ n + 1 \in 1..m /\ n + 1 # 0 /\ (n + 1) - 1 = n
      /\ \A i \in 1..n : i \in 1..m /\ i # n + 1
      /\ \A i : i \in 1..(n + 1) <=> i \in 1..n \/ i = n + 1
  BY <1>1
<1>4. /\ \A i, j \in 1..m : o[i] = o[j] => i = j
      /\ \A u \in Preds(edges, o[n + 1]) : \E j \in 1..((n + 1) - 1) : o[j] = u
  BY <1>1, <1>3 DEF Ordered
<1>5. Among(o, n) \in SUBSET tasks /\ o[n + 1] \in tasks \ Among(o, n)
  BY <1>2, <1>3, <1>4 DEF Among
<1>6. Preds(edges, o[n + 1]) \subseteq Among(o, n)
  BY <1>3, <1>4 DEF Among
<1>7. Among(o, n + 1) = Among(o, n) \cup {o[n + 1]}
  BY <1>3 DEF Among
<1> QED BY <1>1, <1>3, <1>5, <1>6, <1>7

(* f is a solution of the recursion of _schedule_range. *)
IsRun(edges, weeks, streams, lanes, o, f) ==
  f = [n \in 0..Len(o) |-> IF n = 0 THEN [lanes |-> lanes, finish |-> <<>>]
                           ELSE Book(edges, weeks, streams, o[n], f[n - 1])]

(* The states of a range. *)
Bookings(tasks, names, k) ==
  [lanes : [names -> [1..k -> Nat]], finish : UNION {[T -> Nat] : T \in SUBSET tasks}]

(* A task that is booked leaves such a state. *)
LEMMA BookedIn ==
  ASSUME NEW tasks, NEW edges, NEW names, NEW streams, NEW k, NEW weeks,
         Lined(tasks, edges, names, streams, k, weeks),
         NEW T \in SUBSET tasks, NEW r, Ranged(edges, names, k, weeks, T, r),
         NEW t \in tasks \ T, Preds(edges, t) \subseteq T
  PROVE  Book(edges, weeks, streams, t, r) \in Bookings(tasks, names, k)
<1>1. PICK v : v = Book(edges, weeks, streams, t, r)
  OBVIOUS
<1>2. Ranged(edges, names, k, weeks, T \cup {t}, v)
  BY <1>1, RangedLemma
<1>3. v.lanes \in [names -> [1..k -> Nat]] /\ v.finish \in [T \cup {t} -> Nat]
  BY <1>2 DEF Ranged
<1>4. T \cup {t} \in SUBSET tasks
  OBVIOUS
<1>5. v = [lanes |-> v.lanes, finish |-> v.finish]
  BY <1>1 DEF Book
<1>6. v.finish \in UNION {[U -> Nat] : U \in SUBSET tasks}
  BY <1>3, <1>4
<1> HIDE DEF Bookings
<1>7. v \in Bookings(tasks, names, k)
  BY <1>3, <1>5, <1>6 DEF Bookings
<1> QED BY <1>1, <1>7

(* The tasks that a run has passed are scheduled. *)
LEMMA RunLemma ==
  ASSUME NEW tasks, NEW edges, NEW names, NEW streams, NEW k, NEW weeks,
         Lined(tasks, edges, names, streams, k, weeks),
         NEW lanes \in [names -> [1..k -> Nat]],
         NEW o, Ordered(tasks, edges, o), NEW f, IsRun(edges, weeks, streams, lanes, o, f)
  PROVE  \A n \in 0..Len(o) : Ranged(edges, names, k, weeks, Among(o, n), f[n])
<1> DEFINE A == {n \in 0..Len(o) : Ranged(edges, names, k, weeks, Among(o, n), f[n])}
<1>1. Len(o) \in Nat
  BY LenProperties DEF Ordered
<1>2. \A n \in 0..Len(o) : f[n] = IF n = 0 THEN [lanes |-> lanes, finish |-> <<>>]
                                  ELSE Book(edges, weeks, streams, o[n], f[n - 1])
  BY DEF IsRun
<1>3. 0 \in A
  <2>1. Among(o, 0) = {} /\ 0 \in 0..Len(o)
    BY <1>1 DEF Among
  <2>2. f[0] = [lanes |-> lanes, finish |-> <<>>]
    BY <1>2, <2>1
  <2>3. <<>> \in [{} -> Nat]
    OBVIOUS
  <2>4. Ranged(edges, names, k, weeks, Among(o, 0), f[0])
    BY <2>1, <2>2, <2>3 DEF Ranged
  <2> QED BY <2>1, <2>4
<1>4. ASSUME NEW n \in 0..Len(o), n \in A, n < Len(o) PROVE n + 1 \in A
  <2>1. /\ n + 1 \in 0..Len(o) /\ n + 1 # 0 /\ (n + 1) - 1 = n
        /\ Among(o, n) \in SUBSET tasks /\ o[n + 1] \in tasks \ Among(o, n)
        /\ Preds(edges, o[n + 1]) \subseteq Among(o, n)
        /\ Among(o, n + 1) = Among(o, n) \cup {o[n + 1]}
    BY <1>4, AmongLemma
  <2>2. f[n + 1] = Book(edges, weeks, streams, o[n + 1], f[n])
    BY <1>2, <2>1
  <2>3. Ranged(edges, names, k, weeks, Among(o, n), f[n])
    BY <1>4
  <2>4. PICK T \in SUBSET tasks : T = Among(o, n)
    BY <2>1
  <2>5. PICK t \in tasks \ T : t = o[n + 1]
    BY <2>1, <2>4
  <2>6. PICK r : r = f[n]
    OBVIOUS
  <2>7. Ranged(edges, names, k, weeks, T, r) /\ Preds(edges, t) \subseteq T
    BY <2>1, <2>3, <2>4, <2>5, <2>6
  <2>8. Ranged(edges, names, k, weeks, T \cup {t}, Book(edges, weeks, streams, t, r))
    BY <2>7, RangedLemma
  <2> QED BY <2>1, <2>2, <2>4, <2>5, <2>6, <2>8
<1>5. \A n \in 0..Len(o) : n \in A
  <2> HIDE DEF A
  <2> QED BY <1>1, <1>3, <1>4, UpTo
<1> QED BY <1>5

(* There is a run. *)
LEMMA RunExists ==
  ASSUME NEW tasks, NEW edges, NEW names, NEW streams, NEW k, NEW weeks,
         Lined(tasks, edges, names, streams, k, weeks),
         NEW lanes \in [names -> [1..k -> Nat]],
         NEW o, Ordered(tasks, edges, o)
  PROVE  \E f : IsRun(edges, weeks, streams, lanes, o, f)
<1> DEFINE m == Len(o)
           D == Bookings(tasks, names, k)
           base == [lanes |-> lanes, finish |-> <<>>]
           next(i, r) == Book(edges, weeks, streams, o[i], r)
           step == [i \in 1..m |-> [r \in D |-> IF next(i, r) \in D THEN next(i, r) ELSE r]]
           Good(n, r) == Ranged(edges, names, k, weeks, Among(o, n), r)
<1>1. m \in Nat
  BY LenProperties DEF Ordered
<1>2. base \in D /\ Good(0, base)
  <2>1. Among(o, 0) = {}
    BY DEF Among
  <2>2. <<>> \in [{} -> Nat] /\ {} \in SUBSET tasks
    OBVIOUS
  <2>3. <<>> \in UNION {[T -> Nat] : T \in SUBSET tasks}
    BY <2>2
  <2>4. Ranged(edges, names, k, weeks, {}, base)
    BY <2>2 DEF Ranged
  <2> QED BY <2>1, <2>3, <2>4 DEF Bookings
<1>3. ASSUME NEW n \in 0..m, n < m, NEW r, Good(n, r)
      PROVE  Good(n + 1, next(n + 1, r)) /\ next(n + 1, r) \in D
  <2>1. /\ Among(o, n) \in SUBSET tasks /\ o[n + 1] \in tasks \ Among(o, n)
        /\ Preds(edges, o[n + 1]) \subseteq Among(o, n)
        /\ Among(o, n + 1) = Among(o, n) \cup {o[n + 1]}
    BY <1>3, AmongLemma
  <2>2. PICK T \in SUBSET tasks : T = Among(o, n)
    BY <2>1
  <2>3. PICK t \in tasks \ T : t = o[n + 1]
    BY <2>1, <2>2
  <2>4. Ranged(edges, names, k, weeks, T, r) /\ Preds(edges, t) \subseteq T
    BY <1>3, <2>1, <2>2, <2>3
  <2>5. /\ Ranged(edges, names, k, weeks, T \cup {t}, Book(edges, weeks, streams, t, r))
        /\ Book(edges, weeks, streams, t, r) \in Bookings(tasks, names, k)
    BY <2>4, RangedLemma, BookedIn
  <2> QED BY <2>1, <2>2, <2>3, <2>5
<1> HIDE DEF D, base, m, Good, next
<1>4. step \in [1..m -> [D -> D]]
  OBVIOUS
<1>5. PICK f : Iterates(f, m, D, base, step)
  <2> HIDE DEF step
  <2> QED BY <1>1, <1>2, <1>4, Recursion
<1>6. f \in [0..m -> D] /\ f[0] = base
  BY <1>5 DEF Iterates
<1>7. ASSUME NEW n \in 1..m
      PROVE  f[n] = IF next(n, f[n - 1]) \in D THEN next(n, f[n - 1]) ELSE f[n - 1]
  <2>1. n - 1 \in 0..m /\ f[n] = step[n][f[n - 1]]
    <3> HIDE DEF step
    <3> QED BY <1>1, <1>5 DEF Iterates
  <2>2. f[n - 1] \in D
    <3> HIDE DEF step
    <3> QED BY <1>6, <2>1
  <2> QED BY <2>1, <2>2
<1> HIDE DEF step
<1> DEFINE A == {n \in 0..m : Good(n, f[n])}
<1>8. 0 \in A
  BY <1>1, <1>2, <1>6
<1>9. ASSUME NEW n \in 0..m, n < m, Good(n, f[n])
      PROVE  f[n + 1] = next(n + 1, f[n]) /\ Good(n + 1, f[n + 1])
  <2>1. n + 1 \in 1..m /\ (n + 1) - 1 = n
    BY <1>1, <1>9
  <2>2. Good(n + 1, next(n + 1, f[n])) /\ next(n + 1, f[n]) \in D
    BY <1>3, <1>9
  <2> QED BY <1>7, <2>1, <2>2
<1>10. ASSUME NEW n \in 0..m, n \in A, n < m PROVE n + 1 \in A
  BY <1>1, <1>9, <1>10
<1>11. \A n \in 0..m : n \in A
  <2> HIDE DEF A
  <2> QED BY <1>1, <1>8, <1>10, UpTo
<1>12. ASSUME NEW n \in 0..m PROVE f[n] = IF n = 0 THEN base ELSE next(n, f[n - 1])
  <2>1. CASE n = 0
    BY <1>6, <2>1
  <2>2. CASE n # 0
    <3>1. n - 1 \in 0..m /\ n - 1 < m /\ (n - 1) + 1 = n
      BY <1>1, <2>2
    <3>2. Good(n - 1, f[n - 1])
      BY <1>11, <3>1
    <3>3. f[(n - 1) + 1] = next((n - 1) + 1, f[n - 1])
      BY <1>9, <3>1, <3>2
    <3> QED BY <2>2, <3>1, <3>3
  <2> QED BY <2>1, <2>2
<1>13. f = [n \in 0..m |-> IF n = 0 THEN base ELSE next(n, f[n - 1])]
  <2>1. f = [n \in 0..m |-> f[n]]
    BY <1>6
  <2> QED BY <1>12, <2>1
<1> QED BY <1>13 DEF IsRun, m, base, next

(* A range with shorter tasks is never behind one with longer tasks. *)
LEMMA RunsBelow ==
  ASSUME NEW tasks, NEW edges, NEW names, NEW streams, NEW k, NEW short, NEW long,
         Lined(tasks, edges, names, streams, k, short),
         Lined(tasks, edges, names, streams, k, long),
         \A t \in tasks : short[t] <= long[t],
         NEW lanes \in [names -> [1..k -> Nat]],
         NEW o, Ordered(tasks, edges, o),
         NEW f, IsRun(edges, short, streams, lanes, o, f),
         NEW g, IsRun(edges, long, streams, lanes, o, g)
  PROVE  \A n \in 0..Len(o) : Below(names, k, Among(o, n), f[n], g[n])
<1> DEFINE A == {n \in 0..Len(o) : Below(names, k, Among(o, n), f[n], g[n])}
<1>1. Len(o) \in Nat /\ k \in Nat \ {0}
  BY LenProperties DEF Ordered, Lined
<1>2. \A n \in 0..Len(o) :
        /\ f[n] = IF n = 0 THEN [lanes |-> lanes, finish |-> <<>>]
                  ELSE Book(edges, short, streams, o[n], f[n - 1])
        /\ g[n] = IF n = 0 THEN [lanes |-> lanes, finish |-> <<>>]
                  ELSE Book(edges, long, streams, o[n], g[n - 1])
  BY DEF IsRun
<1>3. \A n \in 0..Len(o) : /\ Ranged(edges, names, k, short, Among(o, n), f[n])
                           /\ Ranged(edges, names, k, long, Among(o, n), g[n])
  BY RunLemma
<1>4. 0 \in A
  <2>1. Among(o, 0) = {} /\ 0 \in 0..Len(o)
    BY <1>1 DEF Among
  <2>2. f[0] = [lanes |-> lanes, finish |-> <<>>] /\ g[0] = [lanes |-> lanes, finish |-> <<>>]
    BY <1>2, <2>1
  <2>3. ASSUME NEW w \in names PROVE Dominated(k, lanes[w], lanes[w])
    <3> DEFINE s == [i \in 1..k |-> i]
    <3>1. s \in [1..k -> 1..k] /\ \A i \in 1..k : s[i] = i
      OBVIOUS
    <3>2. PICK L \in [1..k -> Nat] : L = lanes[w]
      OBVIOUS
    <3> HIDE DEF s
    <3>3. \A i \in 1..k : L[i] <= L[s[i]]
      <4> TAKE i \in 1..k
      <4>1. L[i] \in Nat /\ s[i] = i
        BY <3>1
      <4>2. PICK x \in Nat : x = L[i]
        BY <4>1
      <4> QED BY <4>1, <4>2
    <3>4. Dominated(k, L, L)
      BY <3>1, <3>3 DEF Dominated
    <3> QED BY <3>2, <3>4
  <2>4. Below(names, k, {}, f[0], g[0])
    BY <2>2, <2>3 DEF Below
  <2> QED BY <2>1, <2>4
<1>5. ASSUME NEW n \in 0..Len(o), n \in A, n < Len(o) PROVE n + 1 \in A
  <2>1. /\ n + 1 \in 0..Len(o) /\ n + 1 # 0 /\ (n + 1) - 1 = n
        /\ Among(o, n) \in SUBSET tasks /\ o[n + 1] \in tasks \ Among(o, n)
        /\ Preds(edges, o[n + 1]) \subseteq Among(o, n)
        /\ Among(o, n + 1) = Among(o, n) \cup {o[n + 1]}
    BY <1>5, AmongLemma
  <2>2. /\ f[n + 1] = Book(edges, short, streams, o[n + 1], f[n])
        /\ g[n + 1] = Book(edges, long, streams, o[n + 1], g[n])
    BY <1>2, <2>1
  <2>3. PICK T \in SUBSET tasks : T = Among(o, n)
    BY <2>1
  <2>4. PICK t \in tasks \ T : t = o[n + 1]
    BY <2>1, <2>3
  <2>5. PICK r : r = f[n]
    OBVIOUS
  <2>6. PICK q : q = g[n]
    OBVIOUS
  <2>7. /\ Ranged(edges, names, k, short, T, r) /\ Ranged(edges, names, k, long, T, q)
        /\ Below(names, k, T, r, q) /\ Preds(edges, t) \subseteq T /\ short[t] <= long[t]
    BY <1>3, <1>5, <2>1, <2>3, <2>4, <2>5, <2>6
  <2>8. Below(names, k, T \cup {t}, Book(edges, short, streams, t, r),
                                    Book(edges, long, streams, t, q))
    BY <2>7, BelowLemma
  <2> QED BY <2>1, <2>2, <2>3, <2>4, <2>5, <2>6, <2>8
<1>6. \A n \in 0..Len(o) : n \in A
  <2> HIDE DEF A
  <2> QED BY <1>1, <1>4, <1>5, UpTo
<1> QED BY <1>6

(* A range gives every task a time behind its predecessors. *)
LEMMA RangeLemma ==
  ASSUME NEW tasks, NEW edges, NEW names, NEW streams, NEW k, NEW weeks,
         Lined(tasks, edges, names, streams, k, weeks),
         NEW lanes \in [names -> [1..k -> Nat]]
  PROVE  /\ Ordered(tasks, edges, GraphOrder(tasks, edges))
         /\ \E f : /\ IsRun(edges, weeks, streams, lanes, GraphOrder(tasks, edges), f)
                  /\ f[Len(GraphOrder(tasks, edges))].finish
                       = RangeFinishes(tasks, edges, weeks, streams, lanes)
                  /\ Ranged(edges, names, k, weeks, tasks, f[Len(GraphOrder(tasks, edges))])
<1> DEFINE P(f) == IsRun(edges, weeks, streams, lanes, GraphOrder(tasks, edges), f)
           run == CHOOSE f : P(f)
<1>1. PICK o : o = GraphOrder(tasks, edges)
  OBVIOUS
<1>2. Ordered(tasks, edges, o) /\ Range(o) = tasks
  <2>1. PICK zero : zero = [t \in tasks |-> 0]
    OBVIOUS
  <2>2. \A t \in tasks : zero[t] \in Int
    BY <2>1
  <2>3. /\ tasks \in SUBSET Int /\ IsFiniteSet(tasks)
        /\ edges \in SUBSET (tasks \X tasks) /\ NoCircle(tasks, edges)
    BY DEF Lined, Graph
  <2>4. /\ Ordered(tasks, edges, TopologicalOrder(tasks, edges, zero))
        /\ Range(TopologicalOrder(tasks, edges, zero)) = tasks
    BY <2>2, <2>3, OrderOfAll
  <2> QED BY <1>1, <2>1, <2>4 DEF GraphOrder
<1>3. \E f : P(f)
  BY <1>1, <1>2, RunExists
<1>4. P(run)
  <2> HIDE DEF P
  <2> QED BY <1>3
<1>5. RangeFinishes(tasks, edges, weeks, streams, lanes) = run[Len(o)].finish
  BY <1>1 DEF RangeFinishes, IsRun
<1>6. Len(o) \in Nat /\ DOMAIN o = 1..Len(o)
  BY <1>2, LenProperties DEF Ordered
<1>7. Among(o, Len(o)) = tasks
  BY <1>2, <1>6 DEF Among, Range
<1> HIDE DEF run
<1>8. Ranged(edges, names, k, weeks, Among(o, Len(o)), run[Len(o)])
  <2>1. Len(o) \in 0..Len(o)
    BY <1>6
  <2> QED BY <1>1, <1>2, <1>4, <2>1, RunLemma
<1> QED BY <1>1, <1>2, <1>4, <1>5, <1>7, <1>8

(* More effort never ends a task earlier. *)
LEMMA RangeMonotone ==
  ASSUME NEW tasks, NEW edges, NEW names, NEW streams, NEW k, NEW short, NEW long,
         Lined(tasks, edges, names, streams, k, short),
         Lined(tasks, edges, names, streams, k, long),
         \A t \in tasks : short[t] <= long[t],
         NEW lanes \in [names -> [1..k -> Nat]]
  PROVE  \A t \in tasks : RangeFinishes(tasks, edges, short, streams, lanes)[t]
                            <= RangeFinishes(tasks, edges, long, streams, lanes)[t]
<1>1. PICK o : o = GraphOrder(tasks, edges)
  OBVIOUS
<1>2. Ordered(tasks, edges, o)
  BY <1>1, RangeLemma
<1>3. PICK f : /\ IsRun(edges, short, streams, lanes, o, f)
               /\ f[Len(o)].finish = RangeFinishes(tasks, edges, short, streams, lanes)
               /\ Ranged(edges, names, k, short, tasks, f[Len(o)])
  BY <1>1, RangeLemma
<1>4. PICK g : /\ IsRun(edges, long, streams, lanes, o, g)
               /\ g[Len(o)].finish = RangeFinishes(tasks, edges, long, streams, lanes)
  BY <1>1, RangeLemma
<1>5. Len(o) \in Nat /\ DOMAIN o = 1..Len(o) /\ Len(o) \in 0..Len(o)
  BY <1>2, LenProperties DEF Ordered
<1>6. Below(names, k, Among(o, Len(o)), f[Len(o)], g[Len(o)])
  BY <1>2, <1>3, <1>4, <1>5, RunsBelow
<1>7. Among(o, Len(o)) = tasks
  <2>1. Range(o) = tasks
    <3>1. PICK zero : zero = [t \in tasks |-> 0]
      OBVIOUS
    <3>2. \A t \in tasks : zero[t] \in Int
      BY <3>1
    <3>3. /\ tasks \in SUBSET Int /\ IsFiniteSet(tasks)
          /\ edges \in SUBSET (tasks \X tasks) /\ NoCircle(tasks, edges)
      BY DEF Lined, Graph
    <3>4. Range(TopologicalOrder(tasks, edges, zero)) = tasks
      BY <3>2, <3>3, OrderOfAll
    <3> QED BY <1>1, <3>1, <3>4 DEF GraphOrder
  <2> QED BY <1>5, <2>1 DEF Among, Range
<1> QED BY <1>3, <1>4, <1>6, <1>7 DEF Below

(* No task ends before the heaviest chain to it could be worked off. *)
LEMMA RangeAtLeast ==
  ASSUME NEW tasks, NEW edges, Graph(tasks, edges), NEW names, NEW k, NEW weeks,
         \A t \in tasks : weeks[t] \in Nat,
         NEW r, Ranged(edges, names, k, weeks, tasks, r)
  PROVE  \A t \in tasks : \A n : Heaviest(tasks, edges, weeks, t, n) => n <= r.finish[t]
<1> DEFINE H(t, n) == Heaviest(tasks, edges, weeks, t, n)
           f == [t \in tasks |-> CHOOSE n : H(t, n)]
           B == {t \in tasks : ~ f[t] <= r.finish[t]}
<1>1. /\ \A t \in tasks : \E n : H(t, n)
      /\ \A t, m, n : H(t, m) /\ H(t, n) => m = n
  BY HeaviestLemma
<1>2. \A t \in tasks : H(t, f[t])
  <2> TAKE t \in tasks
  <2>1. f[t] = CHOOSE n : H(t, n)
    OBVIOUS
  <2>2. \E n : H(t, n)
    BY <1>1
  <2> HIDE DEF H, f
  <2> QED BY <2>1, <2>2
<1> HIDE DEF f
<1>3. B = {}
  <2> SUFFICES ASSUME B # {} PROVE FALSE
    OBVIOUS
  <2>1. PICK t \in B : Preds(edges, t) \cap B = {}
    <3>1. B \in SUBSET tasks
      OBVIOUS
    <3> HIDE DEF B
    <3> QED BY <3>1 DEF Graph, NoCircle
  <2>2. t \in tasks /\ Preds(edges, t) \subseteq tasks /\ IsFiniteSet(Preds(edges, t))
    <3>1. t \in tasks /\ Preds(edges, t) \subseteq tasks
      BY EdgesLemma DEF Graph
    <3> QED BY <3>1, FS_Subset DEF Graph
  <2>3. \A p \in Preds(edges, t) : H(p, f[p]) /\ f[p] \in Int
    BY <1>2, <2>2 DEF Heaviest
  <2> DEFINE m == LargestOf(Values(f, Preds(edges, t)), 0)
  <2>4. H(t, m + weeks[t])
    BY <2>2, <2>3, HeaviestStep
  <2>5. f[t] = m + weeks[t]
    <3> HIDE DEF H, m
    <3> QED BY <1>1, <1>2, <2>2, <2>4
  <2>6. /\ Preds(edges, t) = {} => m = 0
        /\ Preds(edges, t) # {} => \E p \in Preds(edges, t) : m = f[p]
    BY <2>2, <2>3, LargestLemma
  <2> HIDE DEF m, H
  <2>7. r.finish \in [tasks -> Nat] /\ weeks[t] \in Nat /\ weeks[t] <= r.finish[t]
    BY <2>2 DEF Ranged
  <2>8. PICK w, e \in Nat : w = weeks[t] /\ e = r.finish[t] /\ w <= e
    BY <2>2, <2>7
  <2>9. CASE Preds(edges, t) = {}
    <3>1. f[t] = 0 + w
      BY <2>5, <2>6, <2>8, <2>9
    <3>2. f[t] <= e
      BY <2>8, <3>1
    <3> QED BY <2>8, <3>2 DEF B
  <2>10. CASE Preds(edges, t) # {}
    <3>1. PICK p \in Preds(edges, t) : m = f[p]
      BY <2>6, <2>10
    <3>2. p \in tasks /\ p \notin B /\ f[p] \in Int
      BY <2>1, <2>2, <2>3
    <3>3. f[p] <= r.finish[p] /\ r.finish[p] + w <= e
      BY <2>2, <2>8, <3>1, <3>2 DEF B, Ranged
    <3>4. PICK x \in Int : x = f[p]
      BY <3>2
    <3>5. PICK y \in Nat : y = r.finish[p]
      BY <2>7, <3>2
    <3>6. x <= y /\ y + w <= e
      BY <3>3, <3>4, <3>5
    <3>7. x + w <= e
      BY <2>8, <3>6
    <3>8. f[t] = x + w
      BY <2>5, <2>8, <3>1, <3>4
    <3> QED BY <2>8, <3>7, <3>8 DEF B
  <2> QED BY <2>9, <2>10
<1>4. ASSUME NEW t \in tasks, NEW n, H(t, n) PROVE n <= r.finish[t]
  <2>1. n = f[t]
    <3> HIDE DEF H
    <3> QED BY <1>1, <1>2, <1>4
  <2>2. t \notin B
    BY <1>3
  <2> HIDE DEF H
  <2> QED BY <2>1, <2>2 DEF B
<1> QED BY <1>4

-----------------------------------------------------------------------------
(* Scenarios *)

(* The workstreams, and how many tasks each works on at a time. *)
Names == UNION {Streams[t] : t \in Tasks}
Parallel == IF project.calendar = None THEN 1 ELSE project.calendar.parallel

(* The likely hours of a scenario, and the ends of its range. *)
LEMMA OverriddenLemma ==
  ASSUME Typed, NEW o \in Overrides, NEW hours, hours = Overridden(o)
  PROVE  hours \in [Tasks -> Nat]
<1>1. effort \in [Tasks -> Nat]
  BY DEF Typed
<1>2. o.task \in Tasks /\ o.effort \in Nat
  BY OverridesAssumption
<1> QED BY <1>1, <1>2 DEF Overridden

(* Every workstream has at least one slot, free from the start. *)
LEMMA LanesLemma ==
  Typed => Parallel \in Nat \ {0} /\ Lanes \in [Names -> [1..Parallel -> Nat]]
<1> SUFFICES ASSUME Typed
             PROVE  Parallel \in Nat \ {0} /\ Lanes \in [Names -> [1..Parallel -> Nat]]
  OBVIOUS
<1>1. Parallel \in Nat \ {0}
  BY ProjectsAssumption DEF Typed, Parallel
<1>2. Lanes = [w \in Names |-> [i \in 1..Parallel |-> 0]]
  BY DEF Lanes, Names, Parallel
<1> QED BY <1>1, <1>2

(* A draft's tasks can be lined up with any hours. *)
LEMMA LinedLemma ==
  ASSUME Typed, Judged, stage = "draft", NEW weeks \in [Tasks -> Nat]
  PROVE  Graph(Tasks, Edges) /\ Lined(Tasks, Edges, Names, Streams, Parallel, weeks)
<1>1. Graph(Tasks, Edges)
  BY EdgesSound, TasksLemma DEF Graph
<1>2. Parallel \in Nat \ {0}
  BY LanesLemma
<1>3. \A t \in Tasks : Streams[t] \in SUBSET Names /\ IsFiniteSet(Streams[t]) /\ weeks[t] \in Nat
  BY OverridesAssumption DEF Names
<1> QED BY <1>1, <1>2, <1>3 DEF Lined

(* The three ranges of a task are in order. *)
LEMMA RangesLemma ==
  ASSUME Typed, Judged, stage = "draft", NEW hours \in [Tasks -> Nat],
         NEW e, e = CapacityRanges(hours)
  PROVE  /\ \A t \in Tasks : e.optimistic[t] <= e.likely[t] /\ e.likely[t] <= e.pessimistic[t]
         /\ e.likely = RangeFinishes(Tasks, Edges, hours, Streams, Lanes)
<1>1. PICK short : short = [t \in Tasks |-> Min({effort[t] \div 2, hours[t]})]
  OBVIOUS
<1>2. PICK long : long = [t \in Tasks |-> Max({2 * effort[t], hours[t]})]
  OBVIOUS
<1>3. /\ e.optimistic = RangeFinishes(Tasks, Edges, short, Streams, Lanes)
      /\ e.likely = RangeFinishes(Tasks, Edges, hours, Streams, Lanes)
      /\ e.pessimistic = RangeFinishes(Tasks, Edges, long, Streams, Lanes)
  BY <1>1, <1>2 DEF CapacityRanges
<1>4. ASSUME NEW t \in Tasks
      PROVE  /\ short[t] \in Nat /\ long[t] \in Nat
             /\ short[t] <= hours[t] /\ hours[t] <= long[t]
  <2>1. PICK x \in Nat : x = effort[t]
    BY DEF Typed
  <2>2. PICK y \in Nat : y = hours[t]
    OBVIOUS
  <2>3. PICK h \in Nat : h = x \div 2
    BY <2>1
  <2>4. PICK d \in Nat : d = 2 * x
    BY <2>1
  <2>5. short[t] = Min({h, y}) /\ long[t] = Max({d, y})
    BY <1>1, <1>2, <2>1, <2>2, <2>3, <2>4
  <2>6. Max({d, y}) \in {d, y} /\ y <= Max({d, y})
    BY MaxOfTwo
  <2>7. Min({h, y}) \in {h, y} /\ Min({h, y}) <= y
    <3>1. {h, y} \in SUBSET Int /\ {h, y} # {} /\ IsFiniteSet({h, y})
      <4>1. IsFiniteSet({h}) /\ {h, y} = {h} \cup {y}
        BY FS_Singleton
      <4> QED BY <4>1, FS_AddElement
    <3> QED BY <3>1, MinMax
  <2> QED BY <2>2, <2>5, <2>6, <2>7
<1>5. short \in [Tasks -> Nat] /\ long \in [Tasks -> Nat]
  BY <1>1, <1>2, <1>4
<1>6. /\ Lined(Tasks, Edges, Names, Streams, Parallel, short)
      /\ Lined(Tasks, Edges, Names, Streams, Parallel, hours)
      /\ Lined(Tasks, Edges, Names, Streams, Parallel, long)
  BY <1>5, LinedLemma
<1>7. Lanes \in [Names -> [1..Parallel -> Nat]]
  BY LanesLemma
<1>8. \A t \in Tasks : RangeFinishes(Tasks, Edges, short, Streams, Lanes)[t]
                       <= RangeFinishes(Tasks, Edges, hours, Streams, Lanes)[t]
  BY <1>4, <1>6, <1>7, RangeMonotone
<1>9. \A t \in Tasks : RangeFinishes(Tasks, Edges, hours, Streams, Lanes)[t]
                       <= RangeFinishes(Tasks, Edges, long, Streams, Lanes)[t]
  BY <1>4, <1>6, <1>7, RangeMonotone
<1> QED BY <1>3, <1>8, <1>9

(* The range with the likely hours takes at least as long as the critical path. *)
LEMMA LikelyLemma ==
  ASSUME Typed, Judged, stage = "draft", NEW hours \in [Tasks -> Nat],
         NEW n \in Nat, NEW S, Chain(Tasks, Edges, S), SumOf(hours, S) = n
  PROVE  n <= Max(Range(RangeFinishes(Tasks, Edges, hours, Streams, Lanes)))
<1>1. PICK f : f = RangeFinishes(Tasks, Edges, hours, Streams, Lanes)
  OBVIOUS
<1>2. Graph(Tasks, Edges) /\ Lined(Tasks, Edges, Names, Streams, Parallel, hours)
  BY LinedLemma
<1>3. PICK r : Ranged(Edges, Names, Parallel, hours, Tasks, r) /\ r.finish = f
  BY <1>1, <1>2, LanesLemma, RangeLemma
<1>4. f \in [Tasks -> Nat]
  BY <1>3 DEF Ranged
<1>5. Range(f) \in SUBSET Int /\ IsFiniteSet(Range(f)) /\ Range(f) # {}
  <2>1. f \in Surjection(Tasks, Range(f))
    BY <1>4 DEF Surjection, Range
  <2>2. IsFiniteSet(Range(f))
    BY <2>1, TasksLemma, FS_Surjection
  <2>3. Range(f) \in SUBSET Int /\ Range(f) # {}
    <3>1. Range(f) = {f[t] : t \in Tasks}
      BY <1>4 DEF Range
    <3>2. PICK t \in Tasks : TRUE
      BY TasksLemma
    <3>3. f[t] \in Range(f)
      BY <3>1
    <3>4. \A u \in Tasks : f[u] \in Int
      BY <1>4
    <3> QED BY <3>1, <3>3, <3>4
  <2> QED BY <2>2, <2>3
<1>6. PICK m : m = Max(Range(f))
  OBVIOUS
<1>7. m \in Nat /\ \A t \in Tasks : f[t] <= m
  BY <1>4, <1>5, <1>6, MinMax DEF Range
<1>8. n <= m
  <2>1. CASE S = {}
    <3>1. SumOf(hours, S) = 0
      <4>1. IsFiniteSet({}) /\ \A x \in {} : hours[x] \in Nat
        BY FS_EmptySet
      <4> QED BY <2>1, <4>1, SumLemma
    <3> QED BY <1>7, <3>1
  <2>2. CASE S # {}
    <3>1. PICK t \in S : ChainTo(Tasks, Edges, S, t)
      BY <1>2, <2>2, TopOfChain
    <3>2. S \in SUBSET Tasks /\ t \in Tasks
      BY DEF Chain
    <3>3. PICK h : Heaviest(Tasks, Edges, hours, t, h)
      BY <1>2, <3>2, HeaviestLemma
    <3>4. n <= h /\ h \in Nat
      BY <3>1, <3>2, <3>3 DEF Heaviest
    <3>5. h <= r.finish[t]
      BY <1>2, <1>3, <3>2, <3>3, RangeAtLeast
    <3>6. PICK x \in Nat : x = f[t] /\ h <= x /\ x <= m
      BY <1>3, <1>4, <1>7, <3>2, <3>5
    <3> QED BY <1>7, <3>4, <3>6
  <2> QED BY <2>1, <2>2
<1> QED BY <1>1, <1>6, <1>8

-----------------------------------------------------------------------------

(* The chains of the property. *)
Chains == {S \in SUBSET Tasks : \A t, u \in S : t = u \/ Reaches(t, u) \/ Reaches(u, t)}

(* The chains of the property are the chains of the proof. *)
LEMMA ChainsLemma ==
  \A S : S \in Chains <=> Chain(Tasks, Edges, S)
<1>1. ASSUME NEW t, NEW u \in Tasks PROVE Reaches(t, u) <=> u \in After(Tasks, Edges, t)
  BY DEF Reaches, After
<1> QED BY <1>1 DEF Chains, Chain

(* What is right of the critical path is right of the sets of the property. *)
LEMMA HeaviestOfChains ==
  ASSUME NEW hours, NEW n, NEW keys, IsCritical(Tasks, Edges, hours, n, keys),
         \A S \in Chains : SumOf(hours, S) \in Nat
  PROVE  /\ n = Max({SumOf(hours, S) : S \in Chains})
         /\ keys = UNION {S \in Chains : SumOf(hours, S) = n}
<1> DEFINE W == {SumOf(hours, S) : S \in Chains}
<1>1. n \in W
  BY ChainsLemma DEF IsCritical
<1>2. W \in SUBSET Int /\ \A x \in W : x <= n
  BY ChainsLemma DEF IsCritical
<1>3. Max(W) = n
  <2> HIDE DEF W
  <2> QED BY <1>1, <1>2, MaxIs
<1>4. \A t : t \in keys <=> t \in UNION {S \in Chains : SumOf(hours, S) = n}
  BY ChainsLemma DEF IsCritical
<1> QED BY <1>3, <1>4

(* What a scenario says of a draft. *)
LEMMA ScenarioLemma == Typed /\ Judged => ScenarioIsSound
<1> SUFFICES ASSUME Typed, Judged, stage = "draft", NEW o \in Overrides
             PROVE  LET hours == Overridden(o)
                        result == ScenarioResult(o)
                        heaviest == Max({SumOf(hours, S) : S \in Chains})
                        ends == result.ranges
                    IN /\ result.critical.duration = heaviest
                       /\ result.critical.keys = UNION {S \in Chains : SumOf(hours, S) = heaviest}
                       /\ \A t \in Tasks : /\ ends.optimistic[t] <= ends.likely[t]
                                           /\ ends.likely[t] <= ends.pessimistic[t]
                       /\ Max(Range(ends.likely)) >= heaviest
  BY Zenon DEF ScenarioIsSound, Chains
<1>1. PICK hours : hours = Overridden(o)
  OBVIOUS
<1>2. PICK c : c = CriticalPath(Tasks, Edges, hours)
  OBVIOUS
<1>3. PICK e : e = CapacityRanges(hours)
  OBVIOUS
<1>4. ScenarioResult(o).critical = c /\ ScenarioResult(o).ranges = e
  BY <1>1, <1>2, <1>3 DEF ScenarioResult
<1>5. hours \in [Tasks -> Nat]
  BY <1>1, OverriddenLemma
<1>6. Graph(Tasks, Edges)
  BY <1>5, LinedLemma
<1>7. PICK n : n = c.duration
  OBVIOUS
<1>8. IsCritical(Tasks, Edges, hours, n, c.keys)
  BY <1>2, <1>5, <1>6, <1>7, TasksLemma, CriticalLemma
<1>9. \A S \in Chains : SumOf(hours, S) \in Nat
  <2> TAKE S \in Chains
  <2>1. IsFiniteSet(S) /\ S \in SUBSET Tasks
    BY TasksLemma, FS_Subset DEF Chains
  <2> QED BY <1>5, <2>1, SumLemma
<1>10. PICK w : w = Max({SumOf(hours, S) : S \in Chains})
  OBVIOUS
<1>11. n = w /\ c.keys = UNION {S \in Chains : SumOf(hours, S) = n}
  BY <1>8, <1>9, <1>10, HeaviestOfChains
<1>12. /\ \A t \in Tasks : e.optimistic[t] <= e.likely[t] /\ e.likely[t] <= e.pessimistic[t]
       /\ e.likely = RangeFinishes(Tasks, Edges, hours, Streams, Lanes)
  BY <1>3, <1>5, RangesLemma
<1>13. n <= Max(Range(e.likely))
  <2>1. PICK S : Chain(Tasks, Edges, S) /\ SumOf(hours, S) = n
    BY <1>8 DEF IsCritical
  <2>2. n \in Nat
    BY <1>8 DEF IsCritical
  <2> QED BY <1>5, <1>12, <2>1, <2>2, LikelyLemma
<1>14. PICK m : m = Max(Range(e.likely))
  OBVIOUS
<1>15. m >= n
  BY <1>13, <1>14
<1> QED BY <1>1, <1>4, <1>7, <1>10, <1>11, <1>12, <1>14, <1>15

(* Whatever is overridden, the critical path is the heaviest chain of dependencies and *)
(* its tasks are those on such a chain; more effort never ends a task earlier; and no  *)
(* range ends before the critical path allows.                                         *)
THEOREM ScenarioHolds == Spec => []ScenarioIsSound
<1>1. Typed /\ Judged => ScenarioIsSound
  BY ScenarioLemma
<1> QED BY <1>1, GraphHolds, PTL
=============================================================================
