------------------------ MODULE SemanticNodesProofs ------------------------
(***************************************************************************)
(* Proofs about SemanticNodes, for any facts, batch sizes, token budget,   *)
(* answers and crashes, on the hosted path and the fast local one: what is *)
(* saved is linked, no requirement is lost, the gate finds nothing, and no *)
(* more is spent than the budget and an answer for each crash and one.     *)
(*                                                                         *)
(* PlanInv says of every node what the draft holds before it (DraftInv)    *)
(* and what the calls made so far and those still to make add up to        *)
(* (WorkInv).  The first part proves what the loops of the code return,    *)
(* which the model writes as recursive functions, by induction over their  *)
(* steps: the least counterexample among finitely many.                    *)
(***************************************************************************)
EXTENDS SemanticNodes, TLAPS, FiniteSetTheorems, WellFoundedInduction, SequenceTheorems

-----------------------------------------------------------------------------
(* Induction and recursion over the natural numbers, for sets and functions *)

(* A set of natural numbers has a least element. *)
LEMMA LeastLemma ==
  ASSUME NEW T, T \subseteq Nat, T # {}
  PROVE  \E x \in T : \A y \in T : x <= y
<1> DEFINE Rel == OpToRel(<, Nat)
<1>1. IsWellFoundedOn(Rel, Nat)
  BY NatLessThanWellFounded
<1>2. \A x, y \in Nat : x < y => <<x, y>> \in Rel
  BY DEF OpToRel
<1> HIDE DEF Rel
<1>3. PICK x \in T : \A y \in T : ~ (<<y, x>> \in Rel)
  BY <1>1, WFMin
<1>4. ASSUME NEW y \in T PROVE x <= y
  <2>1. x \in Nat /\ y \in Nat
    OBVIOUS
  <2>2. ~ (y < x)
    BY <1>2, <1>3, <2>1
  <2> QED BY <2>1, <2>2
<1> QED BY <1>4

(* What 0 has and every step keeps, every number up to n has. *)
LEMMA UpTo ==
  ASSUME NEW n \in Nat, NEW S, 0 \in S,
         \A i \in 0..n : i \in S /\ i < n => i + 1 \in S
  PROVE  \A i \in 0..n : i \in S
<1> DEFINE T == {i \in 0..n : i \notin S}
<1>1. SUFFICES ASSUME T # {} PROVE FALSE
  OBVIOUS
<1>2. PICK i \in T : \A j \in T : i <= j
  <2>1. T \subseteq Nat
    OBVIOUS
  <2> HIDE DEF T
  <2> QED BY <1>1, <2>1, LeastLemma
<1>3. i # 0 /\ i - 1 \in 0..n /\ i - 1 < n /\ (i - 1) + 1 = i
  OBVIOUS
<1>4. i - 1 \in S
  BY <1>2, <1>3
<1> QED BY <1>3, <1>4

Iterates(f, n, D, base, step) ==
  /\ f \in [0..n -> D] /\ f[0] = base
  /\ \A i \in 1..n : f[i] = step[i][f[i - 1]]

(* A function is defined by its first value and the step from each to the next. *)
LEMMA Recursion ==
  ASSUME NEW n \in Nat, NEW D, NEW base \in D, NEW step \in [1..n -> [D -> D]]
  PROVE  \E f : Iterates(f, n, D, base, step)
<1> DEFINE Good(m, f) == f[0] = base /\ \A i \in 1..m : f[i] = step[i][f[i - 1]]
           S == {m \in 0..n : \E f \in [0..m -> D] : Good(m, f)}
<1>1. 0 \in S
  <2> DEFINE one == [i \in 0..0 |-> base]
  <2>1. one \in [0..0 -> D] /\ Good(0, one)
    OBVIOUS
  <2> HIDE DEF one, Good
  <2> QED BY <2>1
<1>2. ASSUME NEW m \in 0..n, m \in S, m < n PROVE m + 1 \in S
  <2>1. PICK f \in [0..m -> D] : Good(m, f)
    BY <1>2
  <2> DEFINE v == step[m + 1][f[m]]
             g == [i \in 0..(m + 1) |-> IF i = m + 1 THEN v ELSE f[i]]
  <2>2. v \in D
    <3>1. m + 1 \in 1..n /\ m \in 0..m
      BY <1>2
    <3> QED BY <3>1
  <2>3. g \in [0..(m + 1) -> D]
    BY <2>2
  <2>4. g[0] = base
    BY <2>1
  <2>5. ASSUME NEW i \in 1..(m + 1) PROVE g[i] = step[i][g[i - 1]]
    <3>1. CASE i = m + 1
      <4>1. g[i] = v /\ i - 1 = m /\ g[m] = f[m]
        BY <3>1
      <4> QED BY <3>1, <4>1
    <3>2. CASE i \in 1..m
      <4>1. g[i] = f[i] /\ g[i - 1] = f[i - 1]
        BY <3>2
      <4> QED BY <3>2, <4>1, <2>1
    <3> QED BY <3>1, <3>2
  <2>6. Good(m + 1, g)
    BY <2>4, <2>5
  <2>7. m + 1 \in 0..n
    BY <1>2
  <2> HIDE DEF g, Good
  <2> QED BY <2>3, <2>6, <2>7
<1>3. n \in S
  <2> HIDE DEF S
  <2>1. \A i \in 0..n : i \in S /\ i < n => i + 1 \in S
    BY <1>2
  <2>2. \A i \in 0..n : i \in S
    BY <1>1, <2>1, UpTo
  <2> QED BY <2>2
<1> QED BY <1>3 DEF Iterates

-----------------------------------------------------------------------------
(* Sequences *)

(* sorted() lists every number of a finite set once. *)
LEMMA SortedLemma ==
  ASSUME NEW S \in SUBSET Nat, IsFiniteSet(S)
  PROVE  /\ Cardinality(S) \in Nat
         /\ Sorted(S) \in [1..Cardinality(S) -> S]
         /\ \A x \in S : \E k \in 1..Cardinality(S) : Sorted(S)[k] = x
         /\ \A j, k \in 1..Cardinality(S) : Sorted(S)[j] = Sorted(S)[k] => j = k
<1> DEFINE n == Cardinality(S)
           Below(x) == {y \in S : y < x}
           rank == [x \in S |-> Cardinality(Below(x)) + 1]
<1>1. n \in Nat
  BY FS_CardinalityType
<1>2. ASSUME NEW x \in S
      PROVE  IsFiniteSet(Below(x)) /\ Cardinality(Below(x)) \in 0..(n - 1)
  <2>1. Below(x) \in SUBSET S /\ Below(x) # S
    OBVIOUS
  <2>2. IsFiniteSet(Below(x)) /\ Cardinality(Below(x)) <= n /\ Cardinality(Below(x)) # n
    BY <2>1, FS_Subset
  <2>3. Cardinality(Below(x)) \in Nat
    BY <2>2, FS_CardinalityType
  <2> QED BY <1>1, <2>2, <2>3
<1>3. ASSUME NEW x \in S, NEW z \in S, x < z
      PROVE  Cardinality(Below(x)) # Cardinality(Below(z))
  <2>1. Below(x) \in SUBSET Below(z)
    <3>1. x \in Nat /\ z \in Nat /\ \A y \in S : y \in Nat
      OBVIOUS
    <3>2. \A y \in S : y < x => y < z
      BY <1>3, <3>1
    <3> QED BY <3>2
  <2>2. Below(x) # Below(z)
    BY <1>3
  <2> QED BY <1>2, <2>1, <2>2, FS_Subset
<1>4. rank \in Injection(S, 1..n)
  <2>1. rank \in [S -> 1..n]
    BY <1>1, <1>2
  <2>2. ASSUME NEW x \in S, NEW z \in S, rank[x] = rank[z] PROVE x = z
    <3>1. Cardinality(Below(x)) = Cardinality(Below(z))
      BY <1>2, <2>2
    <3>2. x < z \/ z < x \/ x = z
      OBVIOUS
    <3> HIDE DEF Below
    <3> QED BY <1>3, <3>1, <3>2
  <2> QED BY <2>1, <2>2 DEF Injection, IsInjective
<1>5. rank \in Surjection(S, 1..n)
  <2>1. IsFiniteSet(1..n) /\ Cardinality(1..n) = n
    BY <1>1, FS_Interval
  <2> HIDE DEF rank
  <2> QED BY <1>4, <2>1, FS_Injection
<1>6. ASSUME NEW k \in 1..n
      PROVE  Sorted(S)[k] \in S /\ Cardinality(Below(Sorted(S)[k])) = k - 1
  <2>1. PICK x \in S : rank[x] = k
    BY <1>5 DEF Surjection
  <2>2. Cardinality(Below(x)) = k - 1
    BY <2>1, <1>2
  <2>3. Sorted(S)[k] = CHOOSE y \in S : Cardinality(Below(y)) = k - 1
    BY DEF Sorted
  <2> HIDE DEF Below
  <2> QED BY <2>2, <2>3
<1>7. Sorted(S) \in [1..n -> S]
  BY <1>6 DEF Sorted
<1>8. ASSUME NEW x \in S PROVE \E k \in 1..n : Sorted(S)[k] = x
  <2> DEFINE k == rank[x]
  <2>1. k \in 1..n
    BY <1>2, <1>1
  <2>2. rank[Sorted(S)[k]] = rank[x]
    BY <1>6, <2>1, <1>2
  <2>3. Sorted(S)[k] \in S
    BY <1>6, <2>1
  <2> HIDE DEF rank
  <2> QED BY <2>1, <2>2, <2>3, <1>4 DEF Injection, IsInjective
<1>9. ASSUME NEW j \in 1..n, NEW k \in 1..n, Sorted(S)[j] = Sorted(S)[k] PROVE j = k
  <2>1. j - 1 = k - 1
    BY <1>6, <1>9
  <2> QED BY <2>1, <1>1
<1> QED BY <1>1, <1>7, <1>8, <1>9

(* The i-th element of f is the p[i]-th of s; f has those of s that are in S.   *)
Selects(f, s, S, p) ==
  /\ p \in [1..Len(f) -> 1..Len(s)]
  /\ \A i \in 1..Len(f) : f[i] = s[p[i]] /\ s[p[i]] \in S
  /\ \A i, j \in 1..Len(f) : p[i] = p[j] => i = j
  /\ \A m \in 1..Len(s) : s[m] \in S => \E i \in 1..Len(f) : p[i] = m

(* A selection takes the elements of S, each from a place of its own, and      *)
(* leaves none of them out.                                                    *)
LEMMA KeptLemma ==
  ASSUME NEW T, NEW s \in Seq(T), NEW S
  PROVE  Kept(s, S) \in Seq(T) /\ \E p : Selects(Kept(s, S), s, S, p)
<1> DEFINE I == {k \in DOMAIN s : s[k] \in S}
           n == Cardinality(I)
           p == Sorted(I)
<1>1. I \in SUBSET Nat /\ IsFiniteSet(I)
  <2>1. I \in SUBSET (1..Len(s)) /\ I \in SUBSET Nat /\ Len(s) \in Nat
    OBVIOUS
  <2>2. IsFiniteSet(1..Len(s))
    BY <2>1, FS_Interval
  <2> QED BY <2>1, <2>2, FS_Subset
<1>2. /\ n \in Nat /\ p \in [1..n -> I]
      /\ \A x \in I : \E k \in 1..n : p[k] = x
      /\ \A j, k \in 1..n : p[j] = p[k] => j = k
  <2> HIDE DEF I
  <2> QED BY <1>1, SortedLemma
<1>3. Kept(s, S) = [k \in 1..n |-> s[p[k]]]
  BY <1>2 DEF Kept
<1>4. \A x \in I : x \in 1..Len(s) /\ s[x] \in S /\ s[x] \in T
  OBVIOUS
<1>5. \A x \in 1..Len(s) : s[x] \in S => x \in I
  OBVIOUS
<1> HIDE DEF I, n, p
<1>6. Kept(s, S) \in Seq(T) /\ Len(Kept(s, S)) = n
  <2>1. \A k \in 1..n : s[p[k]] \in T
    BY <1>2, <1>4
  <2> QED BY <1>2, <1>3, <2>1
<1>7. p \in [1..n -> 1..Len(s)]
  BY <1>2, <1>4
<1>8. \A i \in 1..n : Kept(s, S)[i] = s[p[i]] /\ s[p[i]] \in S
  BY <1>2, <1>3, <1>4
<1>9. \A m \in 1..Len(s) : s[m] \in S => \E i \in 1..n : p[i] = m
  BY <1>2, <1>5
<1>10. Selects(Kept(s, S), s, S, p)
  BY <1>2, <1>6, <1>7, <1>8, <1>9 DEF Selects
<1> QED BY <1>6, <1>10

(* f lists the elements of the first n sequences of ss: its i-th element is the *)
(* b[i]-th of the a[i]-th, every element of them once.                         *)
Lists(f, ss, n, a, b) ==
  /\ a \in [1..Len(f) -> 1..n] /\ b \in [1..Len(f) -> Nat]
  /\ \A i \in 1..Len(f) : b[i] \in 1..Len(ss[a[i]]) /\ f[i] = ss[a[i]][b[i]]
  /\ \A i, j \in 1..Len(f) : a[i] = a[j] /\ b[i] = b[j] => i = j
  /\ \A x \in 1..n : \A y \in 1..Len(ss[x]) :
       \E i \in 1..Len(f) : a[i] = x /\ b[i] = y

(* Appending the next sequence lists one sequence more. *)
LEMMA ListsStep ==
  ASSUME NEW T, NEW ss \in Seq(Seq(T)), NEW n \in Nat, n + 1 \in 1..Len(ss),
         NEW f \in Seq(T), \E a, b : Lists(f, ss, n, a, b)
  PROVE  \E a, b : Lists(f \o ss[n + 1], ss, n + 1, a, b)
<1> DEFINE g == f \o ss[n + 1]
           l == Len(f)
<1>1. ss[n + 1] \in Seq(T)
  OBVIOUS
<1>2. l \in Nat /\ Len(ss[n + 1]) \in Nat /\ Len(g) = l + Len(ss[n + 1]) /\ g \in Seq(T)
  BY <1>1
<1>3. /\ \A i \in 1..l : g[i] = f[i]
      /\ \A i \in 1..Len(g) : i > l => g[i] = ss[n + 1][i - l]
  BY <1>1
<1> HIDE DEF g, l
<1>4. PICK a, b : Lists(f, ss, n, a, b)
  OBVIOUS
<1>5. /\ a \in [1..l -> 1..n] /\ b \in [1..l -> Nat]
      /\ \A i \in 1..l : b[i] \in 1..Len(ss[a[i]]) /\ f[i] = ss[a[i]][b[i]]
      /\ \A i, j \in 1..l : a[i] = a[j] /\ b[i] = b[j] => i = j
      /\ \A x \in 1..n : \A y \in 1..Len(ss[x]) : \E i \in 1..l : a[i] = x /\ b[i] = y
  BY <1>4 DEF Lists, l
<1> DEFINE c == [i \in 1..Len(g) |-> IF i <= l THEN a[i] ELSE n + 1]
           d == [i \in 1..Len(g) |-> IF i <= l THEN b[i] ELSE i - l]
<1>6. /\ \A i \in 1..l : i \in 1..Len(g) /\ c[i] = a[i] /\ d[i] = b[i] /\ c[i] \in 1..n
      /\ \A i \in 1..Len(g) : i > l => (c[i] = n + 1 /\ d[i] = i - l)
      /\ \A i \in 1..Len(g) : i \in 1..l \/ i > l
  BY <1>2, <1>5
<1>7. c \in [1..Len(g) -> 1..(n + 1)] /\ d \in [1..Len(g) -> Nat]
  <2>1. ASSUME NEW i \in 1..Len(g), i <= l PROVE a[i] \in 1..(n + 1) /\ b[i] \in Nat
    <3>1. i \in 1..l
      BY <1>2, <2>1
    <3>2. a[i] \in 1..n /\ b[i] \in Nat
      BY <1>5, <3>1
    <3> QED BY <3>2
  <2>2. ASSUME NEW i \in 1..Len(g), ~ (i <= l) PROVE i - l \in Nat
    BY <1>2, <2>2
  <2>3. n + 1 \in 1..(n + 1)
    OBVIOUS
  <2> QED BY <2>1, <2>2, <2>3
<1> HIDE DEF c, d
<1>8. ASSUME NEW i \in 1..Len(g)
      PROVE  d[i] \in 1..Len(ss[c[i]]) /\ g[i] = ss[c[i]][d[i]]
  <2>1. CASE i \in 1..l
    BY <1>3, <1>5, <1>6, <2>1
  <2>2. CASE i > l
    <3>1. c[i] = n + 1 /\ d[i] = i - l /\ g[i] = ss[n + 1][i - l]
      BY <1>3, <1>6, <2>2
    <3>2. i - l \in 1..Len(ss[n + 1])
      BY <1>2, <2>2
    <3> QED BY <3>1, <3>2
  <2> QED BY <1>6, <2>1, <2>2
<1>9. ASSUME NEW i \in 1..Len(g), NEW j \in 1..Len(g), c[i] = c[j], d[i] = d[j]
      PROVE  i = j
  <2>1. CASE i \in 1..l /\ j \in 1..l
    <3>1. a[i] = a[j] /\ b[i] = b[j]
      BY <1>6, <1>9, <2>1
    <3> QED BY <1>5, <2>1, <3>1
  <2>2. CASE i > l /\ j > l
    BY <1>2, <1>6, <1>9, <2>2
  <2>3. CASE i \in 1..l /\ j > l
    BY <1>2, <1>6, <1>9, <2>3
  <2>4. CASE i > l /\ j \in 1..l
    BY <1>2, <1>6, <1>9, <2>4
  <2> QED BY <1>6, <2>1, <2>2, <2>3, <2>4
<1>10. ASSUME NEW x \in 1..(n + 1), NEW y \in 1..Len(ss[x])
       PROVE  \E i \in 1..Len(g) : c[i] = x /\ d[i] = y
  <2>1. CASE x \in 1..n
    <3>1. PICK i \in 1..l : a[i] = x /\ b[i] = y
      BY <1>5, <2>1
    <3>2. i \in 1..Len(g)
      BY <1>2
    <3> QED BY <3>1, <3>2, <1>6, <1>2
  <2>2. CASE x = n + 1
    <3>1. l + y \in 1..Len(g) /\ l + y > l /\ (l + y) - l = y
      BY <1>2, <2>2
    <3> QED BY <3>1, <1>6, <2>2, <1>2
  <2> QED BY <2>1, <2>2
<1>11. Lists(g, ss, n + 1, c, d)
  BY <1>7, <1>8, <1>9, <1>10 DEF Lists
<1> QED BY <1>11 DEF g

(* The concatenation of sequences lists all of them. *)
LEMMA FlattenLemma ==
  ASSUME NEW T, NEW ss \in Seq(Seq(T))
  PROVE  /\ FlattenSeq(ss) \in Seq(T)
         /\ \E a, b : Lists(FlattenSeq(ss), ss, Len(ss), a, b)
<1> DEFINE n == Len(ss)
<1>1. n \in Nat /\ \A i \in 1..n : ss[i] \in Seq(T)
  OBVIOUS
<1>2. CASE n = 0
  <2>1. FlattenSeq(ss) = << >> /\ Len(<< >>) = 0
    BY <1>2 DEF FlattenSeq
  <2> DEFINE none == [i \in 1..0 |-> 0]
  <2>2. Lists(<< >>, ss, 0, none, none)
    BY <2>1 DEF Lists
  <2> QED BY <1>2, <2>1, <2>2
<1>3. CASE n # 0
  <2> DEFINE step == [i \in 1..n |-> [q \in Seq(T) |-> IF i = 1 THEN ss[i] ELSE q \o ss[i]]]
  <2>1. step \in [1..n -> [Seq(T) -> Seq(T)]]
    BY <1>1
  <2>2. << >> \in Seq(T)
    OBVIOUS
  <2>3. PICK f \in [0..n -> Seq(T)] : \A i \in 1..n : f[i] = step[i][f[i - 1]]
    <3> DEFINE D == Seq(T)
               base == << >>
    <3>1. n \in Nat /\ base \in D /\ step \in [1..n -> [D -> D]]
      BY <1>1, <2>1, <2>2
    <3> HIDE DEF step, n, D, base
    <3>2. \E f : Iterates(f, n, D, base, step)
      BY <3>1, Recursion
    <3> QED BY <3>2 DEF D, Iterates
  <2>4. \A i \in 1..n : f[i] = IF i = 1 THEN ss[i] ELSE f[i - 1] \o ss[i]
    <3> TAKE i \in 1..n
    <3>1. i - 1 \in 0..n
      BY <1>1
    <3>2. f[i - 1] \in Seq(T)
      BY <3>1, <2>3
    <3> QED BY <2>3, <3>2
  <2> DEFINE h == [i \in 1..n |-> f[i]]
             flatten == CHOOSE g : g = [i \in 1..Len(ss) |->
                          IF i = 1 THEN ss[i] ELSE g[i - 1] \o ss[i]]
  <2>5. h = [i \in 1..Len(ss) |-> IF i = 1 THEN ss[i] ELSE h[i - 1] \o ss[i]]
    <3>1. \A i \in 1..n : i # 1 => h[i - 1] = f[i - 1]
      BY <1>1
    <3>2. \A i \in 1..n : h[i] = IF i = 1 THEN ss[i] ELSE h[i - 1] \o ss[i]
      BY <2>4, <3>1
    <3> QED BY <3>2
  <2>6. FlattenSeq(ss) = flatten[n]
    BY <1>3 DEF FlattenSeq
  <2>7. flatten = [i \in 1..n |-> IF i = 1 THEN ss[i] ELSE flatten[i - 1] \o ss[i]]
    <3> HIDE DEF h
    <3> QED BY <2>5
  <2> HIDE DEF flatten, h, step
  <2> DEFINE Listed(i) == flatten[i] \in Seq(T) /\ \E a, b : Lists(flatten[i], ss, i, a, b)
             S == {i \in 0..n : i # 0 => Listed(i)}
  <2>8. 0 \in S
    BY <1>1
  <2>9. ASSUME NEW i \in 0..n, i \in S, i < n PROVE i + 1 \in S
    <3>1. i + 1 \in 1..n /\ i + 1 \in 0..n /\ i \in Nat /\ (i + 1) - 1 = i
      BY <1>1, <2>9
    <3>2. ss[i + 1] \in Seq(T)
      BY <1>1, <3>1
    <3>3. CASE i = 0
      <4>1. flatten[1] = ss[1]
        BY <2>7, <3>1, <3>3
      <4> DEFINE none == [k \in 1..0 |-> 0]
      <4>2. << >> \in Seq(T) /\ Len(<< >>) = 0
        OBVIOUS
      <4>3. Lists(<< >>, ss, 0, none, none)
        BY <4>2 DEF Lists
      <4>4. \E a, b : Lists(<< >> \o ss[1], ss, 1, a, b)
        <5>1. 0 \in Nat /\ 0 + 1 = 1 /\ 1 \in 1..Len(ss)
          BY <3>1, <3>3
        <5> HIDE DEF none
        <5> QED BY <4>2, <4>3, <5>1, ListsStep
      <4>5. << >> \o ss[1] = ss[1]
        BY <3>2, <3>3
      <4>6. 1 \in 0..n
        BY <3>1, <3>3
      <4> QED BY <3>2, <3>3, <4>1, <4>4, <4>5, <4>6
    <3>4. CASE i # 0
      <4>1. flatten[i + 1] = flatten[i] \o ss[i + 1]
        <5>1. i + 1 # 1
          BY <3>1, <3>4
        <5> QED BY <2>7, <3>1, <5>1
      <4>2. flatten[i] \in Seq(T) /\ \E a, b : Lists(flatten[i], ss, i, a, b)
        BY <2>9, <3>4
      <4>3. \E a, b : Lists(flatten[i + 1], ss, i + 1, a, b)
        BY <3>1, <4>1, <4>2, ListsStep
      <4>4. flatten[i + 1] \in Seq(T)
        BY <3>2, <4>1, <4>2
      <4> QED BY <3>1, <4>3, <4>4
    <3> QED BY <3>3, <3>4
  <2>10. n \in S
    <3> HIDE DEF S
    <3>1. \A i \in 0..n : i \in S /\ i < n => i + 1 \in S
      BY <2>9
    <3>2. \A i \in 0..n : i \in S
      BY <1>1, <2>8, <3>1, UpTo
    <3> QED BY <1>1, <3>2
  <2> QED BY <1>3, <2>6, <2>10
<1> QED BY <1>2, <1>3

(* The j-th place of the k-th slice is a place of s, and every place of s is    *)
(* in one slice.                                                               *)
Cuts(slices, s, n) ==
  /\ \A k \in 1..Len(slices) : \A j \in 1..Len(slices[k]) :
       /\ j <= n /\ (k - 1) * n + j \in 1..Len(s)
       /\ slices[k][j] = s[(k - 1) * n + j]
  /\ \A i \in 1..Len(s) : \E k \in 1..Len(slices) : \E j \in 1..Len(slices[k]) :
       (k - 1) * n + j = i

(* Slices cut a sequence up. *)
LEMMA SlicesLemma ==
  ASSUME NEW T, NEW s \in Seq(T), NEW n \in Nat \ {0}
  PROVE  Slices(s, n) \in Seq(Seq(T)) /\ Cuts(Slices(s, n), s, n)
<1> DEFINE l == Len(s)
           m == (l + n - 1) \div n
           to(k) == IF k * n < l THEN k * n ELSE l
<1>1. l \in Nat /\ m \in Nat
  OBVIOUS
<1>2. \A k \in 1..m : (k - 1) * n \in Nat /\ k * n = (k - 1) * n + n /\ (k - 1) * n < l
  OBVIOUS
<1>3. l <= m * n
  OBVIOUS
<1>4. ASSUME NEW i \in 1..l PROVE \E k \in 1..m : (k - 1) * n < i /\ i <= k * n
  <2> DEFINE q == (i - 1) \div n
  <2>1. q \in Nat /\ q * n <= i - 1 /\ i - 1 < q * n + n
    OBVIOUS
  <2> HIDE DEF q, m
  <2>2. q * n < m * n
    BY <1>1, <1>3, <2>1
  <2>3. q < m
    BY <1>1, <2>1, <2>2
  <2>4. q + 1 \in 1..m /\ (q + 1) - 1 = q /\ (q + 1) * n = q * n + n
    BY <1>1, <2>1, <2>3
  <2>5. q * n < i /\ i <= (q + 1) * n
    BY <2>1, <2>4
  <2> QED BY <2>4, <2>5
<1>5. Slices(s, n) = [k \in 1..m |-> SubSeq(s, (k - 1) * n + 1, to(k))]
  BY DEF Slices
<1> DEFINE from(k) == (k - 1) * n
<1>6. \A k \in 1..m : from(k) \in Nat /\ to(k) \in Nat /\ from(k) < l /\ to(k) <= l
                   /\ to(k) <= from(k) + n /\ from(k) < to(k)
  BY <1>1, <1>2
<1> HIDE DEF from, to, m
<1>7. ASSUME NEW k \in 1..m
      PROVE  /\ SubSeq(s, from(k) + 1, to(k)) \in Seq(T)
             /\ Len(SubSeq(s, from(k) + 1, to(k))) = to(k) - from(k)
             /\ \A j \in 1..(to(k) - from(k)) :
                  SubSeq(s, from(k) + 1, to(k))[j] = s[from(k) + j]
  <2>1. from(k) + 1 \in 1..(l + 1) /\ to(k) \in from(k)..l /\ from(k) \in Nat
    BY <1>1, <1>6
  <2> QED BY <2>1, <1>1, SubSeqProperties DEF l
<1>8. /\ Slices(s, n) \in Seq(Seq(T)) /\ Len(Slices(s, n)) = m
      /\ \A k \in 1..m : Slices(s, n)[k] = SubSeq(s, from(k) + 1, to(k))
  <2>1. Slices(s, n) = [k \in 1..m |-> SubSeq(s, from(k) + 1, to(k))]
    BY <1>5 DEF from
  <2> DEFINE cut(k) == SubSeq(s, from(k) + 1, to(k))
  <2>2. \A k \in 1..m : cut(k) \in Seq(T)
    BY <1>7
  <2>3. Slices(s, n) = [k \in 1..m |-> cut(k)]
    BY <2>1
  <2>4. \A k \in 1..m : Slices(s, n)[k] = cut(k)
    BY <2>1
  <2> HIDE DEF cut
  <2>5. Slices(s, n) \in Seq(Seq(T)) /\ Len(Slices(s, n)) = m
    BY <1>1, <2>2, <2>3
  <2> QED BY <2>4, <2>5 DEF cut
<1>9. ASSUME NEW k \in 1..m, NEW j \in 1..Len(Slices(s, n)[k])
      PROVE  /\ j <= n /\ from(k) + j \in 1..l
             /\ Slices(s, n)[k][j] = s[from(k) + j]
  <2>1. j \in 1..(to(k) - from(k))
    BY <1>7, <1>8
  <2>2. j <= n /\ from(k) + j \in 1..l
    BY <1>1, <1>6, <2>1
  <2> QED BY <1>7, <1>8, <2>1, <2>2
<1>10. ASSUME NEW i \in 1..l
       PROVE  \E k \in 1..m : \E j \in 1..Len(Slices(s, n)[k]) : from(k) + j = i
  <2>1. PICK k \in 1..m : from(k) < i /\ i <= k * n
    BY <1>4 DEF from
  <2>2. i <= to(k)
    BY <1>1, <2>1 DEF to
  <2>3. i - from(k) \in 1..(to(k) - from(k)) /\ from(k) + (i - from(k)) = i
    BY <1>1, <1>6, <2>1, <2>2
  <2>4. i - from(k) \in 1..Len(Slices(s, n)[k])
    BY <1>7, <1>8, <2>3
  <2> QED BY <2>3, <2>4
<1>11. Cuts(Slices(s, n), s, n)
  BY <1>8, <1>9, <1>10 DEF from, l, Cuts
<1> QED BY <1>8, <1>11
-----------------------------------------------------------------------------
(* The inductive invariant *)

Refs     == SUBSET Nat
JobType  == [parent : Nat, allowed : Refs, required : Refs]
MType    == [id : Nat, module : Nat]
TType    == [id : Nat, milestone : Nat, refs : Refs]
DraftType ==
  [questions : Seq(Refs), analysis : Refs, modules : Seq(SUBSET Known),
   milestones : Seq(MType), tasks : Seq(TType), edges : Seq(Refs), risks : Seq(Refs)]

\* what node n collects
ItemType(n) == IF n = 4 THEN MType ELSE IF n \in {5, 6} THEN TType ELSE Refs

WorkType(n) ==
  [todo : Seq(JobType), items : Seq(ItemType(n)), next : Nat, repair : BOOLEAN]

TypeInv ==
  /\ path \in Paths /\ at \in 1..9
  /\ status \in {"running", "partial", "failed", "passed"}
  /\ draft \in DraftType /\ work \in WorkType(at)
  /\ {attempt, used, spent, crashes} \subseteq Nat

Clean(items) == \A k \in DOMAIN items : items[k] \cap Excluded = {}

\* the numbers given so far are below the next one
Numbered(w) == Distinct(w.items) /\ \A k \in DOMAIN w.items : w.items[k].id < w.next

\* what is not in the items yet is still asked for
ModulesWork(w) ==
  /\ Clean(w.items) /\ \A k \in DOMAIN w.items : w.items[k] \subseteq Known
  /\ \A j \in DOMAIN w.todo :
       w.todo[j].allowed = Known /\ w.todo[j].required = Requirements
  /\ w.todo = <<>> => Requirements \subseteq Cited(w.items)

MilestonesWork(d, w) ==
  /\ Numbered(w)
  /\ \A k \in DOMAIN w.items : w.items[k].module \in DOMAIN d.modules
  /\ \A j \in DOMAIN w.todo : w.todo[j].parent \in DOMAIN d.modules
  /\ \A m \in DOMAIN d.modules : \/ \E k \in DOMAIN w.items : w.items[k].module = m
                                 \/ \E j \in DOMAIN w.todo : w.todo[j].parent = m

MilestoneId(d, id) == \E s \in DOMAIN d.milestones : d.milestones[s].id = id

TasksWork(d, w) ==
  /\ Numbered(w)
  /\ \A k \in DOMAIN w.items :
       w.items[k].refs \cap Excluded = {} /\ MilestoneId(d, w.items[k].milestone)
  /\ \A j \in DOMAIN w.todo : w.todo[j].allowed = Known /\ MilestoneId(d, w.todo[j].parent)
  /\ \A s \in DOMAIN d.milestones :
       \/ \E k \in DOMAIN w.items : w.items[k].milestone = d.milestones[s].id
       \/ \E j \in DOMAIN w.todo : w.todo[j].parent = d.milestones[s].id
  /\ \A s \in DOMAIN d.milestones : \A r \in d.modules[d.milestones[s].module] :
       \/ \E k \in DOMAIN w.items : w.items[k].refs = {r}
       \/ \E j \in DOMAIN w.todo : r \in w.todo[j].required

\* the groups that were answered and those to be asked for share the tasks out
AcceptanceWork(d, w) ==
  LET groups == AcceptanceGroups(d)
      InGroup(t, j) == \E y \in DOMAIN groups[w.todo[j].parent] :
                         groups[w.todo[j].parent][y] = t
  IN /\ Distinct(w.items)
     /\ \A j \in DOMAIN w.todo : w.todo[j].parent \in DOMAIN groups
     /\ \A i, j \in DOMAIN w.todo : w.todo[i].parent = w.todo[j].parent => i = j
     /\ \A k \in DOMAIN w.items : w.items[k] \in ToSet(d.tasks)
     /\ \A k \in DOMAIN w.items : \A j \in DOMAIN w.todo : ~ InGroup(w.items[k], j)
     /\ \A t \in ToSet(d.tasks) : \/ \E k \in DOMAIN w.items : w.items[k] = t
                                  \/ \E j \in DOMAIN w.todo : InGroup(t, j)

WorkInv(n, d, w) ==
  /\ n \in {1, 2, 8} => Clean(w.items)
  /\ n = 3 => ModulesWork(w)
  /\ n = 4 /\ ~ Fast => MilestonesWork(d, w)
  /\ n = 5 /\ ~ Fast => TasksWork(d, w)
  /\ n = 6 /\ ~ Fast => AcceptanceWork(d, w)
  /\ n = 9 \/ (n > 3 /\ Fast) => w.todo = <<>>

LinkedMilestones(d) ==
  /\ Distinct(d.milestones)
  /\ \A k \in DOMAIN d.milestones : d.milestones[k].module \in DOMAIN d.modules

LinkedTasks(d) ==
  /\ Distinct(d.tasks)
  /\ \A k \in DOMAIN d.tasks :
       MilestoneId(d, d.tasks[k].milestone) /\ d.tasks[k].refs \cap Excluded = {}

DraftInv(n, d) ==
  /\ d.analysis \cap Excluded = {}
  /\ Clean(d.questions) /\ Clean(d.modules) /\ Clean(d.risks)
  /\ LinkedMilestones(d) /\ LinkedTasks(d)
  /\ n <= 4 => d.milestones = <<>>
  /\ n <= 5 => d.tasks = <<>>
  /\ n > 3 => Requirements \subseteq Cited(d.modules)
  /\ n > 4 => \A m \in DOMAIN d.modules :
                \E s \in DOMAIN d.milestones : d.milestones[s].module = m
  /\ n > 5 => \A r \in Requirements : \E k \in DOMAIN d.tasks : d.tasks[k].refs = {r}
  /\ n > 5 /\ ~ Fast => \A s \in DOMAIN d.milestones :
                \E k \in DOMAIN d.tasks : d.tasks[k].milestone = d.milestones[s].id

PlanInv == TypeInv /\ DraftInv(at, draft) /\ WorkInv(at, draft, work)

-----------------------------------------------------------------------------
(* Constants and nodes *)

(* Facts are finitely many numbers, and an in-scope requirement is not excluded. *)
LEMMA KnownLemma ==
  /\ Known \in SUBSET Nat /\ IsFiniteSet(Known)
  /\ Requirements \subseteq Known /\ Requirements \cap Excluded = {}
  /\ BatchSize \in Nat \ {0} /\ GroupSize \in Nat \ {0} /\ FastTarget \in Nat \ {0}
  /\ Budget \in Nat \ {0}
BY FactsAssumption, LimitsAssumption DEF Known

(* The place of every node. *)
LEMMA NodesLemma ==
  /\ DOMAIN Nodes = 1..9
  /\ Nodes[1] = "gaps" /\ Nodes[2] = "analysis" /\ Nodes[3] = "modules"
  /\ Nodes[4] = "milestones" /\ Nodes[5] = "tasks" /\ Nodes[6] = "acceptance"
  /\ Nodes[7] = "dependencies" /\ Nodes[8] = "risks" /\ Nodes[9] = "gate"
  /\ \A n \in 1..9 :
       /\ Nodes[n] = "gaps" <=> n = 1
       /\ Nodes[n] = "analysis" <=> n = 2
       /\ Nodes[n] = "modules" <=> n = 3
       /\ Nodes[n] = "milestones" <=> n = 4
       /\ Nodes[n] = "tasks" <=> n = 5
       /\ Nodes[n] = "acceptance" <=> n = 6
       /\ Nodes[n] = "dependencies" <=> n = 7
       /\ Nodes[n] = "risks" <=> n = 8
       /\ Nodes[n] = "gate" <=> n = 9
<1>1. /\ DOMAIN Nodes = 1..9
      /\ Nodes[1] = "gaps" /\ Nodes[2] = "analysis" /\ Nodes[3] = "modules"
      /\ Nodes[4] = "milestones" /\ Nodes[5] = "tasks" /\ Nodes[6] = "acceptance"
      /\ Nodes[7] = "dependencies" /\ Nodes[8] = "risks" /\ Nodes[9] = "gate"
  BY DEF Nodes
<1>2. \A n \in 1..9 : n = 1 \/ n = 2 \/ n = 3 \/ n = 4 \/ n = 5 \/ n = 6 \/ n = 7
                        \/ n = 8 \/ n = 9
  OBVIOUS
<1> QED BY <1>1, <1>2

(* A node is reached when the run has gone past its place. *)
LEMMA ReachedLemma ==
  /\ Reached("modules") <=> at > 3
  /\ Reached("tasks") <=> at > 5
<1>1. 3 = CHOOSE k \in DOMAIN Nodes : Nodes[k] = "modules"
  BY NodesLemma
<1>2. 5 = CHOOSE k \in DOMAIN Nodes : Nodes[k] = "tasks"
  BY NodesLemma
<1> QED BY <1>1, <1>2 DEF Reached

(* Facts in order are each listed once. *)
LEMMA SortedFacts ==
  ASSUME NEW refs \in SUBSET Known
  PROVE  /\ Sorted(refs) \in Seq(refs)
         /\ \A x \in refs : \E k \in 1..Len(Sorted(refs)) : Sorted(refs)[k] = x
<1>1. refs \in SUBSET Nat /\ IsFiniteSet(refs)
  BY KnownLemma, FS_Subset
<1>2. /\ Cardinality(refs) \in Nat
      /\ Sorted(refs) \in [1..Cardinality(refs) -> refs]
      /\ \A x \in refs : \E k \in 1..Cardinality(refs) : Sorted(refs)[k] = x
  BY <1>1, SortedLemma
<1>3. Sorted(refs) \in Seq(refs) /\ Len(Sorted(refs)) = Cardinality(refs)
  BY <1>2
<1> QED BY <1>2, <1>3

-----------------------------------------------------------------------------
(* What a node asks for *)

(* The batches of a milestone's requirements: at least one, all of them. *)
LEMMA RefBatchesLemma ==
  ASSUME NEW refs \in SUBSET Known
  PROVE  /\ RefBatches(refs) \in Seq(SUBSET refs) /\ Len(RefBatches(refs)) >= 1
         /\ \A r \in refs : \E k \in 1..Len(RefBatches(refs)) : r \in RefBatches(refs)[k]
<1> DEFINE s == Sorted(refs)
           slices == Slices(s, BatchSize)
<1>1. s \in Seq(refs) /\ \A x \in refs : \E k \in 1..Len(s) : s[k] = x
  BY SortedFacts
<1>2. slices \in Seq(Seq(refs)) /\ Cuts(slices, s, BatchSize)
  <2>1. BatchSize \in Nat \ {0}
    BY KnownLemma
  <2> HIDE DEF s
  <2> QED BY <1>1, <2>1, SlicesLemma
<1> HIDE DEF slices, s
<1>3. CASE slices = << >>
  <2>1. RefBatches(refs) = << {} >>
    BY <1>3 DEF RefBatches, slices, s
  <2>2. ASSUME NEW r \in refs PROVE FALSE
    BY <1>1, <1>2, <1>3 DEF Cuts
  <2> QED BY <2>1, <2>2
<1>4. CASE slices # << >>
  <2>1. RefBatches(refs) = [k \in DOMAIN slices |-> ToSet(slices[k])]
    BY <1>4 DEF RefBatches, slices, s
  <2>2. Len(slices) \in Nat /\ Len(slices) >= 1 /\ DOMAIN slices = 1..Len(slices)
    BY <1>2, <1>4
  <2>3. \A k \in 1..Len(slices) : ToSet(slices[k]) \in SUBSET refs
    <3> TAKE k \in 1..Len(slices)
    <3>1. slices[k] \in Seq(refs)
      BY <1>2
    <3> QED BY <3>1 DEF ToSet
  <2>4. RefBatches(refs) \in Seq(SUBSET refs) /\ Len(RefBatches(refs)) = Len(slices)
    <3> DEFINE set(k) == ToSet(slices[k])
    <3>1. RefBatches(refs) = [k \in 1..Len(slices) |-> set(k)]
      BY <2>1, <2>2
    <3>2. \A k \in 1..Len(slices) : set(k) \in SUBSET refs
      BY <2>3
    <3> HIDE DEF set
    <3> QED BY <2>2, <3>1, <3>2
  <2>5. ASSUME NEW r \in refs PROVE \E k \in 1..Len(slices) : r \in RefBatches(refs)[k]
    <3>1. PICK i \in 1..Len(s) : s[i] = r
      BY <1>1
    <3>2. PICK k \in 1..Len(slices) : \E j \in 1..Len(slices[k]) : (k - 1) * BatchSize + j = i
      BY <1>2 DEF Cuts
    <3>3. PICK j \in 1..Len(slices[k]) : (k - 1) * BatchSize + j = i
      BY <3>2
    <3>4. slices[k][j] = r
      BY <1>2, <3>1, <3>3 DEF Cuts
    <3>5. slices[k] \in Seq(refs)
      BY <1>2
    <3>6. r \in ToSet(slices[k])
      BY <3>4, <3>5 DEF ToSet
    <3>7. RefBatches(refs)[k] = ToSet(slices[k])
      BY <2>1, <2>2
    <3> QED BY <3>6, <3>7
  <2> QED BY <2>2, <2>4, <2>5
<1> QED BY <1>3, <1>4

(* Sets of some facts are sets of facts. *)
LEMMA SubsetSeq ==
  ASSUME NEW S \in SUBSET Known, NEW s \in Seq(SUBSET S)
  PROVE  s \in Seq(SUBSET Known)
<1>1. Len(s) \in Nat /\ DOMAIN s = 1..Len(s) /\ \A k \in 1..Len(s) : s[k] \in SUBSET S
  OBVIOUS
<1>2. \A k \in 1..Len(s) : s[k] \in SUBSET Known
  BY <1>1
<1>3. s = [k \in 1..Len(s) |-> s[k]]
  OBVIOUS
<1> QED BY <1>1, <1>2, <1>3

(* A draft is the record of its parts. *)
LEMMA DraftLemma ==
  ASSUME NEW d \in DraftType
  PROVE  /\ d.questions \in Seq(Refs) /\ d.analysis \in Refs /\ d.edges \in Seq(Refs)
         /\ d.risks \in Seq(Refs) /\ d.modules \in Seq(SUBSET Known)
         /\ d.milestones \in Seq(MType) /\ d.tasks \in Seq(TType)
         /\ \A m \in DOMAIN d.modules : d.modules[m] \in SUBSET Known
         /\ \A s \in DOMAIN d.milestones : d.milestones[s] \in MType
         /\ \A k \in DOMAIN d.tasks : d.tasks[k] \in TType
         /\ DOMAIN d.modules = 1..Len(d.modules) /\ Len(d.modules) \in Nat
         /\ DOMAIN d.milestones = 1..Len(d.milestones) /\ Len(d.milestones) \in Nat
         /\ DOMAIN d.tasks = 1..Len(d.tasks) /\ Len(d.tasks) \in Nat
<1>1. /\ d.questions \in Seq(Refs) /\ d.analysis \in Refs /\ d.edges \in Seq(Refs)
      /\ d.risks \in Seq(Refs) /\ d.modules \in Seq(SUBSET Known)
      /\ d.milestones \in Seq(MType) /\ d.tasks \in Seq(TType)
  BY DEF DraftType
<1>2. \A m \in DOMAIN d.modules : d.modules[m] \in SUBSET Known
  BY <1>1
<1>3. \A s \in DOMAIN d.milestones : d.milestones[s] \in MType
  BY <1>1
<1>4. \A k \in DOMAIN d.tasks : d.tasks[k] \in TType
  BY <1>1
<1>5. DOMAIN d.modules = 1..Len(d.modules) /\ Len(d.modules) \in Nat
  BY <1>1
<1>6. DOMAIN d.milestones = 1..Len(d.milestones) /\ Len(d.milestones) \in Nat
  BY <1>1
<1>7. DOMAIN d.tasks = 1..Len(d.tasks) /\ Len(d.tasks) \in Nat
  BY <1>1
<1> QED BY <1>1, <1>2, <1>3, <1>4, <1>5, <1>6, <1>7

(* A call as a record. *)
LEMMA JobLemma ==
  ASSUME NEW p \in Nat, NEW a \in Refs, NEW r \in Refs
  PROVE  Job(p, a, r) \in JobType /\ Job(p, a, r).parent = p
           /\ Job(p, a, r).allowed = a /\ Job(p, a, r).required = r
BY DEF Job, JobType

(* The calls for the batches of one milestone. *)
LEMMA CallsLemma ==
  ASSUME NEW bs \in Seq(SUBSET Known), NEW id \in Nat
  PROVE  LET calls == [b \in DOMAIN bs |-> Job(id, Known, bs[b])]
         IN  /\ calls \in Seq(JobType) /\ Len(calls) = Len(bs)
             /\ \A b \in 1..Len(bs) : /\ calls[b].parent = id /\ calls[b].allowed = Known
                                      /\ calls[b].required = bs[b]
<1> DEFINE call(b) == Job(id, Known, bs[b])
           calls == [b \in DOMAIN bs |-> call(b)]
<1>1. DOMAIN bs = 1..Len(bs) /\ Len(bs) \in Nat /\ \A b \in 1..Len(bs) : bs[b] \in SUBSET Known
  OBVIOUS
<1>2. ASSUME NEW b \in 1..Len(bs)
      PROVE  call(b) \in JobType /\ call(b).parent = id /\ call(b).allowed = Known
               /\ call(b).required = bs[b]
  <2>1. bs[b] \in Refs /\ Known \in Refs
    BY <1>1, KnownLemma DEF Refs
  <2> HIDE DEF call
  <2> QED BY <2>1, JobLemma DEF call
<1> HIDE DEF call
<1>3. calls \in Seq(JobType) /\ Len(calls) = Len(bs)
  BY <1>1, <1>2
<1>4. \A b \in 1..Len(bs) : /\ calls[b].parent = id /\ calls[b].allowed = Known
                            /\ calls[b].required = bs[b]
  BY <1>1, <1>2
<1> QED BY <1>3, <1>4 DEF call

(* The milestones are asked for module by module. *)
LEMMA MilestoneJobsLemma ==
  ASSUME NEW d \in DraftType
  PROVE  /\ MilestoneJobs(d) \in Seq(JobType)
         /\ DOMAIN MilestoneJobs(d) = DOMAIN d.modules
         /\ \A m \in DOMAIN d.modules : MilestoneJobs(d)[m].parent = m
<1>1. DOMAIN d.modules = 1..Len(d.modules) /\ Len(d.modules) \in Nat
  BY DraftLemma
<1>2. \A m \in 1..Len(d.modules) : Job(m, Known, {}) \in JobType /\ Job(m, Known, {}).parent = m
  <2>1. Known \in Refs /\ {} \in Refs
    BY KnownLemma DEF Refs
  <2> QED BY <1>1, <2>1, JobLemma
<1> QED BY <1>1, <1>2 DEF MilestoneJobs

(* The tasks are asked for milestone by milestone, every requirement of its    *)
(* module in one of the calls, and at least one call for each.                 *)
LEMMA TaskJobsLemma ==
  ASSUME NEW d \in DraftType, LinkedMilestones(d)
  PROVE  /\ TaskJobs(d) \in Seq(JobType)
         /\ \A j \in DOMAIN TaskJobs(d) : /\ TaskJobs(d)[j].allowed = Known
                                          /\ MilestoneId(d, TaskJobs(d)[j].parent)
         /\ \A s \in DOMAIN d.milestones :
              \E j \in DOMAIN TaskJobs(d) : TaskJobs(d)[j].parent = d.milestones[s].id
         /\ \A s \in DOMAIN d.milestones : \A r \in d.modules[d.milestones[s].module] :
              \E j \in DOMAIN TaskJobs(d) : r \in TaskJobs(d)[j].required
<1> DEFINE batches(k) == RefBatches(d.modules[d.milestones[k].module])
           calls(k) == [b \in DOMAIN batches(k) |-> Job(d.milestones[k].id, Known, batches(k)[b])]
           n == Len(d.milestones)
           ss == [k \in 1..n |-> calls(k)]
<1>1. n \in Nat /\ DOMAIN d.milestones = 1..n /\ \A k \in 1..n : d.milestones[k] \in MType
  BY DraftLemma
<1>2. ASSUME NEW k \in 1..n
      PROVE  /\ d.milestones[k].id \in Nat
             /\ batches(k) \in Seq(SUBSET d.modules[d.milestones[k].module])
             /\ d.modules[d.milestones[k].module] \in SUBSET Known
             /\ Len(batches(k)) >= 1
             /\ \A r \in d.modules[d.milestones[k].module] :
                  \E b \in 1..Len(batches(k)) : r \in batches(k)[b]
  <2>1. d.modules[d.milestones[k].module] \in SUBSET Known
    BY <1>1, DraftLemma DEF LinkedMilestones
  <2>2. d.milestones[k].id \in Nat
    BY <1>1 DEF MType
  <2> QED BY <2>1, <2>2, RefBatchesLemma
<1>3. ASSUME NEW k \in 1..n
      PROVE  /\ calls(k) \in Seq(JobType) /\ Len(calls(k)) = Len(batches(k))
             /\ \A b \in 1..Len(batches(k)) :
                  /\ calls(k)[b].parent = d.milestones[k].id /\ calls(k)[b].allowed = Known
                  /\ calls(k)[b].required = batches(k)[b]
  <2>1. batches(k) \in Seq(SUBSET Known)
    BY <1>2, SubsetSeq
  <2>2. d.milestones[k].id \in Nat
    BY <1>2
  <2> HIDE DEF batches
  <2> QED BY <2>1, <2>2, CallsLemma
<1>4. TaskJobs(d) = FlattenSeq(ss)
  BY <1>1 DEF TaskJobs
<1> HIDE DEF calls, batches
<1>5. ss \in Seq(Seq(JobType)) /\ Len(ss) = n /\ \A k \in 1..n : ss[k] = calls(k)
  BY <1>1, <1>3
<1> HIDE DEF ss, n
<1>6. TaskJobs(d) \in Seq(JobType) /\ \E a, b : Lists(TaskJobs(d), ss, n, a, b)
  BY <1>4, <1>5, FlattenLemma
<1>7. PICK a, b : Lists(TaskJobs(d), ss, n, a, b)
  BY <1>6
<1>8. DOMAIN TaskJobs(d) = 1..Len(TaskJobs(d))
  BY <1>6
<1>9. ASSUME NEW j \in DOMAIN TaskJobs(d)
      PROVE  TaskJobs(d)[j].allowed = Known /\ MilestoneId(d, TaskJobs(d)[j].parent)
  <2>1. a[j] \in 1..n /\ b[j] \in 1..Len(ss[a[j]]) /\ TaskJobs(d)[j] = ss[a[j]][b[j]]
    BY <1>7, <1>8 DEF Lists
  <2>2. TaskJobs(d)[j].parent = d.milestones[a[j]].id /\ TaskJobs(d)[j].allowed = Known
    BY <2>1, <1>3, <1>5
  <2> QED BY <2>1, <2>2, <1>1 DEF MilestoneId
<1>10. ASSUME NEW s \in 1..n, NEW c \in 1..Len(batches(s))
       PROVE  \E j \in DOMAIN TaskJobs(d) : /\ TaskJobs(d)[j].parent = d.milestones[s].id
                                            /\ TaskJobs(d)[j].required = batches(s)[c]
  <2>1. c \in 1..Len(ss[s])
    BY <1>3, <1>5
  <2>2. PICK j \in 1..Len(TaskJobs(d)) : a[j] = s /\ b[j] = c
    BY <1>7, <2>1 DEF Lists
  <2>3. TaskJobs(d)[j] = calls(s)[c]
    BY <1>5, <1>7, <2>2 DEF Lists
  <2> QED BY <1>3, <1>8, <2>3
<1>11. ASSUME NEW s \in 1..n
       PROVE  \E j \in DOMAIN TaskJobs(d) : TaskJobs(d)[j].parent = d.milestones[s].id
  <2>1. 1 \in 1..Len(batches(s))
    <3> DEFINE bs == batches(s)
               m == d.modules[d.milestones[s].module]
    <3>1. bs \in Seq(SUBSET m) /\ Len(bs) >= 1
      BY <1>2
    <3> HIDE DEF bs, m
    <3>2. Len(bs) \in Nat
      BY <3>1
    <3>3. 1 \in 1..Len(bs)
      BY <3>1, <3>2
    <3> QED BY <3>3 DEF bs
  <2> QED BY <1>10, <2>1
<1>12. ASSUME NEW s \in 1..n, NEW r \in d.modules[d.milestones[s].module]
       PROVE  \E j \in DOMAIN TaskJobs(d) : r \in TaskJobs(d)[j].required
  <2>1. PICK c \in 1..Len(batches(s)) : r \in batches(s)[c]
    BY <1>2
  <2> QED BY <1>10, <2>1
<1> QED BY <1>1, <1>6, <1>9, <1>11, <1>12

(* A place in a slice is a place in the sequence, and only one. *)
LEMMA PlaceLemma ==
  ASSUME NEW n \in Nat \ {0}, NEW x \in Nat \ {0}, NEW u \in Nat \ {0},
         NEW y \in 1..n, NEW v \in 1..n, (x - 1) * n + y = (u - 1) * n + v
  PROVE  x = u /\ y = v
<1>1. ASSUME NEW p \in Nat, NEW q \in Nat, p < q PROVE p * n + n <= q * n
  <2>1. PICK e \in Nat : q = p + 1 + e
    <3>1. q - p - 1 \in Nat /\ q = p + 1 + (q - p - 1)
      BY <1>1
    <3> QED BY <3>1
  <2>2. q * n = p * n + n + e * n
    BY <2>1
  <2>3. e * n \in Nat /\ p * n \in Nat
    OBVIOUS
  <2> QED BY <2>2, <2>3
<1>2. x - 1 \in Nat /\ u - 1 \in Nat /\ (x - 1) * n \in Nat /\ (u - 1) * n \in Nat
  OBVIOUS
<1>3. ~ (x - 1 < u - 1)
  BY <1>1, <1>2
<1>4. ~ (u - 1 < x - 1)
  BY <1>1, <1>2
<1>5. x = u
  BY <1>2, <1>3, <1>4
<1> QED BY <1>2, <1>5

\* the groups of one milestone, of all of them: every task in its place, once
SharesOut(groups, tasks) ==
  /\ groups \in Seq(Seq(TType))
  /\ \A g \in DOMAIN groups : \A y \in DOMAIN groups[g] : groups[g][y] \in tasks
  /\ \A t \in tasks : \E g \in DOMAIN groups : \E y \in DOMAIN groups[g] : groups[g][y] = t
  /\ \A g, h \in DOMAIN groups : \A y \in DOMAIN groups[g], z \in DOMAIN groups[h] :
       groups[g][y].id = groups[h][z].id => g = h /\ y = z

(* The groups of one milestone share its tasks out. *)
LEMMA PartLemma ==
  ASSUME NEW d \in DraftType, LinkedTasks(d), NEW id \in Nat
  PROVE  SharesOut(Slices(TasksOf(d, id), GroupSize), {t \in ToSet(d.tasks) : t.milestone = id})
<1> DEFINE own == {t \in ToSet(d.tasks) : t.milestone = id}
           s == TasksOf(d, id)
           pt == Slices(s, GroupSize)
           n == GroupSize
<1>1. n \in Nat \ {0} /\ d.tasks \in Seq(TType) /\ DOMAIN d.tasks = 1..Len(d.tasks)
  BY KnownLemma, DraftLemma
<1>2. s \in Seq(TType) /\ \E p : Selects(s, d.tasks, own, p)
  BY <1>1, KeptLemma DEF TasksOf
<1>3. pt \in Seq(Seq(TType)) /\ Cuts(pt, s, n)
  <2> HIDE DEF s
  <2> QED BY <1>1, <1>2, SlicesLemma
<1> HIDE DEF s, pt, n
<1>4. PICK p : Selects(s, d.tasks, own, p)
  BY <1>2
<1>5. /\ p \in [1..Len(s) -> 1..Len(d.tasks)]
      /\ \A i \in 1..Len(s) : s[i] = d.tasks[p[i]] /\ d.tasks[p[i]] \in own
      /\ \A i, j \in 1..Len(s) : p[i] = p[j] => i = j
      /\ \A m \in 1..Len(d.tasks) : d.tasks[m] \in own => \E i \in 1..Len(s) : p[i] = m
  BY <1>4 DEF Selects
<1>6. DOMAIN pt = 1..Len(pt) /\ Len(pt) \in Nat /\ \A g \in 1..Len(pt) : pt[g] \in Seq(TType)
  BY <1>3
<1>7. \A g \in DOMAIN pt : DOMAIN pt[g] = 1..Len(pt[g]) /\ Len(pt[g]) \in Nat
  BY <1>6
<1>8. ASSUME NEW g \in DOMAIN pt, NEW y \in DOMAIN pt[g]
      PROVE  /\ y \in 1..n /\ g \in Nat \ {0} /\ (g - 1) * n + y \in 1..Len(s)
             /\ pt[g][y] = d.tasks[p[(g - 1) * n + y]]
  <2>1. g \in 1..Len(pt) /\ y \in 1..Len(pt[g]) /\ y \in Nat
    BY <1>6, <1>7
  <2>2. y <= n /\ (g - 1) * n + y \in 1..Len(s) /\ pt[g][y] = s[(g - 1) * n + y]
    BY <1>3, <2>1 DEF Cuts
  <2>3. y \in 1..n /\ g \in Nat \ {0}
    BY <1>1, <1>6, <2>1, <2>2
  <2> QED BY <1>5, <2>2, <2>3
<1>9. ASSUME NEW g \in DOMAIN pt, NEW y \in DOMAIN pt[g] PROVE pt[g][y] \in own
  BY <1>5, <1>8
<1>10. ASSUME NEW t \in own PROVE \E g \in DOMAIN pt : \E y \in DOMAIN pt[g] : pt[g][y] = t
  <2>1. PICK m \in 1..Len(d.tasks) : d.tasks[m] = t
    BY <1>1 DEF ToSet
  <2>2. PICK i \in 1..Len(s) : p[i] = m
    BY <1>5, <2>1
  <2>3. PICK g \in 1..Len(pt) : \E y \in 1..Len(pt[g]) : (g - 1) * n + y = i
    BY <1>3 DEF Cuts
  <2>4. PICK y \in 1..Len(pt[g]) : (g - 1) * n + y = i
    BY <2>3
  <2>5. pt[g][y] = t
    BY <1>6, <1>7, <1>8, <2>1, <2>2, <2>4
  <2> QED BY <1>6, <1>7, <2>5
<1>11. ASSUME NEW g \in DOMAIN pt, NEW h \in DOMAIN pt, NEW y \in DOMAIN pt[g],
              NEW z \in DOMAIN pt[h], pt[g][y].id = pt[h][z].id
       PROVE  g = h /\ y = z
  <2> DEFINE i == (g - 1) * n + y
             j == (h - 1) * n + z
  <2>1. /\ i \in 1..Len(s) /\ j \in 1..Len(s) /\ y \in 1..n /\ z \in 1..n
        /\ g \in Nat \ {0} /\ h \in Nat \ {0}
        /\ d.tasks[p[i]].id = d.tasks[p[j]].id
    <3>1. pt[g][y] = d.tasks[p[i]] /\ pt[h][z] = d.tasks[p[j]]
      BY <1>8
    <3> QED BY <1>8, <1>11, <3>1
  <2>2. p[i] \in DOMAIN d.tasks /\ p[j] \in DOMAIN d.tasks
    BY <1>1, <1>5, <2>1
  <2>3. p[i] = p[j]
    BY <2>1, <2>2 DEF LinkedTasks, Distinct
  <2>4. i = j
    BY <1>5, <2>1, <2>3
  <2>5. /\ n \in Nat \ {0} /\ g \in Nat \ {0} /\ h \in Nat \ {0} /\ y \in 1..n /\ z \in 1..n
        /\ (g - 1) * n + y = (h - 1) * n + z
    BY <1>1, <2>1, <2>4
  <2> HIDE DEF i, j
  <2> QED BY <2>5, PlaceLemma, Zenon
<1> QED BY <1>3, <1>9, <1>10, <1>11 DEF SharesOut, pt, s, n

(* The groups of the acceptance pass share the tasks of the draft out. *)
LEMMA GroupsLemma ==
  ASSUME NEW d \in DraftType, LinkedMilestones(d), LinkedTasks(d)
  PROVE  SharesOut(AcceptanceGroups(d), ToSet(d.tasks))
<1> DEFINE n == Len(d.milestones)
           id(k) == d.milestones[k].id
           own(k) == {t \in ToSet(d.tasks) : t.milestone = id(k)}
           part(k) == Slices(TasksOf(d, id(k)), GroupSize)
           ss == [k \in 1..n |-> part(k)]
           groups == AcceptanceGroups(d)
<1>1. n \in Nat /\ DOMAIN d.milestones = 1..n /\ \A k \in 1..n : id(k) \in Nat
  BY DraftLemma DEF MType
<1>2. \A k \in 1..n : SharesOut(part(k), own(k))
  BY <1>1, PartLemma
<1>3. groups = FlattenSeq(ss)
  BY <1>1 DEF AcceptanceGroups
<1>4. \A j, k \in 1..n : id(j) = id(k) => j = k
  BY <1>1 DEF LinkedMilestones, Distinct
<1>5. \A t \in ToSet(d.tasks) : \E k \in 1..n : t \in own(k)
  <2> TAKE t \in ToSet(d.tasks)
  <2>1. PICK m \in DOMAIN d.tasks : d.tasks[m] = t
    BY DEF ToSet
  <2>2. PICK k \in DOMAIN d.milestones : d.milestones[k].id = t.milestone
    BY <2>1 DEF LinkedTasks, MilestoneId
  <2> QED BY <1>1, <2>2
<1>6. \A k \in 1..n : \A t \in own(k) : t \in ToSet(d.tasks) /\ t.milestone = id(k)
  OBVIOUS
<1>7. \A t, u \in ToSet(d.tasks) : t.id = u.id => t = u
  BY DEF ToSet, LinkedTasks, Distinct
<1> HIDE DEF part, own, id, groups
<1>8. ss \in Seq(Seq(Seq(TType))) /\ Len(ss) = n /\ \A k \in 1..n : ss[k] = part(k)
  <2>1. \A k \in 1..n : part(k) \in Seq(Seq(TType))
    BY <1>2 DEF SharesOut
  <2> QED BY <1>1, <2>1
<1> HIDE DEF ss, n
<1>9. groups \in Seq(Seq(TType)) /\ \E a, b : Lists(groups, ss, n, a, b)
  <2> DEFINE T == Seq(TType)
  <2>1. ss \in Seq(Seq(T))
    BY <1>8
  <2> HIDE DEF T
  <2>2. FlattenSeq(ss) \in Seq(T) /\ \E a, b : Lists(FlattenSeq(ss), ss, Len(ss), a, b)
    BY <2>1, FlattenLemma
  <2> QED BY <1>3, <1>8, <2>2 DEF T
<1>10. PICK a, b : Lists(groups, ss, n, a, b)
  BY <1>9
<1>11. DOMAIN groups = 1..Len(groups) /\ \A k \in 1..n : DOMAIN part(k) = 1..Len(part(k))
  <2>1. \A k \in 1..n : part(k) \in Seq(Seq(TType))
    BY <1>2 DEF SharesOut
  <2> QED BY <1>9, <2>1
<1>12. ASSUME NEW g \in DOMAIN groups
       PROVE  a[g] \in 1..n /\ b[g] \in DOMAIN part(a[g]) /\ groups[g] = part(a[g])[b[g]]
  BY <1>8, <1>10, <1>11 DEF Lists
<1>13. ASSUME NEW g \in DOMAIN groups, NEW y \in DOMAIN groups[g]
       PROVE  groups[g][y] \in own(a[g])
  BY <1>2, <1>12 DEF SharesOut
<1>14. ASSUME NEW t \in ToSet(d.tasks)
       PROVE  \E g \in DOMAIN groups : \E y \in DOMAIN groups[g] : groups[g][y] = t
  <2>1. PICK k \in 1..n : t \in own(k)
    BY <1>5
  <2>2. PICK x \in DOMAIN part(k) : \E y \in DOMAIN part(k)[x] : part(k)[x][y] = t
    BY <1>2, <2>1 DEF SharesOut
  <2>3. PICK y \in DOMAIN part(k)[x] : part(k)[x][y] = t
    BY <2>2
  <2>4. PICK g \in 1..Len(groups) : a[g] = k /\ b[g] = x
    <3>1. x \in 1..Len(ss[k])
      BY <1>8, <1>11
    <3> QED BY <1>10, <3>1 DEF Lists
  <2> QED BY <1>11, <1>12, <2>3, <2>4
<1>15. ASSUME NEW g \in DOMAIN groups, NEW h \in DOMAIN groups, NEW y \in DOMAIN groups[g],
              NEW z \in DOMAIN groups[h], groups[g][y].id = groups[h][z].id
       PROVE  g = h /\ y = z
  <2>1. groups[g][y] \in own(a[g]) /\ groups[h][z] \in own(a[h])
    BY <1>13
  <2>2. groups[g][y] = groups[h][z]
    BY <1>6, <1>7, <1>12, <1>15, <2>1
  <2>3. id(a[g]) = id(a[h])
    BY <1>6, <1>12, <2>1, <2>2
  <2>4. a[g] = a[h]
    BY <1>4, <1>12, <2>3
  <2>5. b[g] = b[h] /\ y = z
    BY <1>2, <1>12, <1>15, <2>4 DEF SharesOut
  <2>6. g \in 1..Len(groups) /\ h \in 1..Len(groups)
    BY <1>11
  <2>7. g = h
    BY <1>10, <2>4, <2>5, <2>6 DEF Lists
  <2> QED BY <2>5, <2>7
<1>16. \A g \in DOMAIN groups : \A y \in DOMAIN groups[g] : groups[g][y] \in ToSet(d.tasks)
  BY <1>6, <1>12, <1>13
<1> QED BY <1>9, <1>14, <1>15, <1>16 DEF SharesOut, groups

(* The tasks are asked for group by group. *)
LEMMA AcceptanceJobsLemma ==
  ASSUME NEW d \in DraftType, LinkedMilestones(d), LinkedTasks(d)
  PROVE  /\ AcceptanceJobs(d) \in Seq(JobType)
         /\ DOMAIN AcceptanceJobs(d) = DOMAIN AcceptanceGroups(d)
         /\ \A k \in DOMAIN AcceptanceGroups(d) : AcceptanceJobs(d)[k].parent = k
<1> DEFINE groups == AcceptanceGroups(d)
           call(k) == Job(k, Known, {})
<1>1. groups \in Seq(Seq(TType))
  BY GroupsLemma DEF SharesOut
<1> HIDE DEF groups
<1>2. DOMAIN groups = 1..Len(groups) /\ Len(groups) \in Nat
  BY <1>1
<1>3. \A k \in 1..Len(groups) : call(k) \in JobType /\ call(k).parent = k
  <2>1. Known \in Refs /\ {} \in Refs
    BY KnownLemma DEF Refs
  <2> QED BY <1>2, <2>1, JobLemma
<1>4. AcceptanceJobs(d) = [k \in 1..Len(groups) |-> call(k)]
  BY <1>2 DEF AcceptanceJobs, groups
<1> HIDE DEF call
<1> QED BY <1>2, <1>3, <1>4 DEF groups

(* The calls of every node. *)
LEMMA JobsLemma ==
  ASSUME NEW n \in 1..9, NEW d
  PROVE  /\ n = 1 => Jobs(Nodes[n], d) \in {<< >>, <<Job(0, Known, {})>>}
         /\ n = 2 => Jobs(Nodes[n], d) = <<Job(0, Known, {})>>
         /\ n = 3 => Jobs(Nodes[n], d) = <<Job(0, Known, Requirements)>>
         /\ n = 4 /\ ~ Fast => Jobs(Nodes[n], d) = MilestoneJobs(d)
         /\ n = 5 /\ ~ Fast => Jobs(Nodes[n], d) = TaskJobs(d)
         /\ n = 6 /\ ~ Fast => Jobs(Nodes[n], d) = AcceptanceJobs(d)
         /\ n = 7 /\ ~ Fast => Jobs(Nodes[n], d) \in {<< >>, <<Job(0, TaskIds(d), {})>>}
         /\ n = 8 /\ ~ Fast => Jobs(Nodes[n], d) = <<Job(0, Known, {})>>
         /\ n = 9 \/ (n > 3 /\ Fast) => Jobs(Nodes[n], d) = << >>
<1>1. n = 1 \/ n = 2 \/ n = 3 \/ n = 4 \/ n = 5 \/ n = 6 \/ n = 7 \/ n = 8 \/ n = 9
  OBVIOUS
<1>2. CASE n = 1
  BY <1>2, NodesLemma DEF Jobs
<1>3. CASE n = 2
  BY <1>3, NodesLemma DEF Jobs
<1>4. CASE n = 3
  BY <1>4, NodesLemma DEF Jobs
<1>5. CASE n = 4
  BY <1>5, NodesLemma DEF Jobs
<1>6. CASE n = 5
  BY <1>6, NodesLemma DEF Jobs
<1>7. CASE n = 6
  BY <1>7, NodesLemma DEF Jobs
<1>8. CASE n = 7
  BY <1>8, NodesLemma DEF Jobs
<1>9. CASE n = 8
  BY <1>9, NodesLemma DEF Jobs
<1>10. CASE n = 9
  BY <1>10, NodesLemma DEF Jobs
<1> QED BY <1>1, <1>2, <1>3, <1>4, <1>5, <1>6, <1>7, <1>8, <1>9, <1>10

(* The calls are calls. *)
LEMMA JobsType ==
  ASSUME NEW n \in 1..9, NEW d \in DraftType, DraftInv(n, d)
  PROVE  Jobs(Nodes[n], d) \in Seq(JobType)
<1>1. << >> \in Seq(JobType)
  OBVIOUS
<1>2. ASSUME NEW a \in Refs, NEW r \in Refs PROVE <<Job(0, a, r)>> \in Seq(JobType)
  <2>1. Job(0, a, r) \in JobType
    BY <1>2, JobLemma
  <2> QED BY <2>1
<1>3. Known \in Refs /\ {} \in Refs /\ Requirements \in Refs
  BY KnownLemma DEF Refs
<1>4. TaskIds(d) \in Refs
  <2>1. \A k \in DOMAIN d.tasks : d.tasks[k].id \in Nat
    BY DraftLemma DEF TType
  <2> QED BY <2>1 DEF TaskIds, Refs
<1>5. LinkedMilestones(d) /\ LinkedTasks(d)
  BY DEF DraftInv
<1>6. n = 1 \/ n = 2 \/ n = 3 \/ n = 4 \/ n = 5 \/ n = 6 \/ n = 7 \/ n = 8 \/ n = 9
  OBVIOUS
<1>7. CASE n \in {1, 2, 3, 9} \/ (n > 3 /\ Fast)
  BY <1>1, <1>2, <1>3, <1>6, <1>7, JobsLemma
<1>8. CASE n = 4 /\ ~ Fast
  BY <1>8, JobsLemma, MilestoneJobsLemma
<1>9. CASE n = 5 /\ ~ Fast
  BY <1>5, <1>9, JobsLemma, TaskJobsLemma
<1>10. CASE n = 6 /\ ~ Fast
  BY <1>5, <1>10, JobsLemma, AcceptanceJobsLemma
<1>11. CASE n \in {7, 8} /\ ~ Fast
  BY <1>1, <1>2, <1>3, <1>4, <1>11, JobsLemma
<1> QED BY <1>6, <1>7, <1>8, <1>9, <1>10, <1>11

(* A handler that begins has everything still to ask for. *)
LEMMA StartLemma ==
  ASSUME path \in Paths, NEW n \in 1..9, NEW d \in DraftType, DraftInv(n, d)
  PROVE  Start(n, d) \in WorkType(n) /\ WorkInv(n, d, Start(n, d))
<1> DEFINE w == Start(n, d)
           jobs == Jobs(Nodes[n], d)
<1>1. jobs \in Seq(JobType)
  BY JobsType
<1>2. w.todo = jobs /\ w.items = << >> /\ w.next = 1 /\ w.repair = FALSE
  BY DEF Start
<1>3. w \in WorkType(n)
  <2>1. << >> \in Seq(ItemType(n))
    OBVIOUS
  <2> HIDE DEF jobs
  <2>2. w = [todo |-> jobs, items |-> << >>, next |-> 1, repair |-> FALSE]
    BY DEF Start, jobs
  <2> QED BY <1>1, <2>1, <2>2 DEF WorkType
<1> HIDE DEF w, jobs
<1>4. LinkedMilestones(d) /\ LinkedTasks(d)
  BY DEF DraftInv
<1>5. Clean(w.items) /\ Numbered(w) /\ Distinct(w.items) /\ DOMAIN w.items = {}
  BY <1>2 DEF Clean, Numbered, Distinct
<1>6. n = 3 => ModulesWork(w)
  <2> SUFFICES ASSUME n = 3 PROVE ModulesWork(w)
    OBVIOUS
  <2>1. jobs = <<Job(0, Known, Requirements)>>
    BY JobsLemma DEF jobs
  <2>2. /\ Job(0, Known, Requirements).allowed = Known
        /\ Job(0, Known, Requirements).required = Requirements
    BY DEF Job
  <2>3. \A j \in DOMAIN w.todo : w.todo[j].allowed = Known /\ w.todo[j].required = Requirements
    BY <1>2, <2>1, <2>2
  <2> QED BY <1>2, <1>5, <2>1, <2>3 DEF ModulesWork
<1>7. n = 4 /\ ~ Fast => MilestonesWork(d, w)
  <2> SUFFICES ASSUME n = 4, ~ Fast PROVE MilestonesWork(d, w)
    OBVIOUS
  <2>1. w.todo = MilestoneJobs(d)
    BY <1>2, JobsLemma DEF jobs
  <2> QED BY <1>5, <2>1, MilestoneJobsLemma DEF MilestonesWork
<1>8. n = 5 /\ ~ Fast => TasksWork(d, w)
  <2> SUFFICES ASSUME n = 5, ~ Fast PROVE TasksWork(d, w)
    OBVIOUS
  <2>1. w.todo = TaskJobs(d)
    BY <1>2, JobsLemma DEF jobs
  <2> QED BY <1>4, <1>5, <2>1, TaskJobsLemma DEF TasksWork
<1>9. n = 6 /\ ~ Fast => AcceptanceWork(d, w)
  <2> SUFFICES ASSUME n = 6, ~ Fast PROVE AcceptanceWork(d, w)
    OBVIOUS
  <2> DEFINE groups == AcceptanceGroups(d)
  <2>1. w.todo = AcceptanceJobs(d)
    BY <1>2, JobsLemma DEF jobs
  <2>2. DOMAIN w.todo = DOMAIN groups /\ \A k \in DOMAIN groups : w.todo[k].parent = k
    BY <1>4, <2>1, AcceptanceJobsLemma
  <2>3. \A t \in ToSet(d.tasks) : \E g \in DOMAIN groups : \E y \in DOMAIN groups[g] :
          groups[g][y] = t
    BY <1>4, GroupsLemma DEF SharesOut
  <2> HIDE DEF groups
  <2>4. \A t \in ToSet(d.tasks) : \E j \in DOMAIN w.todo :
          \E y \in DOMAIN groups[w.todo[j].parent] : groups[w.todo[j].parent][y] = t
    BY <2>2, <2>3
  <2> QED BY <1>5, <2>2, <2>4 DEF AcceptanceWork, groups
<1>10. n = 9 \/ (n > 3 /\ Fast) => w.todo = << >>
  BY <1>2, JobsLemma DEF jobs
<1>11. WorkInv(n, d, w)
  BY <1>5, <1>6, <1>7, <1>8, <1>9, <1>10 DEF WorkInv
<1> QED BY <1>3, <1>11 DEF w

-----------------------------------------------------------------------------
(* Answers *)

AnswerType == [items : Seq(Refs), sized : BOOLEAN]

\* what the checks guarantee of the items of an answer that is used
Good(job, items) ==
  /\ items \in Seq(Refs)
  /\ \A k \in DOMAIN items : /\ items[k] \subseteq job.allowed
                             /\ at # 7 => items[k] \cap Excluded = {}
  /\ at \in 2..6 => items # << >>
  /\ at = 3 => job.required \subseteq Cited(items)
  /\ at = 5 /\ job.allowed = Known =>
       \A r \in job.required : \E k \in DOMAIN items : items[k] = {r}

(* An issue is raised exactly when its condition holds. *)
LEMMA IssueLemma ==
  ASSUME NEW code, NEW holds \in BOOLEAN, IssueIf(code, holds) = {}
  PROVE  ~ holds
BY DEF IssueIf

(* An item without issues stays within what the call allows. *)
LEMMA ItemLemma ==
  ASSUME at \in 1..9, NEW job, NEW refs, ItemIssues(job, refs) = {}
  PROVE  refs \subseteq job.allowed /\ (at # 7 => refs \cap Excluded = {})
<1>1. /\ IssueIf("unknown_reference", ~ refs \subseteq job.allowed) = {}
      /\ IssueIf("excluded_scope", refs \cap Forbidden # {}) = {}
  BY DEF ItemIssues
<1>2. refs \subseteq job.allowed /\ refs \cap Forbidden = {}
  BY <1>1 DEF IssueIf
<1>3. at # 7 => Forbidden = Excluded
  BY NodesLemma DEF Forbidden, Node
<1> QED BY <1>2, <1>3

(* The items of a sequence. *)
LEMMA ToSetLemma ==
  ASSUME NEW T, NEW s \in Seq(T)
  PROVE  /\ DOMAIN s = 1..Len(s) /\ Len(s) \in Nat /\ ToSet(s) \subseteq T
         /\ \A k \in DOMAIN s : s[k] \in ToSet(s)
         /\ \A x \in ToSet(s) : \E k \in DOMAIN s : s[k] = x
BY DEF ToSet

(* An answer without issues is a good one. *)
LEMMA AcceptedLemma ==
  ASSUME at \in 1..9, NEW job, NEW a \in AnswerType, Issues(job, a) = {}
  PROVE  Good(job, a.items)
<1> DEFINE items == a.items
<1>1. items \in Seq(Refs)
  BY DEF AnswerType
<1>2. SchemaIssues(items) = {} /\ ReferenceIssues(job, items) = {} /\ BusinessIssues(job, a) = {}
  BY DEF Issues
<1>3. DOMAIN items = 1..Len(items) /\ \A k \in DOMAIN items : items[k] \in ToSet(items)
  BY <1>1, ToSetLemma
<1>4. ASSUME NEW k \in DOMAIN items
      PROVE  items[k] \subseteq job.allowed /\ (at # 7 => items[k] \cap Excluded = {})
  <2>1. ItemIssues(job, items[k]) = {}
    BY <1>2, <1>3 DEF ReferenceIssues
  <2> QED BY <2>1, ItemLemma
<1>5. at \in 2..6 => items # << >>
  <2> SUFFICES ASSUME at \in 2..6 PROVE items # << >>
    OBVIOUS
  <2>1. ~ Optional
    BY NodesLemma DEF Optional, Node
  <2>2. IssueIf("schema", \/ ~ Optional /\ items = <<>>
                          \/ ~ Optional /\ Len(items) > BatchLimit
                          \/ Node = "modules" /\ \E k \in DOMAIN items :
                               items[k] = {} \/ Cardinality(items[k]) > RefLimit) = {}
    BY <1>2 DEF SchemaIssues
  <2> QED BY <2>1, <2>2 DEF IssueIf
<1>6. at = 3 => job.required \subseteq Cited(items)
  <2> SUFFICES ASSUME at = 3 PROVE job.required \subseteq Cited(items)
    OBVIOUS
  <2>1. BusinessIssues(job, a) = IssueIf("requirement_coverage", ~ job.required \subseteq Cited(items))
    BY NodesLemma DEF BusinessIssues, Node
  <2> QED BY <1>2, <2>1 DEF IssueIf
<1>7. at = 5 /\ job.allowed = Known =>
        \A r \in job.required : \E k \in DOMAIN items : items[k] = {r}
  <2> SUFFICES ASSUME at = 5, job.allowed = Known, NEW r \in job.required
               PROVE  \E k \in DOMAIN items : items[k] = {r}
    OBVIOUS
  <2>1. IssueIf("dedicated_requirement_task", ~ job.required \subseteq Dedicated(items))
          \in SUBSET BusinessIssues(job, a)
    <3>1. Node = "tasks"
      BY NodesLemma DEF Node
    <3> QED BY <3>1 DEF BusinessIssues
  <2>2. job.required \subseteq Dedicated(items)
    BY <1>2, <2>1 DEF IssueIf
  <2>3. PICK refs \in ToSet(items) : Cardinality(refs) = 1 /\ r \in refs
    BY <2>2 DEF Dedicated
  <2>4. PICK k \in DOMAIN items : items[k] = refs
    BY <1>1, ToSetLemma
  <2>5. refs \in SUBSET Known
    BY <1>4, <2>4
  <2>6. IsFiniteSet(refs)
    BY <2>5, KnownLemma, FS_Subset
  <2>7. refs = {r}
    BY <2>3, <2>6, FS_Singleton
  <2> QED BY <2>4, <2>7
<1> QED BY <1>1, <1>4, <1>5, <1>6, <1>7 DEF Good

(* An answer of a provider is an answer. *)
LEMMA AnswersLemma ==
  ASSUME at \in 1..9
  PROVE  Answers \subseteq AnswerType
<1>1. MaxItems[Node] \in Nat /\ Cites[Node] \subseteq Refs
  BY BoundsAssumption DEF Node, Refs
<1> SUFFICES ASSUME NEW a \in Answers PROVE a \in AnswerType
  OBVIOUS
<1>2. PICK n \in 0..MaxItems[Node] : a.items \in [1..n -> Cites[Node]]
  BY DEF Answers
<1>3. n \in Nat /\ a.items \in Seq(Refs)
  BY <1>1, <1>2
<1>4. a = [items |-> a.items, sized |-> a.sized] /\ a.sized \in BOOLEAN
  BY DEF Answers
<1> QED BY <1>3, <1>4 DEF AnswerType

(* Normalisation makes an answer of an answer. *)
LEMMA NormalizedLemma ==
  ASSUME at \in 1..9, NEW job \in JobType, NEW answer \in AnswerType,
         NEW a \in Normalized(job, answer)
  PROVE  a \in AnswerType
<1> DEFINE s == answer.items
<1>1. s \in Seq(Refs) /\ answer.sized \in BOOLEAN
  BY DEF AnswerType
<1>2. DOMAIN s = 1..Len(s) /\ Len(s) \in Nat /\ \A k \in DOMAIN s : s[k] \in Refs
  BY <1>1
<1>3. CASE Node = "tasks"
  <2> DEFINE t == [k \in DOMAIN s |-> NormalizedTask(job, s[k])]
  <2>1. \A k \in DOMAIN s : NormalizedTask(job, s[k]) \in Refs
    BY <1>2 DEF NormalizedTask, Refs
  <2>2. t \in Seq(Refs)
    <3> DEFINE e(k) == NormalizedTask(job, s[k])
    <3>1. \A k \in DOMAIN s : e(k) \in Refs
      BY <2>1
    <3> HIDE DEF e
    <3>2. [k \in DOMAIN s |-> e(k)] \in Seq(Refs)
      BY <1>2, <3>1
    <3> QED BY <3>2 DEF e
  <2>3. a = [answer EXCEPT !.items = t]
    BY <1>3 DEF Normalized
  <2> HIDE DEF t
  <2> QED BY <1>1, <2>2, <2>3 DEF AnswerType
<1>4. CASE Node = "analysis" /\ answer.items # << >>
  <2>1. PICK refs \in NormalizedFacts(s[1]) : a = [answer EXCEPT !.items[1] = refs]
    BY <1>4 DEF Normalized
  <2>2. 1 \in DOMAIN s
    BY <1>1, <1>2, <1>4
  <2>3. refs \in Refs
    <3>1. s[1] \in Refs /\ InScope \subseteq Nat
      BY <1>2, <2>2, KnownLemma DEF InScope
    <3> QED BY <2>1, <3>1 DEF NormalizedFacts, Refs
  <2>4. [s EXCEPT ![1] = refs] \in Seq(Refs)
    <3> DEFINE e(k) == IF k = 1 THEN refs ELSE s[k]
    <3>1. [s EXCEPT ![1] = refs] = [k \in 1..Len(s) |-> e(k)]
      BY <1>1, <1>2
    <3>2. \A k \in 1..Len(s) : e(k) \in Refs
      BY <1>2, <2>3
    <3> HIDE DEF e
    <3>3. [k \in 1..Len(s) |-> e(k)] \in Seq(Refs)
      BY <1>2, <3>2
    <3> QED BY <3>1, <3>3
  <2> QED BY <1>1, <2>1, <2>4 DEF AnswerType
<1>5. CASE Node # "tasks" /\ ~ (Node = "analysis" /\ answer.items # << >>)
  BY <1>5 DEF Normalized
<1> QED BY <1>3, <1>4, <1>5

(* A repaired answer that is saved after all is a good one. *)
LEMMA SavedLemma ==
  ASSUME at \in 1..9, NEW job \in JobType, NEW a \in AnswerType, NEW b \in Saved(job, a)
  PROVE  b \in AnswerType /\ Good(job, b.items)
<1> DEFINE s == a.items
<1>1. s \in Seq(Refs) /\ a.sized \in BOOLEAN
  BY DEF AnswerType
<1>2. job.required \in Refs
  BY DEF JobType
<1>3. CASE Node = "modules"
  <2> DEFINE missing == job.required \ Cited(s)
             more == [a EXCEPT !.items = Append(@, missing)]
  <2>1. b = more /\ Issues(job, more) = {}
    BY <1>3 DEF Saved, CompletedModules
  <2>2. missing \in Refs
    BY <1>2 DEF Refs
  <2>3. more \in AnswerType
    <3> HIDE DEF missing
    <3>1. Append(s, missing) \in Seq(Refs)
      BY <1>1, <2>2
    <3> QED BY <1>1, <3>1 DEF AnswerType
  <2> HIDE DEF more
  <2> QED BY <2>1, <2>3, AcceptedLemma
<1>4. CASE Node = "tasks"
  <2> DEFINE toAdd == Sorted(job.required \ Dedicated(s))
             own == [k \in DOMAIN toAdd |-> {toAdd[k]}]
             more == [a EXCEPT !.items = @ \o own]
  <2>1. b = more /\ Issues(job, more) = {} /\ job.required \subseteq Requirements
    BY <1>4 DEF Saved, CompletedTasks
  <2>2. toAdd \in Seq(Known)
    <3> DEFINE rest == job.required \ Dedicated(s)
    <3>1. rest \in SUBSET Known
      BY <2>1, KnownLemma
    <3> HIDE DEF rest
    <3>2. Sorted(rest) \in Seq(rest)
      BY <3>1, SortedFacts
    <3>3. Sorted(rest) \in Seq(Known)
      BY <3>1, <3>2
    <3> QED BY <3>3 DEF rest
  <2>3. own \in Seq(Refs)
    <3> HIDE DEF toAdd
    <3>1. DOMAIN toAdd = 1..Len(toAdd) /\ Len(toAdd) \in Nat
      BY <2>2
    <3>2. \A k \in DOMAIN toAdd : {toAdd[k]} \in Refs
      <4>1. \A k \in DOMAIN toAdd : toAdd[k] \in Known
        BY <2>2
      <4>2. \A x \in Known : {x} \in Refs
        BY KnownLemma DEF Refs
      <4> QED BY <4>1, <4>2
    <3> QED BY <3>1, <3>2
  <2>4. more \in AnswerType
    <3> HIDE DEF own
    <3>1. s \o own \in Seq(Refs)
      BY <1>1, <2>3
    <3> QED BY <1>1, <3>1 DEF AnswerType
  <2> HIDE DEF more
  <2> QED BY <2>1, <2>4, AcceptedLemma
<1>5. CASE Node \notin {"modules", "tasks"}
  <2> DEFINE fine == {refs \in ToSet(s) : ItemIssues(job, refs) = {}}
             kept == Kept(s, fine)
  <2>1. Optional /\ b = [a EXCEPT !.items = kept]
    BY <1>5 DEF Saved, Salvaged
  <2>2. at \in {1, 7, 8}
    BY <2>1, NodesLemma DEF Optional, Node
  <2> HIDE DEF fine
  <2>3. kept \in Seq(Refs) /\ \E p : Selects(kept, s, fine, p)
    BY <1>1, KeptLemma
  <2> HIDE DEF kept
  <2>4. \A k \in DOMAIN kept : kept[k] \in fine
    <3>1. DOMAIN kept = 1..Len(kept)
      BY <2>3
    <3> QED BY <2>3, <3>1 DEF Selects
  <2>5. b \in AnswerType /\ b.items = kept
    BY <1>1, <2>1, <2>3 DEF AnswerType
  <2>6. \A k \in DOMAIN kept : /\ kept[k] \subseteq job.allowed
                               /\ at # 7 => kept[k] \cap Excluded = {}
    BY <2>4, ItemLemma DEF fine
  <2> QED BY <2>2, <2>3, <2>5, <2>6 DEF Good
<1> QED BY <1>3, <1>4, <1>5

-----------------------------------------------------------------------------
(* The next call *)

(* What is left of a sequence, and what a concatenation holds. *)
LEMMA TailLemma ==
  ASSUME NEW T, NEW s \in Seq(T), s # << >>
  PROVE  /\ Head(s) = s[1] /\ Head(s) \in T /\ 1 \in DOMAIN s /\ Tail(s) \in Seq(T)
         /\ \A j \in DOMAIN Tail(s) : j + 1 \in DOMAIN s /\ j + 1 # 1 /\ Tail(s)[j] = s[j + 1]
         /\ \A j \in DOMAIN s : j = 1 \/ (j - 1 \in DOMAIN Tail(s) /\ Tail(s)[j - 1] = s[j])
<1>1. Len(s) \in Nat /\ Len(s) # 0 /\ DOMAIN s = 1..Len(s)
  OBVIOUS
<1>2. /\ Head(s) \in T /\ Tail(s) \in Seq(T) /\ Len(Tail(s)) = Len(s) - 1
      /\ \A i \in 1..Len(Tail(s)) : Tail(s)[i] = s[i + 1]
  BY HeadTailProperties
<1>3. DOMAIN Tail(s) = 1..(Len(s) - 1)
  BY <1>2
<1>4. Head(s) = s[1]
  OBVIOUS
<1> QED BY <1>1, <1>2, <1>3, <1>4

LEMMA ConcatLemma ==
  ASSUME NEW T, NEW s \in Seq(T), NEW t \in Seq(T)
  PROVE  /\ s \o t \in Seq(T)
         /\ \A k \in DOMAIN (s \o t) :
              \/ k \in DOMAIN s /\ (s \o t)[k] = s[k]
              \/ k - Len(s) \in DOMAIN t /\ (s \o t)[k] = t[k - Len(s)] /\ k > Len(s)
         /\ \A k \in DOMAIN s : k \in DOMAIN (s \o t) /\ (s \o t)[k] = s[k]
         /\ \A k \in DOMAIN t : Len(s) + k \in DOMAIN (s \o t) /\ (s \o t)[Len(s) + k] = t[k]
<1>1. /\ Len(s) \in Nat /\ Len(t) \in Nat /\ DOMAIN s = 1..Len(s) /\ DOMAIN t = 1..Len(t)
      /\ s \o t \in Seq(T) /\ Len(s \o t) = Len(s) + Len(t)
      /\ DOMAIN (s \o t) = 1..(Len(s) + Len(t))
  OBVIOUS
<1>2. \A k \in 1..(Len(s) + Len(t)) :
        (s \o t)[k] = IF k <= Len(s) THEN s[k] ELSE t[k - Len(s)]
  OBVIOUS
<1>3. ASSUME NEW k \in 1..(Len(s) + Len(t))
      PROVE  \/ k \in 1..Len(s) /\ (s \o t)[k] = s[k]
             \/ k - Len(s) \in 1..Len(t) /\ (s \o t)[k] = t[k - Len(s)] /\ k > Len(s)
  BY <1>1, <1>2
<1>4. \A k \in 1..Len(s) : k \in 1..(Len(s) + Len(t)) /\ (s \o t)[k] = s[k]
  BY <1>1, <1>2
<1>5. ASSUME NEW k \in 1..Len(t)
      PROVE  Len(s) + k \in 1..(Len(s) + Len(t)) /\ (s \o t)[Len(s) + k] = t[k]
  <2>1. Len(s) + k \in 1..(Len(s) + Len(t)) /\ ~ (Len(s) + k <= Len(s)) /\ (Len(s) + k) - Len(s) = k
    BY <1>1
  <2> QED BY <1>2, <2>1
<1> QED BY <1>1, <1>3, <1>4, <1>5

(* Two lists with different numbers in each and none in both join to one. *)
LEMMA DistinctLemma ==
  ASSUME NEW T, NEW s \in Seq(T), NEW t \in Seq(T), Distinct(s), Distinct(t),
         \A j \in DOMAIN s, k \in DOMAIN t : s[j].id # t[k].id
  PROVE  Distinct(s \o t)
<1> DEFINE u == s \o t
<1>1. \A k \in DOMAIN u : \/ k \in DOMAIN s /\ u[k] = s[k]
                          \/ k - Len(s) \in DOMAIN t /\ u[k] = t[k - Len(s)]
  BY ConcatLemma
<1>2. Len(s) \in Nat /\ DOMAIN u \subseteq Nat
  BY ConcatLemma
<1> HIDE DEF u
<1> SUFFICES ASSUME NEW j \in DOMAIN u, NEW k \in DOMAIN u, u[j].id = u[k].id PROVE j = k
  BY DEF Distinct, u
<1>3. CASE j \in DOMAIN s /\ u[j] = s[j] /\ k \in DOMAIN s /\ u[k] = s[k]
  BY <1>3 DEF Distinct
<1>4. CASE /\ j - Len(s) \in DOMAIN t /\ u[j] = t[j - Len(s)]
           /\ k - Len(s) \in DOMAIN t /\ u[k] = t[k - Len(s)]
  <2>1. j - Len(s) = k - Len(s)
    BY <1>4 DEF Distinct
  <2> QED BY <1>2, <2>1
<1>5. CASE j \in DOMAIN s /\ u[j] = s[j] /\ k - Len(s) \in DOMAIN t /\ u[k] = t[k - Len(s)]
  BY <1>5
<1>6. CASE k \in DOMAIN s /\ u[k] = s[k] /\ j - Len(s) \in DOMAIN t /\ u[j] = t[j - Len(s)]
  BY <1>6
<1> QED BY <1>1, <1>3, <1>4, <1>5, <1>6

(* Items numbered from the first free number on stay distinct. *)
LEMMA NumberedLemma ==
  ASSUME NEW T, NEW s \in Seq(T), NEW t \in Seq(T), NEW next \in Nat, Distinct(s),
         \A k \in DOMAIN s : s[k].id \in Nat /\ s[k].id < next,
         \A k \in DOMAIN t : t[k].id = next + k - 1
  PROVE  Distinct(s \o t) /\ \A k \in DOMAIN (s \o t) : (s \o t)[k].id < next + Len(t)
<1>1. DOMAIN t = 1..Len(t) /\ Len(t) \in Nat
  OBVIOUS
<1>2. Distinct(t)
  <2> SUFFICES ASSUME NEW j \in DOMAIN t, NEW k \in DOMAIN t, t[j].id = t[k].id PROVE j = k
    BY DEF Distinct
  <2>1. next + j - 1 = next + k - 1
    OBVIOUS
  <2> QED BY <1>1, <2>1
<1>3. \A j \in DOMAIN s, k \in DOMAIN t : s[j].id # t[k].id
  <2> TAKE j \in DOMAIN s, k \in DOMAIN t
  <2>1. s[j].id \in Nat /\ s[j].id < next /\ t[k].id = next + k - 1 /\ k \in 1..Len(t)
    BY <1>1
  <2> QED BY <1>1, <2>1
<1>4. Distinct(s \o t)
  BY <1>2, <1>3, DistinctLemma
<1>5. ASSUME NEW k \in DOMAIN (s \o t) PROVE (s \o t)[k].id < next + Len(t)
  <2>1. CASE k \in DOMAIN s /\ (s \o t)[k] = s[k]
    BY <1>1, <2>1
  <2>2. CASE k - Len(s) \in DOMAIN t /\ (s \o t)[k] = t[k - Len(s)]
    <3>1. (s \o t)[k].id = next + (k - Len(s)) - 1 /\ k - Len(s) \in 1..Len(t)
      BY <1>1, <2>2
    <3> QED BY <1>1, <3>1
  <2> QED BY <2>1, <2>2, ConcatLemma
<1> QED BY <1>4, <1>5

\* what an accepted answer leaves of the work
Ahead(more, n) ==
  [todo |-> Tail(work.todo), items |-> work.items \o more, next |-> work.next + n,
   repair |-> FALSE]

(* What a handler has is what it had and what it was given. *)
LEMMA AheadLemma ==
  ASSUME at \in 1..9, work \in WorkType(at), work.todo # << >>,
         NEW more \in Seq(ItemType(at)), NEW n \in Nat
  PROVE  /\ Ahead(more, n) \in WorkType(at)
         /\ work.todo \in Seq(JobType) /\ work.items \in Seq(ItemType(at))
         /\ Ahead(more, n).todo = Tail(work.todo)
         /\ Ahead(more, n).items = work.items \o more
         /\ Ahead(more, n).next = work.next + n
<1>1. /\ work.todo \in Seq(JobType) /\ work.items \in Seq(ItemType(at)) /\ work.next \in Nat
      /\ DOMAIN work.items \subseteq Nat
  BY DEF WorkType
<1>2. Tail(work.todo) \in Seq(JobType)
  BY <1>1, TailLemma
<1>3. work.items \o more \in Seq(ItemType(at)) /\ work.next + n \in Nat
  BY <1>1
<1> QED BY <1>1, <1>2, <1>3 DEF Ahead, WorkType

(* Nothing excluded is added to what cites nothing excluded. *)
LEMMA CleanLemma ==
  ASSUME NEW s \in Seq(Refs), NEW t \in Seq(Refs), Clean(s), Clean(t)
  PROVE  Clean(s \o t)
BY ConcatLemma DEF Clean

(* The questions, the analysis, the risks: the answer's items are kept or left *)
(* out.                                                                        *)
LEMMA AdvanceFacts ==
  ASSUME at \in {1, 2, 7, 8}, work \in WorkType(at), WorkInv(at, draft, work),
         work.todo # << >>, ~ Fast \/ at < 3,
         NEW job, NEW items, Good(job, items), NEW w \in Advanced(job, items)
  PROVE  w \in WorkType(at) /\ WorkInv(at, draft, w)
<1> USE DEF Refs
<1>1. PICK more \in Accepted(job, items) : w = Ahead(more, Len(items))
  BY DEF Advanced, Ahead
<1>2. items \in Seq(Refs) /\ ItemType(at) = Refs /\ Len(items) \in Nat
  BY DEF Good, ItemType
<1>3. more \in Seq(Refs) /\ (at # 7 => Clean(more))
  <2>1. CASE at = 1
    <3>1. PICK open \in SUBSET ToSet(items) : more = Kept(items, open)
      BY <1>1, <2>1, NodesLemma DEF Accepted, Unanswered, Node
    <3>2. more \in Seq(Refs) /\ \E p : Selects(more, items, open, p)
      BY <1>2, <3>1, KeptLemma
    <3>3. \A x \in open : x \cap Excluded = {}
      <4>1. \A x \in ToSet(items) : \E k \in DOMAIN items : items[k] = x
        BY <1>2, ToSetLemma
      <4> QED BY <2>1, <4>1 DEF Good
    <3>4. \A k \in DOMAIN more : more[k] \in open
      <4>1. DOMAIN more = 1..Len(more)
        BY <3>2
      <4> QED BY <3>2, <4>1 DEF Selects
    <3> QED BY <3>2, <3>3, <3>4 DEF Clean
  <2>2. CASE at # 1
    <3>1. more = items
      BY <1>1, <2>2, NodesLemma DEF Accepted, Node
    <3> QED BY <1>2, <2>2, <3>1 DEF Clean, Good
  <2> QED BY <2>1, <2>2
<1>4. /\ w \in WorkType(at) /\ w.items = work.items \o more /\ work.items \in Seq(Refs)
  BY <1>1, <1>2, <1>3, AheadLemma
<1>5. at # 7 => Clean(w.items)
  <2> SUFFICES ASSUME at # 7 PROVE Clean(w.items)
    OBVIOUS
  <2>1. Clean(work.items)
    BY DEF WorkInv
  <2> QED BY <1>3, <1>4, <2>1, CleanLemma
<1>6. at > 3 => ~ Fast
  OBVIOUS
<1> QED BY <1>4, <1>5, <1>6 DEF WorkInv

(* The modules: the one call covers every requirement. *)
LEMMA AdvanceModules ==
  ASSUME at = 3, work \in WorkType(at), WorkInv(at, draft, work), work.todo # << >>,
         NEW items, Good(Head(work.todo), items), NEW w \in Advanced(Head(work.todo), items)
  PROVE  w \in WorkType(at) /\ WorkInv(at, draft, w)
<1> USE DEF Refs
<1>1. w = Ahead(items, Len(items))
  BY NodesLemma DEF Advanced, Ahead, Accepted, Node
<1>2. items \in Seq(Refs) /\ ItemType(at) = Refs /\ Len(items) \in Nat
  BY DEF Good, ItemType
<1>3. /\ w \in WorkType(at) /\ w.items = work.items \o items /\ w.todo = Tail(work.todo)
      /\ work.items \in Seq(Refs) /\ work.todo \in Seq(JobType)
  BY <1>1, <1>2, AheadLemma
<1>4. ModulesWork(work)
  BY DEF WorkInv
<1>5. Head(work.todo).allowed = Known /\ Head(work.todo).required = Requirements
  BY <1>3, <1>4, TailLemma DEF ModulesWork
<1>6. Clean(w.items)
  <2>1. Clean(items)
    BY DEF Good, Clean
  <2> QED BY <1>2, <1>3, <1>4, <2>1, CleanLemma DEF ModulesWork
<1>7. \A k \in DOMAIN w.items : w.items[k] \subseteq Known
  <2>1. \A k \in DOMAIN items : items[k] \subseteq Known
    BY <1>5 DEF Good
  <2> QED BY <1>2, <1>3, <1>4, <2>1, ConcatLemma DEF ModulesWork
<1>8. \A j \in DOMAIN w.todo : w.todo[j].allowed = Known /\ w.todo[j].required = Requirements
  BY <1>3, <1>4, TailLemma DEF ModulesWork
<1>9. Requirements \subseteq Cited(w.items)
  <2>1. Requirements \subseteq Cited(items)
    BY <1>5 DEF Good
  <2>2. ToSet(items) \subseteq ToSet(w.items)
    <3> SUFFICES ASSUME NEW x \in ToSet(items) PROVE x \in ToSet(w.items)
      OBVIOUS
    <3>1. PICK k \in DOMAIN items : items[k] = x
      BY <1>2, ToSetLemma
    <3>2. Len(work.items) + k \in DOMAIN w.items /\ w.items[Len(work.items) + k] = x
      BY <1>2, <1>3, <3>1, ConcatLemma
    <3>3. w.items \in Seq(Refs)
      BY <1>2, <1>3
    <3> QED BY <3>2, <3>3, ToSetLemma
  <2> QED BY <2>1, <2>2 DEF Cited
<1>10. ModulesWork(w)
  BY <1>6, <1>7, <1>8, <1>9 DEF ModulesWork
<1> QED BY <1>3, <1>10 DEF WorkInv

(* The milestones: a module is asked for or has one. *)
LEMMA AdvanceMilestones ==
  ASSUME at = 4, draft \in DraftType, work \in WorkType(at), WorkInv(at, draft, work),
         work.todo # << >>, ~ Fast,
         NEW items, Good(Head(work.todo), items), NEW w \in Advanced(Head(work.todo), items)
  PROVE  w \in WorkType(at) /\ WorkInv(at, draft, w)
<1> DEFINE job == Head(work.todo)
           more == Milestones(job, items)
<1>1. w = Ahead(more, Len(items))
  BY NodesLemma DEF Advanced, Ahead, Accepted, Node
<1>2. /\ items \in Seq(Refs) /\ items # << >> /\ ItemType(at) = MType
      /\ DOMAIN items = 1..Len(items) /\ Len(items) \in Nat
  BY DEF Good, ItemType
<1>3. work.todo \in Seq(JobType) /\ job \in JobType /\ job = work.todo[1] /\ 1 \in DOMAIN work.todo
  BY TailLemma DEF WorkType
<1>4. job.parent \in Nat /\ work.next \in Nat
  BY <1>3 DEF JobType, WorkType
<1> HIDE DEF job
<1>5. /\ more \in Seq(MType) /\ Len(more) = Len(items) /\ DOMAIN more = 1..Len(items)
      /\ \A k \in DOMAIN more : more[k].id = work.next + k - 1 /\ more[k].module = job.parent
  <2> DEFINE e(k) == [id |-> work.next + k - 1, module |-> job.parent]
  <2>1. \A k \in 1..Len(items) : e(k) \in MType /\ e(k).id = work.next + k - 1
                                   /\ e(k).module = job.parent
    BY <1>2, <1>4 DEF MType
  <2>2. more = [k \in 1..Len(items) |-> e(k)]
    BY <1>2 DEF Milestones
  <2> HIDE DEF e, more
  <2> QED BY <1>2, <2>1, <2>2
<1> HIDE DEF more
<1>6. /\ w \in WorkType(at) /\ w.items = work.items \o more /\ w.todo = Tail(work.todo)
      /\ work.items \in Seq(MType) /\ w.next = work.next + Len(more)
  <2>1. at \in 1..9 /\ more \in Seq(ItemType(at))
    BY <1>2, <1>5
  <2> QED BY <1>1, <1>2, <1>5, <2>1, AheadLemma
<1>7. MilestonesWork(draft, work)
  BY DEF WorkInv
<1>8. Numbered(w)
  <2>1. \A k \in DOMAIN work.items : work.items[k] \in MType
    BY <1>6
  <2>2. \A k \in DOMAIN work.items : work.items[k].id \in Nat
    BY <2>1 DEF MType
  <2>3. Distinct(work.items) /\ \A k \in DOMAIN work.items : work.items[k].id < work.next
    BY <1>7 DEF MilestonesWork, Numbered
  <2> QED BY <1>4, <1>5, <1>6, <2>2, <2>3, NumberedLemma DEF Numbered
<1>9. job.parent \in DOMAIN draft.modules
  BY <1>3, <1>7 DEF MilestonesWork
<1>10. \A k \in DOMAIN w.items : w.items[k].module \in DOMAIN draft.modules
  <2> TAKE k \in DOMAIN w.items
  <2>1. CASE k \in DOMAIN work.items /\ w.items[k] = work.items[k]
    BY <1>7, <2>1 DEF MilestonesWork
  <2>2. CASE k - Len(work.items) \in DOMAIN more /\ w.items[k] = more[k - Len(work.items)]
    BY <1>5, <1>9, <2>2
  <2> QED BY <1>5, <1>6, <2>1, <2>2, ConcatLemma
<1>11. \A j \in DOMAIN w.todo : w.todo[j].parent \in DOMAIN draft.modules
  BY <1>3, <1>6, <1>7, TailLemma DEF MilestonesWork
<1>12. ASSUME NEW m \in DOMAIN draft.modules
       PROVE  \/ \E k \in DOMAIN w.items : w.items[k].module = m
              \/ \E j \in DOMAIN w.todo : w.todo[j].parent = m
  <2>1. CASE \E k \in DOMAIN work.items : work.items[k].module = m
    BY <1>5, <1>6, <2>1, ConcatLemma
  <2>2. CASE \E j \in DOMAIN work.todo : work.todo[j].parent = m
    <3>1. PICK j \in DOMAIN work.todo : work.todo[j].parent = m
      BY <2>2
    <3>2. CASE j = 1
      <4>1. 1 \in DOMAIN more
        BY <1>2, <1>5
      <4>2. Len(work.items) + 1 \in DOMAIN w.items /\ w.items[Len(work.items) + 1] = more[1]
        BY <1>5, <1>6, <4>1, ConcatLemma
      <4> QED BY <1>3, <1>5, <3>1, <3>2, <4>1, <4>2
    <3>3. CASE j - 1 \in DOMAIN w.todo /\ w.todo[j - 1] = work.todo[j]
      BY <3>1, <3>3
    <3> QED BY <1>3, <1>6, <3>2, <3>3, TailLemma
  <2> QED BY <1>7, <2>1, <2>2 DEF MilestonesWork
<1>13. MilestonesWork(draft, w)
  BY <1>8, <1>10, <1>11, <1>12 DEF MilestonesWork
<1> QED BY <1>6, <1>13 DEF WorkInv

(* The tasks: a milestone is asked for or has one, and so is a requirement of  *)
(* its module.                                                                 *)
LEMMA AdvanceTasks ==
  ASSUME at = 5, draft \in DraftType, work \in WorkType(at), WorkInv(at, draft, work),
         work.todo # << >>, ~ Fast,
         NEW items, Good(Head(work.todo), items), NEW w \in Advanced(Head(work.todo), items)
  PROVE  w \in WorkType(at) /\ WorkInv(at, draft, w)
<1> DEFINE job == Head(work.todo)
           more == Tasks(job, items)
<1>1. w = Ahead(more, Len(items))
  BY NodesLemma DEF Advanced, Ahead, Accepted, Node
<1>2. /\ items \in Seq(Refs) /\ items # << >> /\ ItemType(at) = TType
      /\ DOMAIN items = 1..Len(items) /\ Len(items) \in Nat
      /\ \A k \in DOMAIN items : items[k] \in Refs
  BY DEF Good, ItemType
<1>3. work.todo \in Seq(JobType) /\ job \in JobType /\ job = work.todo[1] /\ 1 \in DOMAIN work.todo
  BY TailLemma DEF WorkType
<1>4. job.parent \in Nat /\ work.next \in Nat
  BY <1>3 DEF JobType, WorkType
<1>5. TasksWork(draft, work)
  BY DEF WorkInv
<1>6. job.allowed = Known /\ MilestoneId(draft, job.parent)
  BY <1>3, <1>5 DEF TasksWork
<1>7. \A k \in DOMAIN items : items[k] \cap Excluded = {}
  BY DEF Good
<1>8. \A r \in job.required : \E k \in DOMAIN items : items[k] = {r}
  BY <1>6 DEF Good
<1> HIDE DEF job
<1>9. /\ more \in Seq(TType) /\ Len(more) = Len(items) /\ DOMAIN more = 1..Len(items)
      /\ \A k \in DOMAIN more : /\ more[k].id = work.next + k - 1
                                /\ more[k].milestone = job.parent /\ more[k].refs = items[k]
  <2> DEFINE e(k) == [id |-> work.next + k - 1, milestone |-> job.parent, refs |-> items[k]]
  <2>1. \A k \in 1..Len(items) : /\ e(k) \in TType /\ e(k).id = work.next + k - 1
                                 /\ e(k).milestone = job.parent /\ e(k).refs = items[k]
    BY <1>2, <1>4 DEF TType
  <2>2. more = [k \in 1..Len(items) |-> e(k)]
    BY <1>2 DEF Tasks
  <2> HIDE DEF e, more
  <2> QED BY <1>2, <2>1, <2>2
<1> HIDE DEF more
<1>10. /\ w \in WorkType(at) /\ w.items = work.items \o more /\ w.todo = Tail(work.todo)
       /\ work.items \in Seq(TType) /\ w.next = work.next + Len(more)
  <2>1. at \in 1..9 /\ more \in Seq(ItemType(at))
    BY <1>2, <1>9
  <2> QED BY <1>1, <1>2, <1>9, <2>1, AheadLemma
<1>11. Numbered(w)
  <2>1. \A k \in DOMAIN work.items : work.items[k] \in TType
    BY <1>10
  <2>2. \A k \in DOMAIN work.items : work.items[k].id \in Nat
    BY <2>1 DEF TType
  <2>3. Distinct(work.items) /\ \A k \in DOMAIN work.items : work.items[k].id < work.next
    BY <1>5 DEF TasksWork, Numbered
  <2> QED BY <1>4, <1>9, <1>10, <2>2, <2>3, NumberedLemma DEF Numbered
<1>12. \A k \in DOMAIN w.items :
         w.items[k].refs \cap Excluded = {} /\ MilestoneId(draft, w.items[k].milestone)
  <2> TAKE k \in DOMAIN w.items
  <2>1. CASE k \in DOMAIN work.items /\ w.items[k] = work.items[k]
    BY <1>5, <2>1 DEF TasksWork
  <2>2. CASE k - Len(work.items) \in DOMAIN more /\ w.items[k] = more[k - Len(work.items)]
    BY <1>2, <1>6, <1>7, <1>9, <2>2
  <2> QED BY <1>9, <1>10, <2>1, <2>2, ConcatLemma
<1>13. \A j \in DOMAIN w.todo :
         w.todo[j].allowed = Known /\ MilestoneId(draft, w.todo[j].parent)
  BY <1>3, <1>5, <1>10, TailLemma DEF TasksWork
<1>14. ASSUME NEW s \in DOMAIN draft.milestones
       PROVE  \/ \E k \in DOMAIN w.items : w.items[k].milestone = draft.milestones[s].id
              \/ \E j \in DOMAIN w.todo : w.todo[j].parent = draft.milestones[s].id
  <2> DEFINE m == draft.milestones[s].id
  <2> HIDE DEF m
  <2>1. CASE \E k \in DOMAIN work.items : work.items[k].milestone = m
    BY <1>9, <1>10, <2>1, ConcatLemma DEF m
  <2>2. CASE \E j \in DOMAIN work.todo : work.todo[j].parent = m
    <3>1. PICK j \in DOMAIN work.todo : work.todo[j].parent = m
      BY <2>2
    <3>2. CASE j = 1
      <4>1. 1 \in DOMAIN more
        BY <1>2, <1>9
      <4>2. Len(work.items) + 1 \in DOMAIN w.items /\ w.items[Len(work.items) + 1] = more[1]
        BY <1>9, <1>10, <4>1, ConcatLemma
      <4> QED BY <1>3, <1>9, <3>1, <3>2, <4>1, <4>2 DEF m
    <3>3. CASE j - 1 \in DOMAIN w.todo /\ w.todo[j - 1] = work.todo[j]
      BY <3>1, <3>3 DEF m
    <3> QED BY <1>3, <1>10, <3>2, <3>3, TailLemma
  <2> QED BY <1>5, <2>1, <2>2 DEF TasksWork, m
<1>15. /\ \A k \in DOMAIN work.items : k \in DOMAIN w.items /\ w.items[k] = work.items[k]
       /\ \A k \in DOMAIN more :
            /\ Len(work.items) + k \in DOMAIN w.items
            /\ w.items[Len(work.items) + k] = more[k]
  <2> DEFINE s == work.items
  <2>1. s \in Seq(TType) /\ more \in Seq(TType) /\ w.items = s \o more
    BY <1>9, <1>10
  <2> HIDE DEF s
  <2>2. /\ \A k \in DOMAIN s : k \in DOMAIN w.items /\ w.items[k] = s[k]
        /\ \A k \in DOMAIN more : /\ Len(s) + k \in DOMAIN w.items
                                  /\ w.items[Len(s) + k] = more[k]
    BY <2>1, ConcatLemma
  <2> QED BY <2>2 DEF s
<1>16. \A j \in DOMAIN work.todo :
         j = 1 \/ (j - 1 \in DOMAIN w.todo /\ w.todo[j - 1] = work.todo[j])
  BY <1>3, <1>10, TailLemma
<1>17. ASSUME NEW s \in DOMAIN draft.milestones,
              NEW r \in draft.modules[draft.milestones[s].module]
       PROVE  \/ \E k \in DOMAIN w.items : w.items[k].refs = {r}
              \/ \E j \in DOMAIN w.todo : r \in w.todo[j].required
  <2> DEFINE own == {r}
  <2>0. \A k \in DOMAIN items : items[k] = {r} => items[k] = own
    OBVIOUS
  <2>1. r \in job.required => \E k \in DOMAIN items : items[k] = own
    BY <1>8
  <2>2. \/ \E k \in DOMAIN work.items : work.items[k].refs = own
        \/ \E j \in DOMAIN work.todo : r \in work.todo[j].required
    BY <1>5 DEF TasksWork
  <2> HIDE DEF own
  <2>3. CASE \E k \in DOMAIN work.items : work.items[k].refs = own
    BY <1>15, <2>3 DEF own
  <2>4. CASE r \in job.required
    <3>1. PICK k \in DOMAIN items : items[k] = own
      BY <2>1, <2>4
    <3>2. k \in DOMAIN more /\ more[k].refs = own
      BY <1>2, <1>9, <3>1
    <3>3. w.items[Len(work.items) + k].refs = own
      BY <1>15, <3>2
    <3> QED BY <1>15, <3>2, <3>3 DEF own
  <2>5. CASE \E j \in DOMAIN work.todo : r \in work.todo[j].required /\ j # 1
    BY <1>16, <2>5
  <2> QED BY <1>3, <2>2, <2>3, <2>4, <2>5
<1>18. TasksWork(draft, w)
  BY <1>11, <1>12, <1>13, <1>14, <1>17 DEF TasksWork
<1> QED BY <1>10, <1>18 DEF WorkInv

(* The acceptance pass: a task is in a group that is asked for, or kept.       *)
LEMMA AdvanceAcceptance ==
  ASSUME at = 6, draft \in DraftType, LinkedMilestones(draft), LinkedTasks(draft),
         work \in WorkType(at), WorkInv(at, draft, work), work.todo # << >>, ~ Fast,
         NEW items, Good(Head(work.todo), items), NEW w \in Advanced(Head(work.todo), items)
  PROVE  w \in WorkType(at) /\ WorkInv(at, draft, w)
<1> DEFINE job == Head(work.todo)
           groups == AcceptanceGroups(draft)
           more == groups[job.parent]
           all == ToSet(draft.tasks)
<1>1. w = Ahead(more, Len(items))
  BY NodesLemma DEF Advanced, Ahead, Accepted, Enriched, Node
<1>2. ItemType(at) = TType /\ Len(items) \in Nat
  BY DEF Good, ItemType
<1>3. work.todo \in Seq(JobType) /\ job = work.todo[1] /\ 1 \in DOMAIN work.todo
  BY TailLemma DEF WorkType
<1>4. SharesOut(groups, all)
  BY GroupsLemma
<1>5. \A t \in all : t.id \in Nat
  BY DraftLemma DEF ToSet, TType
<1> HIDE DEF groups, job
<1>6. /\ Distinct(work.items)
      /\ \A j \in DOMAIN work.todo : work.todo[j].parent \in DOMAIN groups
      /\ \A i, j \in DOMAIN work.todo : work.todo[i].parent = work.todo[j].parent => i = j
      /\ \A k \in DOMAIN work.items : work.items[k] \in all
      /\ \A k \in DOMAIN work.items : \A j \in DOMAIN work.todo :
           ~ \E y \in DOMAIN groups[work.todo[j].parent] :
               groups[work.todo[j].parent][y] = work.items[k]
      /\ \A t \in all :
           \/ \E k \in DOMAIN work.items : work.items[k] = t
           \/ \E j \in DOMAIN work.todo : \E y \in DOMAIN groups[work.todo[j].parent] :
                groups[work.todo[j].parent][y] = t
  <2>1. AcceptanceWork(draft, work)
    BY DEF WorkInv
  <2> QED BY <2>1 DEF AcceptanceWork, groups
<1> HIDE DEF all
<1>7. job.parent \in DOMAIN groups
  BY <1>3, <1>6
<1>8. /\ more \in Seq(TType) /\ DOMAIN more = 1..Len(more) /\ Len(more) \in Nat
      /\ \A y \in DOMAIN more : more[y] \in all
  BY <1>4, <1>7 DEF SharesOut
<1> HIDE DEF more
<1>9. /\ w \in WorkType(at) /\ w.items = work.items \o more /\ w.todo = Tail(work.todo)
      /\ work.items \in Seq(TType)
  <2>1. at \in 1..9 /\ more \in Seq(ItemType(at))
    BY <1>2, <1>8
  <2> QED BY <1>1, <1>2, <2>1, AheadLemma
<1>10. \A t, u \in all : t.id = u.id => t = u
  BY DEF all, ToSet, LinkedTasks, Distinct
<1>11. Distinct(w.items)
  <2>1. Distinct(more)
    <3>1. \A y, z \in DOMAIN more : more[y].id = more[z].id => y = z
      BY <1>4, <1>7 DEF SharesOut, more
    <3> QED BY <3>1 DEF Distinct
  <2>2. \A k \in DOMAIN work.items, y \in DOMAIN more : work.items[k].id # more[y].id
    <3> SUFFICES ASSUME NEW k \in DOMAIN work.items, NEW y \in DOMAIN more,
                        work.items[k].id = more[y].id
                 PROVE  FALSE
      OBVIOUS
    <3>1. work.items[k] = more[y]
      BY <1>6, <1>8, <1>10
    <3>2. y \in DOMAIN groups[work.todo[1].parent] /\ groups[work.todo[1].parent][y] = work.items[k]
      BY <1>3, <3>1 DEF more
    <3> QED BY <1>3, <1>6, <3>2
  <2>3. Distinct(work.items \o more)
    BY <1>6, <1>8, <1>9, <2>1, <2>2, DistinctLemma
  <2> QED BY <1>9, <2>3
<1>12. \A j \in DOMAIN w.todo :
         j + 1 \in DOMAIN work.todo /\ j + 1 # 1 /\ w.todo[j] = work.todo[j + 1]
  BY <1>3, <1>9, TailLemma
<1>13. \A j \in DOMAIN w.todo : w.todo[j].parent \in DOMAIN groups
  BY <1>6, <1>12
<1>14. \A i, j \in DOMAIN w.todo : w.todo[i].parent = w.todo[j].parent => i = j
  <2> SUFFICES ASSUME NEW i \in DOMAIN w.todo, NEW j \in DOMAIN w.todo,
                      w.todo[i].parent = w.todo[j].parent
               PROVE  i = j
    OBVIOUS
  <2>1. i + 1 = j + 1
    BY <1>6, <1>12
  <2>2. i \in Nat /\ j \in Nat
    <3>1. w.todo \in Seq(JobType)
      BY <1>3, <1>9, TailLemma
    <3> QED BY <3>1
  <2> QED BY <2>1, <2>2
<1>15. \A k \in DOMAIN w.items :
         \/ k \in DOMAIN work.items /\ w.items[k] = work.items[k]
         \/ k - Len(work.items) \in DOMAIN more /\ w.items[k] = more[k - Len(work.items)]
  BY <1>8, <1>9, ConcatLemma
<1>16. \A k \in DOMAIN w.items : w.items[k] \in all
  BY <1>6, <1>8, <1>15
<1>17. ASSUME NEW k \in DOMAIN w.items, NEW j \in DOMAIN w.todo,
              NEW y \in DOMAIN groups[w.todo[j].parent], groups[w.todo[j].parent][y] = w.items[k]
       PROVE  FALSE
  <2>1. CASE k \in DOMAIN work.items /\ w.items[k] = work.items[k]
    BY <1>6, <1>12, <1>17, <2>1
  <2>2. CASE k - Len(work.items) \in DOMAIN more /\ w.items[k] = more[k - Len(work.items)]
    <3> DEFINE z == k - Len(work.items)
               g == w.todo[j].parent
               h == job.parent
    <3>1. g \in DOMAIN groups /\ y \in DOMAIN groups[g] /\ z \in DOMAIN groups[h]
            /\ h \in DOMAIN groups
      BY <1>7, <1>13, <2>2 DEF more
    <3>2. groups[g][y].id = groups[h][z].id
      BY <1>17, <2>2 DEF more
    <3> HIDE DEF g, h, z
    <3>3. g = h
      BY <1>4, <1>7, <3>1, <3>2 DEF SharesOut
    <3>4. j + 1 \in DOMAIN work.todo /\ work.todo[j + 1].parent = work.todo[1].parent
      BY <1>3, <1>12, <3>3 DEF g, h
    <3> QED BY <1>3, <1>6, <1>12, <3>4
  <2> QED BY <1>15, <2>1, <2>2
<1>18. /\ \A k \in DOMAIN work.items : k \in DOMAIN w.items /\ w.items[k] = work.items[k]
       /\ \A k \in DOMAIN more :
            /\ Len(work.items) + k \in DOMAIN w.items
            /\ w.items[Len(work.items) + k] = more[k]
  <2> DEFINE s == work.items
  <2>1. s \in Seq(TType) /\ more \in Seq(TType) /\ w.items = s \o more
    BY <1>8, <1>9
  <2> HIDE DEF s
  <2>2. /\ \A k \in DOMAIN s : k \in DOMAIN w.items /\ w.items[k] = s[k]
        /\ \A k \in DOMAIN more : /\ Len(s) + k \in DOMAIN w.items
                                  /\ w.items[Len(s) + k] = more[k]
    BY <2>1, ConcatLemma
  <2> QED BY <2>2 DEF s
<1>19. \A j \in DOMAIN work.todo :
         j = 1 \/ (j - 1 \in DOMAIN w.todo /\ w.todo[j - 1] = work.todo[j])
  BY <1>3, <1>9, TailLemma
<1>20. ASSUME NEW t \in all
       PROVE  \/ \E k \in DOMAIN w.items : w.items[k] = t
              \/ \E j \in DOMAIN w.todo : \E y \in DOMAIN groups[w.todo[j].parent] :
                   groups[w.todo[j].parent][y] = t
  <2>1. CASE \E k \in DOMAIN work.items : work.items[k] = t
    BY <1>8, <1>9, <2>1, ConcatLemma
  <2>2. CASE \E j \in DOMAIN work.todo : \E y \in DOMAIN groups[work.todo[j].parent] :
               groups[work.todo[j].parent][y] = t
    <3>1. PICK j \in DOMAIN work.todo : \E y \in DOMAIN groups[work.todo[j].parent] :
                 groups[work.todo[j].parent][y] = t
      BY <2>2
    <3>2. CASE j = 1
      <4>1. PICK y \in DOMAIN more : more[y] = t
        BY <1>3, <3>1, <3>2 DEF more
      <4> QED BY <1>18, <4>1
    <3>3. CASE j # 1
      <4>1. j - 1 \in DOMAIN w.todo /\ w.todo[j - 1] = work.todo[j]
        BY <1>19, <3>3
      <4> QED BY <3>1, <4>1
    <3> QED BY <3>2, <3>3
  <2> QED BY <1>6, <2>1, <2>2
<1>21. AcceptanceWork(draft, w)
  BY <1>11, <1>13, <1>14, <1>16, <1>17, <1>20 DEF AcceptanceWork, groups, all
<1> QED BY <1>9, <1>21 DEF WorkInv

-----------------------------------------------------------------------------
(* The local fast path *)

(* What a sequence of sets cites, and that it cites nothing excluded. *)
LEMMA CitedLemma ==
  ASSUME NEW s \in Seq(Refs)
  PROVE  /\ \A x : x \in Cited(s) <=> \E k \in DOMAIN s : x \in s[k]
         /\ Clean(s) <=> Cited(s) \cap Excluded = {}
         /\ Cited(s) \in Refs
<1>1. \A x : x \in Cited(s) <=> \E k \in DOMAIN s : x \in s[k]
  BY ToSetLemma DEF Cited
<1>2. Clean(s) <=> Cited(s) \cap Excluded = {}
  BY <1>1 DEF Clean
<1>3. \A k \in DOMAIN s : s[k] \subseteq Nat
  BY DEF Refs
<1> QED BY <1>1, <1>2, <1>3 DEF Refs

\* the smallest group, the first of those of one size
Smallest(groups, fits, i) ==
  /\ i \in fits
  /\ \A j \in fits : \/ Cardinality(groups[i]) < Cardinality(groups[j])
                     \/ Cardinality(groups[i]) = Cardinality(groups[j]) /\ i <= j

(* Of the groups that fit one is the smallest. *)
LEMMA SmallestLemma ==
  ASSUME NEW groups \in Seq(SUBSET Known), NEW fits \in SUBSET DOMAIN groups, fits # {}
  PROVE  \E i : Smallest(groups, fits, i)
<1> DEFINE c(i) == Cardinality(groups[i])
           sizes == {c(i) : i \in fits}
<1>1. fits \subseteq Nat /\ \A i \in fits : groups[i] \in SUBSET Known
  OBVIOUS
<1>2. \A i \in fits : c(i) \in Nat
  BY <1>1, KnownLemma, FS_Subset, FS_CardinalityType
<1>3. PICK i \in fits : \A j \in fits : c(i) <= c(j)
  <2>1. sizes \subseteq Nat /\ sizes # {}
    BY <1>2
  <2>2. PICK n \in sizes : \A m \in sizes : n <= m
    <3> HIDE DEF sizes
    <3> QED BY <2>1, LeastLemma
  <2>3. PICK i \in fits : n = c(i)
    BY <2>2
  <2> HIDE DEF c
  <2> QED BY <2>2, <2>3
<1> DEFINE least == {j \in fits : c(j) = c(i)}
<1> HIDE DEF c
<1>4. PICK k \in least : \A j \in least : k <= j
  <2>1. least \subseteq Nat /\ least # {}
    BY <1>1
  <2> HIDE DEF least
  <2> QED BY <2>1, LeastLemma
<1>5. ASSUME NEW j \in fits PROVE c(k) < c(j) \/ (c(k) = c(j) /\ k <= j)
  <2>1. c(k) = c(i) /\ c(i) \in Nat /\ c(j) \in Nat /\ c(i) <= c(j)
    BY <1>2, <1>3
  <2>2. CASE c(j) = c(i)
    BY <1>4, <2>1, <2>2
  <2>3. CASE c(j) # c(i)
    BY <2>1, <2>3
  <2> QED BY <2>2, <2>3
<1>6. Smallest(groups, fits, k)
  BY <1>5 DEF Smallest, c
<1> QED BY <1>6

(* A module over the target is not lost: it joins a group or makes one. *)
LEMMA PlacedLemma ==
  ASSUME NEW groups \in Seq(SUBSET Known), NEW refs \in SUBSET Known
  PROVE  /\ Place(groups, refs) \in Seq(SUBSET Known)
         /\ \A x : (\E k \in DOMAIN Place(groups, refs) : x \in Place(groups, refs)[k])
                     <=> (x \in refs \/ \E k \in DOMAIN groups : x \in groups[k])
<1> DEFINE fits == {i \in DOMAIN groups : Cardinality(groups[i] \cup refs) <= RefLimit}
<1>1. DOMAIN groups = 1..Len(groups) /\ Len(groups) \in Nat
  OBVIOUS
<1>2. CASE fits = {}
  <2>1. Place(groups, refs) = Append(groups, refs)
    BY <1>2 DEF Place
  <2>2. /\ Append(groups, refs) \in Seq(SUBSET Known)
        /\ DOMAIN Append(groups, refs) = 1..(Len(groups) + 1)
        /\ Append(groups, refs)[Len(groups) + 1] = refs
        /\ \A k \in 1..Len(groups) : Append(groups, refs)[k] = groups[k]
    BY <1>1
  <2>3. \A k \in 1..(Len(groups) + 1) : k \in 1..Len(groups) \/ k = Len(groups) + 1
    BY <1>1
  <2>4. Len(groups) + 1 \in 1..(Len(groups) + 1) /\ 1..Len(groups) \subseteq 1..(Len(groups) + 1)
    BY <1>1
  <2> QED BY <1>1, <2>1, <2>2, <2>3, <2>4
<1>3. CASE fits # {}
  <2> DEFINE least == CHOOSE i \in fits : \A j \in fits :
               \/ Cardinality(groups[i]) < Cardinality(groups[j])
               \/ Cardinality(groups[i]) = Cardinality(groups[j]) /\ i <= j
  <2>1. Place(groups, refs) = [groups EXCEPT ![least] = @ \cup refs]
    BY <1>3 DEF Place
  <2>2. least \in DOMAIN groups
    <3>1. PICK i : Smallest(groups, fits, i)
      <4>1. fits \in SUBSET DOMAIN groups
        OBVIOUS
      <4> HIDE DEF fits
      <4> QED BY <1>3, <4>1, SmallestLemma
    <3>2. least \in fits
      <4> HIDE DEF fits
      <4> QED BY <3>1 DEF Smallest
    <3> QED BY <3>2
  <2> HIDE DEF least, fits
  <2> DEFINE e(k) == IF k = least THEN groups[k] \cup refs ELSE groups[k]
  <2>3. Place(groups, refs) = [k \in 1..Len(groups) |-> e(k)]
    BY <1>1, <2>1
  <2>4. \A k \in 1..Len(groups) : e(k) \in SUBSET Known
    <3>1. \A k \in 1..Len(groups) : groups[k] \in SUBSET Known
      BY <1>1
    <3> QED BY <3>1
  <2>5. e(least) = groups[least] \cup refs /\ \A k \in 1..Len(groups) : k # least => e(k) = groups[k]
    OBVIOUS
  <2> HIDE DEF e
  <2>6. /\ Place(groups, refs) \in Seq(SUBSET Known)
        /\ DOMAIN Place(groups, refs) = 1..Len(groups)
        /\ \A k \in 1..Len(groups) : Place(groups, refs)[k] = e(k)
    BY <1>1, <2>3, <2>4
  <2> QED BY <1>1, <2>2, <2>5, <2>6
<1> QED BY <1>2, <1>3

(* The consolidated modules cite what the modules cited. *)
LEMMA ConsolidatedLemma ==
  ASSUME NEW modules \in Seq(SUBSET Known)
  PROVE  /\ Consolidated(modules) \in Seq(SUBSET Known)
         /\ \A x : (\E k \in DOMAIN Consolidated(modules) : x \in Consolidated(modules)[k])
                     <=> (\E k \in DOMAIN modules : x \in modules[k])
<1> DEFINE T == FastTarget
           L == Len(modules)
           n == L - T
           D == Seq(SUBSET Known)
<1>1. /\ T \in Nat \ {0} /\ L \in Nat /\ DOMAIN modules = 1..L
      /\ \A k \in 1..L : modules[k] \in SUBSET Known
  BY KnownLemma
<1>2. CASE L <= T
  BY <1>2 DEF Consolidated
<1>3. CASE ~ (L <= T)
  <2>1. n \in Nat /\ \A i \in 1..n : T + i \in 1..L
    BY <1>1, <1>3
  <2> DEFINE base == SubSeq(modules, 1, T)
             step == [i \in 1..n |-> [g \in D |-> Place(g, modules[T + i])]]
             groups == CHOOSE f : f = [m \in T..L |-> IF m = T THEN SubSeq(modules, 1, T)
                                                     ELSE Place(f[m - 1], modules[m])]
  <2>2. /\ base \in D /\ DOMAIN base = 1..T /\ \A k \in 1..T : base[k] = modules[k]
    <3>1. 1 \in 1..(L + 1) /\ T \in 0..L
      BY <1>1, <1>3
    <3>2. /\ SubSeq(modules, 1, T) \in Seq(SUBSET Known) /\ Len(SubSeq(modules, 1, T)) = T
          /\ \A k \in 1..T : SubSeq(modules, 1, T)[k] = modules[k]
      <4>1. 1 \in 1..(Len(modules) + 1) /\ T \in 0..Len(modules)
        BY <3>1
      <4>2. \A k \in 1..T : 1 + k - 1 = k
        BY <1>1
      <4> QED BY <1>1, <4>1, <4>2, SubSeqProperties
    <3> QED BY <3>2
  <2>3. step \in [1..n -> [D -> D]]
    <3>1. \A i \in 1..n : modules[T + i] \in SUBSET Known
      BY <1>1, <2>1
    <3>2. \A i \in 1..n : \A g \in D : Place(g, modules[T + i]) \in D
      BY <3>1, PlacedLemma
    <3> QED BY <3>2
  <2>4. PICK f \in [0..n -> D] : f[0] = base /\ \A i \in 1..n : f[i] = Place(f[i - 1], modules[T + i])
    <3> HIDE DEF D, base, n
    <3>1. PICK f : Iterates(f, n, D, base, step)
      <4> HIDE DEF step
      <4> QED BY <2>1, <2>2, <2>3, Recursion
    <3>2. \A i \in 1..n : i - 1 \in 0..n
      BY <2>1
    <3>3. f \in [0..n -> D] /\ f[0] = base
      BY <3>1 DEF Iterates
    <3>4. \A i \in 1..n : f[i] = step[i][f[i - 1]]
      BY <3>1 DEF Iterates
    <3>5. \A i \in 1..n : step[i][f[i - 1]] = Place(f[i - 1], modules[T + i])
      BY <3>2, <3>3
    <3> QED BY <3>3, <3>4, <3>5
  <2> HIDE DEF step
  <2> DEFINE h == [m \in T..L |-> f[m - T]]
  <2>5. h = [m \in T..L |-> IF m = T THEN base ELSE Place(h[m - 1], modules[m])]
    <3>1. \A m \in T..L : m # T => /\ m - T \in 1..n /\ T + (m - T) = m /\ m - 1 \in T..L
                                   /\ (m - T) - 1 = (m - 1) - T
      BY <1>1
    <3>2. ASSUME NEW m \in T..L, m # T PROVE h[m] = Place(h[m - 1], modules[m])
      <4>1. h[m] = f[m - T] /\ h[m - 1] = f[(m - T) - 1]
        BY <3>1, <3>2
      <4>2. f[m - T] = Place(f[(m - T) - 1], modules[T + (m - T)])
        BY <2>4, <3>1, <3>2
      <4> QED BY <3>1, <3>2, <4>1, <4>2
    <3>3. T \in T..L /\ T - T = 0
      BY <1>1, <1>3
    <3>4. h[T] = base
      BY <2>4, <3>3
    <3>5. \A m \in T..L : h[m] = IF m = T THEN base ELSE Place(h[m - 1], modules[m])
      <4> HIDE DEF h, base
      <4> QED BY <3>2, <3>4
    <3> HIDE DEF base, D
    <3>6. h = [m \in T..L |-> h[m]]
      OBVIOUS
    <3> HIDE DEF h
    <3> QED BY <3>5, <3>6
  <2>6. groups = [m \in T..L |-> IF m = T THEN base ELSE Place(groups[m - 1], modules[m])]
    <3> HIDE DEF h
    <3> QED BY <2>5
  <2>7. Consolidated(modules) = groups[L]
    BY <1>3 DEF Consolidated
  <2> HIDE DEF groups, base
  <2> DEFINE Has(m) == \A x : (\E k \in DOMAIN groups[m] : x \in groups[m][k])
                                <=> (\E k \in 1..m : x \in modules[k])
             S == {i \in 0..n : groups[T + i] \in D /\ Has(T + i)}
  <2>8. 0 \in S
    <3>1. T + 0 = T /\ T \in T..L
      BY <1>1, <1>3
    <3>2. groups[T] = base
      BY <2>6, <3>1
    <3>3. base \in D /\ \A x : (\E k \in DOMAIN base : x \in base[k])
                                <=> (\E k \in 1..T : x \in modules[k])
      BY <2>2
    <3>4. groups[T + 0] \in D /\ Has(T + 0)
      <4> HIDE DEF D
      <4> QED BY <3>1, <3>2, <3>3
    <3>5. 0 \in 0..n
      BY <2>1
    <3> HIDE DEF D, Has, n
    <3> QED BY <3>4, <3>5
  <2>9. ASSUME NEW i \in 0..n, i \in S, i < n PROVE i + 1 \in S
    <3> DEFINE m == T + (i + 1)
    <3>1. m \in T..L /\ m # T /\ m - 1 = T + i /\ m \in 1..L /\ i + 1 \in 0..n /\ m = (T + i) + 1
      BY <1>1, <2>1, <2>9
    <3>2. groups[m] = Place(groups[T + i], modules[m])
      BY <2>6, <3>1
    <3>3. groups[T + i] \in Seq(SUBSET Known) /\ modules[m] \in SUBSET Known
      BY <1>1, <2>9, <3>1
    <3>4. \A k : k \in 1..m <=> k = m \/ k \in 1..(T + i)
      BY <1>1, <3>1
    <3> HIDE DEF m
    <3> DEFINE g == groups[T + i]
               refs == modules[m]
    <3>5. g \in Seq(SUBSET Known) /\ refs \in SUBSET Known
      BY <3>3
    <3> HIDE DEF g, refs
    <3>6. /\ Place(g, refs) \in Seq(SUBSET Known)
           /\ \A x : (\E k \in DOMAIN Place(g, refs) : x \in Place(g, refs)[k])
                         <=> (x \in refs \/ \E k \in DOMAIN g : x \in g[k])
      BY <3>5, PlacedLemma
    <3>7. groups[m] = Place(g, refs)
      BY <3>2 DEF g, refs
    <3>8. groups[m] \in Seq(SUBSET Known) /\ \A x : (\E k \in DOMAIN groups[m] : x \in groups[m][k])
             <=> (x \in modules[m] \/ \E k \in DOMAIN groups[T + i] : x \in groups[T + i][k])
      BY <3>6, <3>7 DEF g, refs
    <3>9. \A x : (\E k \in DOMAIN groups[T + i] : x \in groups[T + i][k])
                                <=> (\E k \in 1..(T + i) : x \in modules[k])
      BY <2>9
    <3>10. Has(m)
      BY <3>4, <3>8, <3>9
    <3> QED BY <3>1, <3>8, <3>10 DEF m
  <2>10. n \in S
    <3> HIDE DEF S, n
    <3>1. \A i \in 0..n : i \in S /\ i < n => i + 1 \in S
      BY <2>9
    <3>2. \A i \in 0..n : i \in S
      BY <2>1, <2>8, <3>1, UpTo
    <3> QED BY <2>1, <3>2
  <2>11. T + n = L
    BY <1>1
  <2> QED BY <1>1, <2>7, <2>10, <2>11
<1> QED BY <1>2, <1>3

\* the requirements of the milestones' modules, milestone by milestone
Pair == Nat \X Known
PairsOf(d) ==
  FlattenSeq([k \in DOMAIN d.milestones |->
    [r \in DOMAIN Sorted(d.modules[d.milestones[k].module]) |->
       <<d.milestones[k].id, Sorted(d.modules[d.milestones[k].module])[r]>>]])

(* Every pair is of a milestone, and every fact of its module is paired. *)
LEMMA PairsLemma ==
  ASSUME NEW d \in DraftType, LinkedMilestones(d)
  PROVE  /\ PairsOf(d) \in Seq(Pair)
         /\ \A i \in DOMAIN PairsOf(d) : MilestoneId(d, PairsOf(d)[i][1])
         /\ \A s \in DOMAIN d.milestones : \A r \in d.modules[d.milestones[s].module] :
              \E i \in DOMAIN PairsOf(d) : PairsOf(d)[i][2] = r
<1> DEFINE n == Len(d.milestones)
           facts(k) == d.modules[d.milestones[k].module]
           refs(k) == Sorted(facts(k))
           part(k) == [r \in DOMAIN refs(k) |-> <<d.milestones[k].id, refs(k)[r]>>]
           ss == [k \in 1..n |-> part(k)]
           pairs == PairsOf(d)
<1>1. n \in Nat /\ DOMAIN d.milestones = 1..n /\ \A k \in 1..n : d.milestones[k].id \in Nat
  BY DraftLemma DEF MType
<1>2. \A k \in 1..n : facts(k) \in SUBSET Known
  BY <1>1, DraftLemma DEF LinkedMilestones
<1>3. pairs = FlattenSeq(ss)
  BY <1>1 DEF PairsOf
<1> HIDE DEF facts, pairs
<1>4. \A k \in 1..n : /\ refs(k) \in Seq(facts(k))
                      /\ \A r \in facts(k) : \E y \in 1..Len(refs(k)) : refs(k)[y] = r
  BY <1>2, SortedFacts
<1> HIDE DEF refs
<1>5. ASSUME NEW k \in 1..n
      PROVE  /\ part(k) \in Seq(Pair) /\ Len(part(k)) = Len(refs(k))
             /\ \A y \in 1..Len(refs(k)) : /\ part(k)[y][1] = d.milestones[k].id
                                           /\ part(k)[y][2] = refs(k)[y]
  <2> DEFINE e(y) == <<d.milestones[k].id, refs(k)[y]>>
  <2>1. DOMAIN refs(k) = 1..Len(refs(k)) /\ Len(refs(k)) \in Nat
        /\ \A y \in 1..Len(refs(k)) : refs(k)[y] \in Known
    BY <1>2, <1>4
  <2>2. \A y \in 1..Len(refs(k)) : /\ e(y) \in Pair /\ e(y)[1] = d.milestones[k].id
                                   /\ e(y)[2] = refs(k)[y]
    BY <1>1, <2>1 DEF Pair
  <2>3. part(k) = [y \in 1..Len(refs(k)) |-> e(y)]
    BY <2>1
  <2> HIDE DEF e, part
  <2> QED BY <2>1, <2>2, <2>3
<1> HIDE DEF part
<1>6. ss \in Seq(Seq(Pair)) /\ Len(ss) = n /\ \A k \in 1..n : ss[k] = part(k)
  BY <1>1, <1>5
<1> HIDE DEF ss
<1>7. pairs \in Seq(Pair) /\ \E a, b : Lists(pairs, ss, n, a, b)
  BY <1>3, <1>6, FlattenLemma
<1>8. PICK a, b : Lists(pairs, ss, n, a, b)
  BY <1>7
<1>9. DOMAIN pairs = 1..Len(pairs)
  BY <1>7
<1>10. ASSUME NEW i \in DOMAIN pairs PROVE MilestoneId(d, pairs[i][1])
  <2>1. a[i] \in 1..n /\ b[i] \in 1..Len(part(a[i])) /\ pairs[i] = part(a[i])[b[i]]
    BY <1>6, <1>8, <1>9 DEF Lists
  <2>2. pairs[i][1] = d.milestones[a[i]].id
    BY <1>5, <2>1
  <2> QED BY <1>1, <2>1, <2>2 DEF MilestoneId
<1>11. ASSUME NEW s \in 1..n, NEW r \in facts(s)
       PROVE  \E i \in DOMAIN pairs : pairs[i][2] = r
  <2>1. PICK y \in 1..Len(refs(s)) : refs(s)[y] = r
    BY <1>4
  <2>2. y \in 1..Len(ss[s])
    BY <1>5, <1>6
  <2>3. PICK i \in 1..Len(pairs) : a[i] = s /\ b[i] = y
    BY <1>8, <2>2 DEF Lists
  <2>4. pairs[i] = part(s)[y]
    BY <1>6, <1>8, <2>3 DEF Lists
  <2> QED BY <1>5, <1>9, <2>1, <2>3, <2>4
<1> QED BY <1>1, <1>7, <1>10, <1>11 DEF pairs, facts

\* a task for the requirement of a pair that has none yet
AddTask(ts, p) ==
  IF p[2] \notin Requirements \/ \E k \in DOMAIN ts : ts[k].refs = {p[2]}
  THEN ts
  ELSE Append(ts, [id |-> Len(ts) + 1, milestone |-> p[1], refs |-> {p[2]}])

\* the tasks of the first n pairs
Local(d, ts, n) ==
  /\ ts \in Seq(TType)
  /\ \A k \in DOMAIN ts : /\ ts[k].id = k /\ MilestoneId(d, ts[k].milestone)
                          /\ ts[k].refs \subseteq Requirements
  /\ \A i \in 1..n : PairsOf(d)[i][2] \in Requirements =>
       \E k \in DOMAIN ts : ts[k].refs = {PairsOf(d)[i][2]}

(* The next pair leaves its requirement with a task. *)
LEMMA AddTaskLemma ==
  ASSUME NEW d \in DraftType, LinkedMilestones(d), NEW n \in Nat,
         n + 1 \in DOMAIN PairsOf(d), NEW ts, Local(d, ts, n)
  PROVE  Local(d, AddTask(ts, PairsOf(d)[n + 1]), n + 1)
<1> DEFINE p == PairsOf(d)[n + 1]
           new == [id |-> Len(ts) + 1, milestone |-> p[1], refs |-> {p[2]}]
           f == p[2]
           own == {f}
<1>1. p[1] \in Nat /\ f \in Known /\ MilestoneId(d, p[1])
  <2>1. p \in Pair
    BY PairsLemma
  <2> QED BY <2>1, PairsLemma DEF Pair
<1>2. ts \in Seq(TType) /\ Len(ts) \in Nat /\ DOMAIN ts = 1..Len(ts)
  BY DEF Local
<1>3. \A i \in 1..(n + 1) : i \in 1..n \/ i = n + 1
  OBVIOUS
<1>4. /\ \A k \in DOMAIN ts : /\ ts[k].id = k /\ MilestoneId(d, ts[k].milestone)
                              /\ ts[k].refs \subseteq Requirements
      /\ \A i \in 1..n : PairsOf(d)[i][2] \in Requirements =>
           \E k \in DOMAIN ts : ts[k].refs = {PairsOf(d)[i][2]}
  BY DEF Local
<1>5. AddTask(ts, p) = IF f \notin Requirements \/ \E k \in DOMAIN ts : ts[k].refs = own
                       THEN ts ELSE Append(ts, new)
  BY DEF AddTask
<1>6. new \in TType /\ new.id = Len(ts) + 1 /\ new.milestone = p[1] /\ new.refs = own
  <2>1. own \in Refs
    BY <1>1, KnownLemma DEF Refs
  <2> QED BY <1>1, <1>2, <2>1 DEF TType
<1>7. own = {PairsOf(d)[n + 1][2]} /\ f = PairsOf(d)[n + 1][2] /\ (f \in Requirements => own \subseteq Requirements)
  OBVIOUS
<1>8. CASE f \notin Requirements \/ \E k \in DOMAIN ts : ts[k].refs = own
  <2>1. AddTask(ts, p) = ts
    BY <1>5, <1>8
  <2>2. \A i \in 1..(n + 1) : PairsOf(d)[i][2] \in Requirements =>
           \E k \in DOMAIN ts : ts[k].refs = {PairsOf(d)[i][2]}
    <3> TAKE i \in 1..(n + 1)
    <3>1. CASE i \in 1..n
      BY <1>4, <3>1
    <3>2. CASE i = n + 1
      <4> HIDE DEF own, f
      <4> QED BY <1>7, <1>8, <3>2
    <3> QED BY <1>3, <3>1, <3>2
  <2> QED BY <1>2, <1>4, <2>1, <2>2 DEF Local
<1>9. CASE ~ (f \notin Requirements \/ \E k \in DOMAIN ts : ts[k].refs = own)
  <2> HIDE DEF new, own
  <2>1. AddTask(ts, p) = Append(ts, new)
    BY <1>5, <1>9
  <2> DEFINE us == Append(ts, new)
  <2>2. /\ us \in Seq(TType) /\ DOMAIN us = 1..(Len(ts) + 1) /\ us[Len(ts) + 1] = new
        /\ \A k \in DOMAIN ts : k \in DOMAIN us /\ us[k] = ts[k]
        /\ Len(ts) + 1 \in DOMAIN us
        /\ \A k \in DOMAIN us : k \in DOMAIN ts \/ k = Len(ts) + 1
    BY <1>2, <1>6
  <2> HIDE DEF us
  <2>3. ASSUME NEW k \in DOMAIN us
        PROVE  /\ us[k].id = k /\ MilestoneId(d, us[k].milestone) /\ us[k].refs \subseteq Requirements
    <3>1. CASE k \in DOMAIN ts
      BY <1>4, <2>2, <3>1
    <3>2. CASE k = Len(ts) + 1
      BY <1>1, <1>6, <1>7, <1>9, <2>2, <3>2
    <3> QED BY <2>2, <3>1, <3>2
  <2>4. ASSUME NEW i \in 1..(n + 1), PairsOf(d)[i][2] \in Requirements
        PROVE  \E k \in DOMAIN us : us[k].refs = {PairsOf(d)[i][2]}
    <3>1. CASE i \in 1..n
      <4>1. PICK k \in DOMAIN ts : ts[k].refs = {PairsOf(d)[i][2]}
        BY <1>4, <2>4, <3>1
      <4> QED BY <2>2, <4>1
    <3>2. CASE i = n + 1
      <4>1. us[Len(ts) + 1].refs = own
        BY <1>6, <2>2
      <4> QED BY <1>7, <2>2, <3>2, <4>1
    <3> QED BY <1>3, <3>1, <3>2
  <2>5. Local(d, us, n + 1)
    BY <2>2, <2>3, <2>4 DEF Local
  <2> QED BY <2>1, <2>5 DEF us
<1> QED BY <1>8, <1>9

(* The local tasks: one for every requirement of a milestone's module. *)
LEMMA LocalTasksLemma ==
  ASSUME draft \in DraftType, LinkedMilestones(draft)
  PROVE  Local(draft, LocalTasks, Len(PairsOf(draft)))
<1> DEFINE pairs == PairsOf(draft)
           n == Len(pairs)
           D == Seq(TType)
           step == [i \in 1..n |-> [ts \in D |-> AddTask(ts, pairs[i])]]
           tasks == CHOOSE f : f = [m \in 0..n |-> IF m = 0 THEN <<>>
                                                   ELSE AddTask(f[m - 1], pairs[m])]
<1>1. pairs \in Seq(Pair) /\ DOMAIN pairs = 1..n /\ n \in Nat
  BY PairsLemma
<1>2. LocalTasks = tasks[n]
  BY DEF LocalTasks, PairsOf, AddTask
<1> HIDE DEF pairs, n
<1>3. step \in [1..n -> [D -> D]]
  <2>1. ASSUME NEW i \in 1..n, NEW ts \in D PROVE AddTask(ts, pairs[i]) \in D
    <3>1. pairs[i][1] \in Nat /\ {pairs[i][2]} \in Refs
      <4>1. pairs[i] \in Pair
        BY <1>1
      <4> QED BY <4>1, KnownLemma DEF Pair, Refs
    <3> DEFINE new == [id |-> Len(ts) + 1, milestone |-> pairs[i][1], refs |-> {pairs[i][2]}]
    <3>2. new \in TType
      BY <3>1 DEF TType
    <3>3. AddTask(ts, pairs[i]) \in {ts, Append(ts, new)}
      BY DEF AddTask
    <3> HIDE DEF new
    <3> QED BY <3>2, <3>3
  <2> HIDE DEF D
  <2> QED BY <2>1
<1>4. PICK f \in [0..n -> D] : f[0] = <<>> /\ \A i \in 1..n : f[i] = AddTask(f[i - 1], pairs[i])
  <2>1. <<>> \in D
    OBVIOUS
  <2> DEFINE base == <<>>
  <2> HIDE DEF D, base
  <2>2. PICK f : Iterates(f, n, D, base, step)
    <3> HIDE DEF step
    <3> QED BY <1>1, <1>3, <2>1, Recursion DEF base
  <2>3. f \in [0..n -> D] /\ f[0] = base /\ \A i \in 1..n : f[i] = step[i][f[i - 1]]
    BY <2>2 DEF Iterates
  <2>4. \A i \in 1..n : step[i][f[i - 1]] = AddTask(f[i - 1], pairs[i])
    <3>1. \A i \in 1..n : i - 1 \in 0..n
      BY <1>1
    <3> QED BY <2>3, <3>1
  <2> QED BY <2>3, <2>4 DEF base
<1>5. tasks = [m \in 0..n |-> IF m = 0 THEN <<>> ELSE AddTask(tasks[m - 1], pairs[m])]
  <2>1. \A m \in 0..n : f[m] = IF m = 0 THEN <<>> ELSE AddTask(f[m - 1], pairs[m])
    <3>1. \A m \in 0..n : m = 0 \/ m \in 1..n
      BY <1>1
    <3> QED BY <1>4, <3>1
  <2>2. f = [m \in 0..n |-> f[m]]
    OBVIOUS
  <2>3. f = [m \in 0..n |-> IF m = 0 THEN <<>> ELSE AddTask(f[m - 1], pairs[m])]
    <3> HIDE DEF D
    <3> QED BY <2>1, <2>2
  <2> QED BY <2>3
<1> HIDE DEF tasks, D, step
<1> DEFINE S == {i \in 0..n : Local(draft, tasks[i], i)}
<1>6. 0 \in S
  <2>1. tasks[0] = <<>> /\ 0 \in 0..n
    BY <1>1, <1>5
  <2>2. Local(draft, <<>>, 0)
    BY DEF Local
  <2> QED BY <2>1, <2>2
<1>7. ASSUME NEW i \in 0..n, i \in S, i < n PROVE i + 1 \in S
  <2>1. i + 1 \in 0..n /\ i + 1 # 0 /\ (i + 1) - 1 = i /\ i \in Nat /\ i + 1 \in DOMAIN pairs
    BY <1>1, <1>7
  <2>2. tasks[i + 1] = AddTask(tasks[i], pairs[i + 1])
    BY <1>5, <2>1
  <2>3. Local(draft, tasks[i], i)
    BY <1>7
  <2>4. Local(draft, AddTask(tasks[i], pairs[i + 1]), i + 1)
    BY <2>1, <2>3, AddTaskLemma DEF pairs
  <2> QED BY <2>1, <2>2, <2>4
<1>8. n \in S
  <2> HIDE DEF S
  <2>1. \A i \in 0..n : i \in S /\ i < n => i + 1 \in S
    BY <1>7
  <2>2. \A i \in 0..n : i \in S
    BY <1>1, <1>6, <2>1, UpTo
  <2> QED BY <1>1, <2>2
<1> QED BY <1>2, <1>8 DEF n, pairs

-----------------------------------------------------------------------------
(* The output of a node *)

(* What the handler leaves, node by node, is a draft. *)
LEMMA OutputType ==
  ASSUME draft \in DraftType
  PROVE  /\ \A x \in Seq(Refs) : /\ [draft EXCEPT !.questions = x] \in DraftType
                                 /\ [draft EXCEPT !.edges = x] \in DraftType
                                 /\ [draft EXCEPT !.risks = x] \in DraftType
         /\ \A x \in Refs : [draft EXCEPT !.analysis = x] \in DraftType
         /\ \A x \in Seq(SUBSET Known) : [draft EXCEPT !.modules = x] \in DraftType
         /\ \A x \in Seq(MType) : [draft EXCEPT !.milestones = x] \in DraftType
         /\ \A x \in Seq(TType) : [draft EXCEPT !.tasks = x] \in DraftType
BY DEF DraftType

(* The modules of the draft: those of the answer, or the consolidated ones. *)
LEMMA ModulesOutput ==
  ASSUME NEW s \in Seq(Refs), Clean(s), \A k \in DOMAIN s : s[k] \subseteq Known,
         Requirements \subseteq Cited(s)
  PROVE  LET out == IF Fast THEN Consolidated(s) ELSE s
         IN out \in Seq(SUBSET Known) /\ Clean(out) /\ Requirements \subseteq Cited(out)
<1> DEFINE out == IF Fast THEN Consolidated(s) ELSE s
<1>1. s \in Seq(SUBSET Known)
  <2>1. DOMAIN s = 1..Len(s) /\ Len(s) \in Nat /\ s = [k \in 1..Len(s) |-> s[k]]
    OBVIOUS
  <2>2. \A k \in 1..Len(s) : s[k] \in SUBSET Known
    BY <2>1
  <2> QED BY <2>1, <2>2
<1>2. /\ out \in Seq(SUBSET Known)
      /\ \A x : (\E k \in DOMAIN out : x \in out[k]) <=> (\E k \in DOMAIN s : x \in s[k])
  BY <1>1, ConsolidatedLemma
<1>3. \A t \in Seq(SUBSET Known) : t \in Seq(Refs)
  <2>1. SUBSET Known \subseteq Refs
    BY KnownLemma DEF Refs
  <2> QED BY <2>1
<1> HIDE DEF out
<1>4. \A x : x \in Cited(out) <=> x \in Cited(s)
  BY <1>2, <1>3, CitedLemma
<1>5. Clean(out) /\ Requirements \subseteq Cited(out)
  <2>1. /\ Clean(s) <=> Cited(s) \cap Excluded = {}
        /\ Clean(out) <=> Cited(out) \cap Excluded = {}
    BY <1>2, <1>3, CitedLemma
  <2> QED BY <1>4, <2>1
<1> QED BY <1>2, <1>5 DEF out

(* The milestones of the draft are linked to its modules, one at least to each. *)
LEMMA MilestonesOutput ==
  ASSUME PlanInv, at = 4, work.todo = <<>>
  PROVE  LET out == IF Fast THEN LocalMilestones ELSE work.items
         IN  /\ out \in Seq(MType) /\ Distinct(out)
             /\ \A k \in DOMAIN out : out[k].module \in DOMAIN draft.modules
             /\ \A m \in DOMAIN draft.modules : \E s \in DOMAIN out : out[s].module = m
<1> DEFINE n == Len(draft.modules)
<1>1. draft \in DraftType /\ work \in WorkType(4) /\ WorkInv(4, draft, work)
  BY DEF PlanInv, TypeInv
<1>2. n \in Nat /\ DOMAIN draft.modules = 1..n
  BY <1>1, DraftLemma
<1>3. CASE Fast
  <2> DEFINE e(k) == [id |-> k, module |-> k]
  <2>1. LocalMilestones = [k \in 1..n |-> e(k)]
    BY <1>2 DEF LocalMilestones
  <2>2. \A k \in 1..n : e(k) \in MType /\ e(k).id = k /\ e(k).module = k
    BY <1>2 DEF MType
  <2> HIDE DEF e, n
  <2>3. /\ LocalMilestones \in Seq(MType) /\ DOMAIN LocalMilestones = 1..n
        /\ \A k \in 1..n : LocalMilestones[k].id = k /\ LocalMilestones[k].module = k
    BY <1>2, <2>1, <2>2
  <2>4. Distinct(LocalMilestones)
    BY <2>3 DEF Distinct
  <2> QED BY <1>2, <1>3, <2>3, <2>4
<1>4. CASE ~ Fast
  <2>1. MilestonesWork(draft, work) /\ work.items \in Seq(MType)
    BY <1>1, <1>4 DEF WorkInv, WorkType, ItemType
  <2>2. DOMAIN work.todo = {}
    OBVIOUS
  <2> QED BY <1>4, <2>1, <2>2 DEF MilestonesWork, Numbered
<1> QED BY <1>3, <1>4

(* The tasks of the draft are linked to its milestones, every requirement has *)
(* one of its own, and on the model path so has every milestone.              *)
LEMMA TasksOutput ==
  ASSUME PlanInv, at = 5, work.todo = <<>>
  PROVE  LET out == IF Fast THEN LocalTasks ELSE work.items
         IN  /\ out \in Seq(TType) /\ Distinct(out)
             /\ \A k \in DOMAIN out :
                  MilestoneId(draft, out[k].milestone) /\ out[k].refs \cap Excluded = {}
             /\ \A r \in Requirements : \E k \in DOMAIN out : out[k].refs = {r}
             /\ ~ Fast => \A s \in DOMAIN draft.milestones :
                            \E k \in DOMAIN out : out[k].milestone = draft.milestones[s].id
<1> DEFINE Paired(r) == \E s \in DOMAIN draft.milestones :
                          r \in draft.modules[draft.milestones[s].module]
<1>1. draft \in DraftType /\ work \in WorkType(5) /\ WorkInv(5, draft, work) /\ DraftInv(5, draft)
  BY DEF PlanInv, TypeInv
<1>2. ASSUME NEW r \in Requirements PROVE Paired(r)
  <2>1. r \in Cited(draft.modules) /\ draft.modules \in Seq(Refs)
    <3>1. draft.modules \in Seq(SUBSET Known)
      BY <1>1, DraftLemma
    <3>2. SUBSET Known \subseteq Refs
      BY KnownLemma DEF Refs
    <3> QED BY <1>1, <3>1, <3>2 DEF DraftInv
  <2>2. PICK m \in DOMAIN draft.modules : r \in draft.modules[m]
    BY <2>1, CitedLemma
  <2>3. PICK s \in DOMAIN draft.milestones : draft.milestones[s].module = m
    BY <1>1 DEF DraftInv
  <2> QED BY <2>2, <2>3
<1>3. CASE Fast
  <2> DEFINE pairs == PairsOf(draft)
  <2>1. LinkedMilestones(draft)
    BY <1>1 DEF DraftInv
  <2>2. Local(draft, LocalTasks, Len(pairs))
    BY <1>1, <2>1, LocalTasksLemma
  <2>3. DOMAIN pairs = 1..Len(pairs)
    BY <1>1, <2>1, PairsLemma
  <2>4. LocalTasks \in Seq(TType) /\ \A k \in DOMAIN LocalTasks :
          /\ LocalTasks[k].id = k /\ MilestoneId(draft, LocalTasks[k].milestone)
          /\ LocalTasks[k].refs \cap Excluded = {}
    BY <2>2, KnownLemma DEF Local
  <2>5. Distinct(LocalTasks)
    BY <2>4 DEF Distinct
  <2>6. ASSUME NEW r \in Requirements PROVE \E k \in DOMAIN LocalTasks : LocalTasks[k].refs = {r}
    <3>1. PICK s \in DOMAIN draft.milestones : r \in draft.modules[draft.milestones[s].module]
      BY <1>2
    <3>2. PICK i \in DOMAIN pairs : pairs[i][2] = r
      BY <1>1, <2>1, <3>1, PairsLemma
    <3> QED BY <2>2, <2>3, <3>2 DEF Local
  <2> QED BY <1>3, <2>4, <2>5, <2>6
<1>4. CASE ~ Fast
  <2>1. TasksWork(draft, work) /\ work.items \in Seq(TType)
    BY <1>1, <1>4 DEF WorkInv, WorkType, ItemType
  <2>2. DOMAIN work.todo = {}
    OBVIOUS
  <2>3. ASSUME NEW r \in Requirements PROVE \E k \in DOMAIN work.items : work.items[k].refs = {r}
    BY <1>2, <2>1, <2>2 DEF TasksWork
  <2> QED BY <1>4, <2>1, <2>2, <2>3 DEF TasksWork, Numbered
<1> QED BY <1>3, <1>4

(* The acceptance pass returns the tasks it was given. *)
LEMMA AcceptanceOutput ==
  ASSUME PlanInv, at = 6, work.todo = <<>>
  PROVE  LET out == IF Fast THEN draft.tasks ELSE work.items
         IN  /\ out \in Seq(TType) /\ Distinct(out)
             /\ \A k \in DOMAIN out : \E j \in DOMAIN draft.tasks : draft.tasks[j] = out[k]
             /\ \A j \in DOMAIN draft.tasks : \E k \in DOMAIN out : out[k] = draft.tasks[j]
<1>1. draft \in DraftType /\ work \in WorkType(6) /\ WorkInv(6, draft, work) /\ DraftInv(6, draft)
  BY DEF PlanInv, TypeInv
<1>2. draft.tasks \in Seq(TType) /\ Distinct(draft.tasks)
  BY <1>1, DraftLemma DEF DraftInv, LinkedTasks
<1>3. CASE Fast
  BY <1>2, <1>3
<1>4. CASE ~ Fast
  <2>1. AcceptanceWork(draft, work) /\ work.items \in Seq(TType) /\ DOMAIN work.todo = {}
    BY <1>1, <1>4 DEF WorkInv, WorkType, ItemType
  <2>2. /\ Distinct(work.items)
        /\ \A k \in DOMAIN work.items : work.items[k] \in ToSet(draft.tasks)
        /\ \A t \in ToSet(draft.tasks) : \E k \in DOMAIN work.items : work.items[k] = t
    BY <2>1 DEF AcceptanceWork
  <2> QED BY <1>2, <1>4, <2>1, <2>2, ToSetLemma
<1> QED BY <1>3, <1>4

(* What does not touch the modules, the milestones and the tasks keeps the draft *)
(* in order.                                                                     *)
LEMMA OtherOutput ==
  ASSUME NEW n \in 1..8, n \notin {3, 4, 5}, NEW d, NEW e, DraftInv(n, d),
         e.modules = d.modules, e.milestones = d.milestones, e.tasks = d.tasks,
         e.analysis \cap Excluded = {}, Clean(e.questions), Clean(e.risks)
  PROVE  DraftInv(n + 1, e)
<1>1. LinkedMilestones(e) /\ LinkedTasks(e) /\ Clean(e.modules)
  BY DEF DraftInv, LinkedMilestones, LinkedTasks, MilestoneId
<1>2. n + 1 <= 4 <=> n <= 4
  OBVIOUS
<1>3. n + 1 <= 5 <=> n <= 5
  OBVIOUS
<1>4. (n + 1 > 3 <=> n > 3) /\ (n + 1 > 4 <=> n > 4) /\ (n + 1 > 5 <=> n > 5)
  OBVIOUS
<1>5. /\ n <= 4 => e.milestones = <<>>
      /\ n <= 5 => e.tasks = <<>>
      /\ n > 3 => Requirements \subseteq Cited(e.modules)
      /\ n > 4 => \A m \in DOMAIN e.modules :
                    \E s \in DOMAIN e.milestones : e.milestones[s].module = m
  BY DEF DraftInv
<1>6. n > 5 => \A r \in Requirements : \E k \in DOMAIN e.tasks : e.tasks[k].refs = {r}
  <2>1. n > 5 => \A r \in Requirements : \E k \in DOMAIN d.tasks : d.tasks[k].refs = {r}
    BY DEF DraftInv
  <2> QED BY <2>1
<1>7. n > 5 /\ ~ Fast => \A s \in DOMAIN e.milestones :
                \E k \in DOMAIN e.tasks : e.tasks[k].milestone = e.milestones[s].id
  <2>1. n > 5 /\ ~ Fast => \A s \in DOMAIN d.milestones :
                \E k \in DOMAIN d.tasks : d.tasks[k].milestone = d.milestones[s].id
    BY DEF DraftInv
  <2> QED BY <2>1
<1> QED BY <1>1, <1>2, <1>3, <1>4, <1>5, <1>6, <1>7 DEF DraftInv

(* A node that is done hands a draft on that keeps the invariant. *)
LEMMA OutputLemma ==
  ASSUME PlanInv, at \in 1..8, work.todo = <<>>
  PROVE  Output \in DraftType /\ DraftInv(at + 1, Output)
<1>1. draft \in DraftType /\ work \in WorkType(at) /\ WorkInv(at, draft, work) /\ DraftInv(at, draft)
  BY DEF PlanInv, TypeInv
<1>2. work.items \in Seq(ItemType(at))
  BY <1>1 DEF WorkType
<1>3. at \in {1, 2, 3, 7, 8} => work.items \in Seq(Refs)
  BY <1>2 DEF ItemType
<1>4. CASE at = 1
  <2>1. Output = [draft EXCEPT !.questions = work.items]
    BY <1>4, NodesLemma DEF Output, Node
  <2>2. Output \in DraftType
    BY <1>1, <1>3, <1>4, <2>1, OutputType
  <2>3. Clean(work.items)
    BY <1>1, <1>4 DEF WorkInv
  <2>4. /\ Output.questions = work.items /\ Output.analysis = draft.analysis
        /\ Output.modules = draft.modules /\ Output.milestones = draft.milestones
        /\ Output.tasks = draft.tasks /\ Output.risks = draft.risks
    BY <1>1, <2>1 DEF DraftType
  <2> DEFINE o == Output
  <2> HIDE DEF o
  <2>9. /\ o.modules = draft.modules /\ o.milestones = draft.milestones /\ o.tasks = draft.tasks
        /\ o.analysis \cap Excluded = {} /\ Clean(o.questions) /\ Clean(o.risks)
    BY <1>1, <2>3, <2>4 DEF DraftInv, o
  <2>10. DraftInv(at + 1, o)
    BY <1>1, <1>4, <2>9, OtherOutput
  <2> QED BY <2>2, <2>10 DEF o
<1>5. CASE at = 2
  <2>1. Output = [draft EXCEPT !.analysis = Cited(work.items)]
    BY <1>5, NodesLemma DEF Output, Node
  <2>2. Clean(work.items)
    BY <1>1, <1>5 DEF WorkInv
  <2>3. Cited(work.items) \in Refs /\ Cited(work.items) \cap Excluded = {}
    BY <1>3, <1>5, <2>2, CitedLemma
  <2>4. Output \in DraftType
    BY <1>1, <2>1, <2>3, OutputType
  <2>5. /\ Output.questions = draft.questions /\ Output.analysis = Cited(work.items)
        /\ Output.modules = draft.modules /\ Output.milestones = draft.milestones
        /\ Output.tasks = draft.tasks /\ Output.risks = draft.risks
    BY <1>1, <2>1 DEF DraftType
  <2> DEFINE o == Output
  <2> HIDE DEF o
  <2>9. /\ o.modules = draft.modules /\ o.milestones = draft.milestones /\ o.tasks = draft.tasks
        /\ o.analysis \cap Excluded = {} /\ Clean(o.questions) /\ Clean(o.risks)
    BY <1>1, <2>3, <2>5 DEF DraftInv, o
  <2>10. DraftInv(at + 1, o)
    BY <1>1, <1>5, <2>9, OtherOutput
  <2> QED BY <2>2, <2>4, <2>10 DEF o
<1>6. CASE at = 3
  <2> DEFINE out == IF Fast THEN Consolidated(work.items) ELSE work.items
  <2>1. Output = [draft EXCEPT !.modules = out]
    BY <1>6, NodesLemma DEF Output, Node
  <2>2. ModulesWork(work)
    BY <1>1, <1>6 DEF WorkInv
  <2>3. out \in Seq(SUBSET Known) /\ Clean(out) /\ Requirements \subseteq Cited(out)
    BY <1>3, <1>6, <2>2, ModulesOutput DEF ModulesWork
  <2> HIDE DEF out
  <2>4. Output \in DraftType
    BY <1>1, <2>1, <2>3, OutputType
  <2>5. /\ Output.questions = draft.questions /\ Output.analysis = draft.analysis
        /\ Output.modules = out /\ Output.milestones = draft.milestones
        /\ Output.tasks = draft.tasks /\ Output.risks = draft.risks
    BY <1>1, <2>1 DEF DraftType
  <2>6. draft.milestones = <<>> /\ draft.tasks = <<>>
    BY <1>1, <1>6 DEF DraftInv
  <2>7. LinkedMilestones(Output) /\ LinkedTasks(Output)
    BY <2>5, <2>6 DEF LinkedMilestones, LinkedTasks, Distinct
  <2> QED BY <1>1, <1>6, <2>3, <2>4, <2>5, <2>6, <2>7 DEF DraftInv
<1>7. CASE at = 4
  <2> DEFINE out == IF Fast THEN LocalMilestones ELSE work.items
  <2>1. Output = [draft EXCEPT !.milestones = out]
    BY <1>7, NodesLemma DEF Output, Node
  <2>2. /\ out \in Seq(MType) /\ Distinct(out)
        /\ \A k \in DOMAIN out : out[k].module \in DOMAIN draft.modules
        /\ \A m \in DOMAIN draft.modules : \E s \in DOMAIN out : out[s].module = m
    BY <1>7, MilestonesOutput
  <2> HIDE DEF out
  <2>3. Output \in DraftType
    BY <1>1, <2>1, <2>2, OutputType
  <2>4. /\ Output.questions = draft.questions /\ Output.analysis = draft.analysis
        /\ Output.modules = draft.modules /\ Output.milestones = out
        /\ Output.tasks = draft.tasks /\ Output.risks = draft.risks
    BY <1>1, <2>1 DEF DraftType
  <2>5. draft.tasks = <<>>
    BY <1>1, <1>7 DEF DraftInv
  <2>6. LinkedMilestones(Output) /\ LinkedTasks(Output)
    BY <2>2, <2>4, <2>5 DEF LinkedMilestones, LinkedTasks, Distinct
  <2>7. \A m \in DOMAIN Output.modules :
          \E s \in DOMAIN Output.milestones : Output.milestones[s].module = m
    BY <2>2, <2>4
  <2> QED BY <1>1, <1>7, <2>3, <2>4, <2>5, <2>6, <2>7 DEF DraftInv
<1>8. CASE at = 5
  <2> DEFINE out == IF Fast THEN LocalTasks ELSE work.items
  <2>1. Output = [draft EXCEPT !.tasks = out]
    BY <1>8, NodesLemma DEF Output, Node
  <2>2. /\ out \in Seq(TType) /\ Distinct(out)
        /\ \A k \in DOMAIN out :
             MilestoneId(draft, out[k].milestone) /\ out[k].refs \cap Excluded = {}
        /\ \A r \in Requirements : \E k \in DOMAIN out : out[k].refs = {r}
        /\ ~ Fast => \A s \in DOMAIN draft.milestones :
                       \E k \in DOMAIN out : out[k].milestone = draft.milestones[s].id
    BY <1>8, TasksOutput
  <2> HIDE DEF out
  <2>3. Output \in DraftType
    BY <1>1, <2>1, <2>2, OutputType
  <2>4. /\ Output.questions = draft.questions /\ Output.analysis = draft.analysis
        /\ Output.modules = draft.modules /\ Output.milestones = draft.milestones
        /\ Output.tasks = out /\ Output.risks = draft.risks
    BY <1>1, <2>1 DEF DraftType
  <2>5. LinkedMilestones(Output) /\ LinkedTasks(Output)
    BY <1>1, <2>2, <2>4 DEF DraftInv, LinkedMilestones, LinkedTasks, MilestoneId
  <2>6. \A r \in Requirements : \E k \in DOMAIN Output.tasks : Output.tasks[k].refs = {r}
    BY <2>2, <2>4
  <2>7. ~ Fast => \A s \in DOMAIN Output.milestones :
          \E k \in DOMAIN Output.tasks : Output.tasks[k].milestone = Output.milestones[s].id
    BY <2>2, <2>4
  <2>8. /\ Clean(Output.questions) /\ Clean(Output.modules) /\ Clean(Output.risks)
        /\ Output.analysis \cap Excluded = {} /\ Requirements \subseteq Cited(Output.modules)
        /\ \A m \in DOMAIN Output.modules :
             \E s \in DOMAIN Output.milestones : Output.milestones[s].module = m
    BY <1>1, <1>8, <2>4 DEF DraftInv
  <2>9. at + 1 = 6
    BY <1>8
  <2> HIDE DEF Output
  <2> QED BY <2>3, <2>5, <2>6, <2>7, <2>8, <2>9 DEF DraftInv
<1>9. CASE at = 6
  <2> DEFINE out == IF Fast THEN draft.tasks ELSE work.items
  <2>1. Output = [draft EXCEPT !.tasks = out]
    BY <1>9, NodesLemma DEF Output, Node
  <2>2. /\ out \in Seq(TType) /\ Distinct(out)
        /\ \A k \in DOMAIN out : \E j \in DOMAIN draft.tasks : draft.tasks[j] = out[k]
        /\ \A j \in DOMAIN draft.tasks : \E k \in DOMAIN out : out[k] = draft.tasks[j]
    BY <1>9, AcceptanceOutput
  <2> HIDE DEF out
  <2>3. Output \in DraftType
    BY <1>1, <2>1, <2>2, OutputType
  <2>4. /\ Output.questions = draft.questions /\ Output.analysis = draft.analysis
        /\ Output.modules = draft.modules /\ Output.milestones = draft.milestones
        /\ Output.tasks = out /\ Output.risks = draft.risks
    BY <1>1, <2>1 DEF DraftType
  <2>5. LinkedMilestones(Output) /\ LinkedTasks(Output)
    BY <1>1, <2>2, <2>4 DEF DraftInv, LinkedMilestones, LinkedTasks, MilestoneId
  <2>6. ASSUME NEW r \in Requirements
        PROVE  \E k \in DOMAIN Output.tasks : Output.tasks[k].refs = {r}
    <3>1. PICK j \in DOMAIN draft.tasks : draft.tasks[j].refs = {r}
      BY <1>1, <1>9 DEF DraftInv
    <3> QED BY <2>2, <2>4, <3>1
  <2>7. ASSUME ~ Fast, NEW s \in DOMAIN Output.milestones
        PROVE  \E k \in DOMAIN Output.tasks : Output.tasks[k].milestone = Output.milestones[s].id
    <3>1. PICK j \in DOMAIN draft.tasks : draft.tasks[j].milestone = draft.milestones[s].id
      BY <1>1, <1>9, <2>4, <2>7 DEF DraftInv
    <3> QED BY <2>2, <2>4, <3>1
  <2>8. /\ Clean(Output.questions) /\ Clean(Output.modules) /\ Clean(Output.risks)
        /\ Output.analysis \cap Excluded = {} /\ Requirements \subseteq Cited(Output.modules)
        /\ \A m \in DOMAIN Output.modules :
             \E s \in DOMAIN Output.milestones : Output.milestones[s].module = m
    BY <1>1, <1>9, <2>4 DEF DraftInv
  <2>9. at + 1 = 7
    BY <1>9
  <2> HIDE DEF Output
  <2> QED BY <2>3, <2>5, <2>6, <2>7, <2>8, <2>9 DEF DraftInv
<1>10. CASE at = 7
  <2>1. Output = [draft EXCEPT !.edges = work.items]
    BY <1>10, NodesLemma DEF Output, Node
  <2>2. Output \in DraftType
    BY <1>1, <1>3, <1>10, <2>1, OutputType
  <2>3. /\ Output.questions = draft.questions /\ Output.analysis = draft.analysis
        /\ Output.modules = draft.modules /\ Output.milestones = draft.milestones
        /\ Output.tasks = draft.tasks /\ Output.risks = draft.risks
    BY <1>1, <2>1 DEF DraftType
  <2> DEFINE o == Output
  <2> HIDE DEF o
  <2>9. /\ o.modules = draft.modules /\ o.milestones = draft.milestones /\ o.tasks = draft.tasks
        /\ o.analysis \cap Excluded = {} /\ Clean(o.questions) /\ Clean(o.risks)
    BY <1>1, <2>3 DEF DraftInv, o
  <2>10. DraftInv(at + 1, o)
    BY <1>1, <1>10, <2>9, OtherOutput
  <2> QED BY <2>2, <2>10 DEF o
<1>11. CASE at = 8
  <2>1. Output = [draft EXCEPT !.risks = work.items]
    BY <1>11, NodesLemma DEF Output, Node
  <2>2. Output \in DraftType
    BY <1>1, <1>3, <1>11, <2>1, OutputType
  <2>3. Clean(work.items)
    BY <1>1, <1>11 DEF WorkInv
  <2>4. /\ Output.questions = draft.questions /\ Output.analysis = draft.analysis
        /\ Output.modules = draft.modules /\ Output.milestones = draft.milestones
        /\ Output.tasks = draft.tasks /\ Output.risks = work.items
    BY <1>1, <2>1 DEF DraftType
  <2> DEFINE o == Output
  <2> HIDE DEF o
  <2>9. /\ o.modules = draft.modules /\ o.milestones = draft.milestones /\ o.tasks = draft.tasks
        /\ o.analysis \cap Excluded = {} /\ Clean(o.questions) /\ Clean(o.risks)
    BY <1>1, <2>3, <2>4 DEF DraftInv, o
  <2>10. DraftInv(at + 1, o)
    BY <1>1, <1>11, <2>9, OtherOutput
  <2> QED BY <2>2, <2>10 DEF o
<1> QED BY <1>4, <1>5, <1>6, <1>7, <1>8, <1>9, <1>10, <1>11

(* An answer that is used moves the work on, whatever the node. *)
LEMMA AdvanceLemma ==
  ASSUME PlanInv, Asking, NEW items, Good(Head(work.todo), items),
         NEW w \in Advanced(Head(work.todo), items)
  PROVE  w \in WorkType(at) /\ WorkInv(at, draft, w)
<1>1. /\ at \in 1..9 /\ draft \in DraftType /\ work \in WorkType(at)
      /\ WorkInv(at, draft, work) /\ work.todo # <<>> /\ DraftInv(at, draft)
  BY DEF PlanInv, TypeInv, Asking
<1>2. at # 9 /\ (~ Fast \/ at <= 3)
  BY <1>1 DEF WorkInv
<1>3. CASE at \in {1, 2, 7, 8}
  <2>1. ~ Fast \/ at < 3
    BY <1>2, <1>3
  <2> QED BY <1>1, <1>3, <2>1, AdvanceFacts
<1>4. CASE at = 3
  BY <1>1, <1>4, AdvanceModules
<1>5. CASE at = 4
  BY <1>1, <1>2, <1>5, AdvanceMilestones
<1>6. CASE at = 5
  BY <1>1, <1>2, <1>6, AdvanceTasks
<1>7. CASE at = 6
  BY <1>1, <1>2, <1>7, AdvanceAcceptance DEF DraftInv
<1> QED BY <1>1, <1>2, <1>3, <1>4, <1>5, <1>6, <1>7

(* What becomes of an answer leaves the work in order. *)
LEMMA JudgedLemma ==
  ASSUME PlanInv, Asking, NEW answer \in Answers, NEW a \in Normalized(Head(work.todo), answer),
         Judged(Head(work.todo), a)
  PROVE  /\ work' \in WorkType(at) /\ WorkInv(at, draft, work')
         /\ status' \in {"running", "failed"}
<1> DEFINE job == Head(work.todo)
<1>1. at \in 1..9 /\ work \in WorkType(at) /\ WorkInv(at, draft, work) /\ status = "running"
  BY DEF PlanInv, TypeInv, Asking
<1>2. job \in JobType
  <2>1. work.todo \in Seq(JobType) /\ work.todo # <<>>
    BY <1>1 DEF WorkType, Asking
  <2> QED BY <2>1, TailLemma
<1>3. a \in AnswerType
  BY <1>1, <1>2, AnswersLemma, NormalizedLemma
<1>4. CASE Issues(job, a) = {} /\ work' \in Advanced(job, a.items) /\ status' = status
  <2>1. Good(job, a.items)
    BY <1>1, <1>3, <1>4, AcceptedLemma
  <2>2. work' \in WorkType(at) /\ WorkInv(at, draft, work')
    BY <1>4, <2>1, AdvanceLemma
  <2> QED BY <1>1, <1>4, <2>2
<1>5. CASE work' = [work EXCEPT !.repair = TRUE] /\ status' = status
  <2>1. work' \in WorkType(at) /\ work'.todo = work.todo /\ work'.items = work.items /\ work'.next = work.next
    BY <1>1, <1>5 DEF WorkType
  <2>2. WorkInv(at, draft, work')
    <3> DEFINE w == work'
    <3>1. w.todo = work.todo /\ w.items = work.items /\ w.next = work.next
      BY <2>1
    <3> HIDE DEF w
    <3>2. Clean(work.items) => Clean(w.items)
      BY <3>1
    <3>3. ModulesWork(work) => ModulesWork(w)
      BY <3>1 DEF ModulesWork
    <3>4. MilestonesWork(draft, work) => MilestonesWork(draft, w)
      BY <3>1 DEF MilestonesWork, Numbered
    <3>5. TasksWork(draft, work) => TasksWork(draft, w)
      BY <3>1 DEF TasksWork, Numbered
    <3>6. AcceptanceWork(draft, work) => AcceptanceWork(draft, w)
      BY <3>1 DEF AcceptanceWork
    <3>7. WorkInv(at, draft, w)
      BY <1>1, <3>1, <3>2, <3>3, <3>4, <3>5, <3>6 DEF WorkInv
    <3> QED BY <3>7 DEF w
  <2> QED BY <1>1, <1>5, <2>1, <2>2
<1>6. ASSUME NEW b \in Saved(job, a), work' \in Advanced(job, b.items), status' = status
      PROVE  work' \in WorkType(at) /\ WorkInv(at, draft, work')
  <2>1. Good(job, b.items)
    BY <1>1, <1>2, <1>3, SavedLemma
  <2> QED BY <1>6, <2>1, AdvanceLemma
<1>7. CASE status' = "failed" /\ work' = work
  BY <1>1, <1>7
<1> QED BY <1>1, <1>4, <1>5, <1>6, <1>7 DEF Judged

(* A handler that begins again has everything to ask for. *)
LEMMA RestartLemma ==
  ASSUME PlanInv
  PROVE  Start(at, draft) \in WorkType(at) /\ WorkInv(at, draft, Start(at, draft))
BY StartLemma DEF PlanInv, TypeInv

-----------------------------------------------------------------------------
(* The invariant *)

(* The invariant of the new draft and the new work is that of the next state. *)
LEMMA PrimeLemma ==
  ASSUME NEW n, NEW d, NEW w, path' = path, at' = n, draft' = d, work' = w,
         DraftInv(n, d), WorkInv(n, d, w)
  PROVE  DraftInv(at, draft)' /\ WorkInv(at, draft, work)'
<1>1. Fast' = Fast
  BY DEF Fast
<1>2. DraftInv(at, draft)'
  BY <1>1 DEF DraftInv
<1>3. WorkInv(at, draft, work)'
  BY <1>1 DEF WorkInv
<1> QED BY <1>2, <1>3

(* It holds at the start. *)
LEMMA PlanInit == Init => PlanInv
<1> SUFFICES ASSUME Init PROVE PlanInv
  OBVIOUS
<1>1. /\ path \in Paths /\ at = 1 /\ status = "running" /\ attempt = 1 /\ used = 0
      /\ spent = 0 /\ crashes = 0 /\ work = Start(at, draft)
      /\ draft = [questions |-> <<>>, analysis |-> {}, modules |-> <<>>,
                  milestones |-> <<>>, tasks |-> <<>>, edges |-> <<>>, risks |-> <<>>]
  BY DEF Init
<1>2. draft \in DraftType
  <2>1. {} \in Refs
    BY DEF Refs
  <2> QED BY <1>1, <2>1 DEF DraftType
<1>3. DraftInv(1, draft)
  <2>1. /\ draft.questions = <<>> /\ draft.analysis = {} /\ draft.modules = <<>>
        /\ draft.milestones = <<>> /\ draft.tasks = <<>> /\ draft.risks = <<>>
    BY <1>1
  <2> QED BY <2>1 DEF DraftInv, Clean, LinkedMilestones, LinkedTasks, Distinct
<1>4. work \in WorkType(1) /\ WorkInv(1, draft, work)
  BY <1>1, <1>2, <1>3, StartLemma
<1> QED BY <1>1, <1>2, <1>3, <1>4 DEF PlanInv, TypeInv

(* Every step keeps it: an answer because of what the checks let through, the *)
(* end of a node because nothing is left to ask for.                          *)
LEMMA PlanStep ==
  ASSUME PlanInv, [Next]_vars
  PROVE  PlanInv'
<1> DEFINE Kind == {"running", "partial", "failed", "passed"}
<1>1. /\ path \in Paths /\ at \in 1..9 /\ status \in Kind /\ draft \in DraftType
      /\ work \in WorkType(at) /\ attempt \in Nat /\ used \in Nat /\ spent \in Nat
      /\ crashes \in Nat /\ DraftInv(at, draft) /\ WorkInv(at, draft, work)
  BY DEF PlanInv, TypeInv
<1>2. Costs \subseteq Nat
  BY CostsAssumption
<1>3. ASSUME NEW n \in 1..9, NEW d \in DraftType, NEW w \in WorkType(n),
             path' = path, at' = n, draft' = d, work' = w, DraftInv(n, d), WorkInv(n, d, w),
             status' \in Kind, attempt' \in Nat, used' \in Nat, spent' \in Nat, crashes' \in Nat
      PROVE  PlanInv'
  BY <1>1, <1>3, PrimeLemma DEF PlanInv, TypeInv
<1>4. ASSUME NEW s \in Kind, Stop(s), used' \in Nat, spent' \in Nat PROVE PlanInv'
  <2>1. status' \in Kind /\ path' = path /\ at' = at /\ draft' = draft /\ work' = work
        /\ attempt' = attempt /\ crashes' = crashes
    BY <1>4 DEF Stop
  <2> QED BY <1>1, <1>3, <1>4, <2>1
<1>5. CASE Exhausted
  BY <1>1, <1>4, <1>5 DEF Exhausted
<1>6. ASSUME NEW retryable \in BOOLEAN, ProviderFails(retryable) PROVE PlanInv'
  <2>1. used' = used /\ spent' = spent /\ FailNode(retryable)
    BY <1>6 DEF ProviderFails
  <2>2. CASE /\ work' = Start(at, draft) /\ attempt' = attempt + 1
             /\ UNCHANGED <<path, at, status, draft, crashes>>
    BY <1>1, <1>3, <2>1, <2>2, RestartLemma
  <2>3. CASE Stop("failed")
    BY <1>1, <1>4, <2>1, <2>3
  <2> QED BY <2>1, <2>2, <2>3 DEF FailNode
<1>7. ASSUME NEW cost \in Costs, NEW answer \in Answers, Answer(answer, cost) PROVE PlanInv'
  <2>1. used' \in Nat /\ spent' \in Nat /\ Asking
    BY <1>1, <1>2, <1>7 DEF Answer
  <2>2. CASE Stop("partial")
    BY <1>4, <2>1, <2>2
  <2>3. ASSUME NEW a \in Normalized(Head(work.todo), answer), Judged(Head(work.todo), a),
               UNCHANGED <<path, at, draft, attempt, crashes>>
        PROVE  PlanInv'
    <3>1. /\ work' \in WorkType(at) /\ WorkInv(at, draft, work')
          /\ status' \in {"running", "failed"}
      BY <2>1, <2>3, JudgedLemma
    <3>2. status' \in Kind /\ attempt' \in Nat /\ crashes' \in Nat
      BY <1>1, <2>3, <3>1
    <3> QED BY <1>1, <1>3, <2>1, <2>3, <3>1, <3>2
  <2> QED BY <1>7, <2>2, <2>3 DEF Answer
<1>8. CASE Finish
  <2>1. at \in 1..8 /\ at + 1 \in 1..9 /\ work.todo = <<>>
    <3>1. at # 9
      BY <1>1, <1>8, NodesLemma DEF Finish, Node
    <3> QED BY <1>1, <1>8, <3>1 DEF Finish
  <2>2. used' = used /\ spent' = spent
    BY <1>8 DEF Finish
  <2>3. CASE Stop("failed")
    BY <1>1, <1>4, <2>2, <2>3
  <2>4. CASE /\ draft' = Output /\ at' = at + 1 /\ work' = Start(at + 1, Output)
             /\ attempt' = 1 /\ UNCHANGED <<path, status, crashes>>
    <3>1. Output \in DraftType /\ DraftInv(at + 1, Output)
      BY <2>1, OutputLemma
    <3>2. /\ Start(at + 1, Output) \in WorkType(at + 1)
          /\ WorkInv(at + 1, Output, Start(at + 1, Output))
      BY <1>1, <2>1, <3>1, StartLemma
    <3> HIDE DEF Output
    <3> QED BY <1>1, <1>3, <2>1, <2>2, <2>4, <3>1, <3>2
  <2> QED BY <1>8, <2>3, <2>4 DEF Finish
<1>9. CASE Gate
  <2>1. used' = used /\ spent' = spent
    BY <1>9 DEF Gate
  <2>2. PICK s \in Kind : Stop(s)
    BY <1>9 DEF Gate
  <2> QED BY <1>1, <1>4, <2>1, <2>2
<1>10. ASSUME NEW cost \in Costs \cup {0}, Crash(cost) PROVE PlanInv'
  <2>1. /\ work' = Start(at, draft) /\ attempt' = 1 /\ crashes' = crashes + 1
        /\ spent' = spent + cost /\ UNCHANGED <<path, at, status, draft, used>>
    BY <1>10 DEF Crash
  <2>2. cost \in Nat
    BY <1>2
  <2> QED BY <1>1, <1>3, <2>1, <2>2, RestartLemma
<1>11. CASE UNCHANGED vars
  <2>1. /\ path' = path /\ at' = at /\ draft' = draft /\ work' = work /\ status' = status
        /\ attempt' = attempt /\ used' = used /\ spent' = spent /\ crashes' = crashes
    BY <1>11 DEF vars
  <2> QED BY <1>1, <1>3, <2>1
<1> QED BY <1>5, <1>6, <1>7, <1>8, <1>9, <1>10, <1>11 DEF Next, Done

(* The run is always where the invariant says: what an unfinished node has not *)
(* collected yet it still asks for, and what a finished node left is linked,   *)
(* clean and whole.  The handlers of planning_nodes.py keep it.                *)
THEOREM PlanInvariant == Spec => []PlanInv
BY PlanInit, PlanStep, PTL DEF Spec

(* Every value has its type, the items of a node as well as candidate_data. *)
THEOREM TypeCorrect == Spec => []TypeInv
<1>1. PlanInv => TypeInv
  BY DEF PlanInv
<1> QED BY <1>1, PlanInvariant, PTL

(* The pieces that separate calls of a node produced fit together: distinct     *)
(* numbers, no dangling parent, nothing excluded cited, with any number of      *)
(* calls, repairs, retries and crashes.                                         *)
THEOREM PlanStaysLinked == Spec => []PlanIsLinked
<1>1. PlanInv => PlanIsLinked
  <2> SUFFICES ASSUME PlanInv PROVE PlanIsLinked
    OBVIOUS
  <2>1. DraftInv(at, draft) /\ draft \in DraftType
    BY DEF PlanInv, TypeInv
  <2>2. Distinct(draft.milestones) /\ Distinct(draft.tasks)
    BY <2>1 DEF DraftInv, LinkedMilestones, LinkedTasks
  <2>3. \A k \in DOMAIN draft.milestones : draft.milestones[k].module \in DOMAIN draft.modules
    BY <2>1 DEF DraftInv, LinkedMilestones
  <2>4. \A k \in DOMAIN draft.tasks :
          /\ \E j \in DOMAIN draft.milestones : draft.milestones[j].id = draft.tasks[k].milestone
          /\ draft.tasks[k].refs \cap Excluded = {}
    BY <2>1 DEF DraftInv, LinkedTasks, MilestoneId
  <2>5. draft.analysis \cap Excluded = {}
    BY <2>1 DEF DraftInv
  <2>6. \A t \in ToSet(draft.tasks) : t.refs \cap Excluded = {}
    BY <2>4 DEF ToSet
  <2>7. \A refs \in ToSet(draft.questions \o draft.modules \o draft.risks) : refs \cap Excluded = {}
    <3> DEFINE q == draft.questions
               m == draft.modules
               r == draft.risks
    <3>1. q \in Seq(Refs) /\ m \in Seq(Refs) /\ r \in Seq(Refs)
      <4>1. SUBSET Known \subseteq Refs
        BY KnownLemma DEF Refs
      <4>2. draft.modules \in Seq(SUBSET Known)
        BY <2>1, DraftLemma
      <4> QED BY <2>1, <4>1, <4>2, DraftLemma
    <3>2. Clean(q) /\ Clean(m) /\ Clean(r)
      BY <2>1 DEF DraftInv
    <3> HIDE DEF q, m, r
    <3>3. q \o m \in Seq(Refs) /\ Clean(q \o m)
      <4>1. q \o m \in Seq(Refs)
        BY <3>1
      <4> QED BY <3>1, <3>2, <4>1, CleanLemma
    <3> DEFINE all == q \o m
    <3> HIDE DEF all
    <3>4. all \o r \in Seq(Refs) /\ Clean(all \o r)
      <4>1. all \in Seq(Refs) /\ Clean(all)
        BY <3>3 DEF all
      <4>2. all \o r \in Seq(Refs)
        BY <3>1, <4>1
      <4> QED BY <3>1, <3>2, <4>1, <4>2, CleanLemma
    <3>5. \A refs \in ToSet(all \o r) : refs \cap Excluded = {}
      BY <3>4 DEF Clean, ToSet
    <3> QED BY <3>5 DEF all, q, m, r
  <2> QED BY <2>2, <2>3, <2>4, <2>5, <2>6, <2>7 DEF PlanIsLinked
<1> QED BY <1>1, PlanInvariant, PTL

(* Whatever the models left out, answered wrongly or had repaired, and on       *)
(* either path, no in-scope requirement is lost: after draft_modules the        *)
(* modules cover it, from draft_tasks on a task cites it alone.                 *)
THEOREM NothingIsLost == Spec => []NothingLost
<1>1. PlanInv => NothingLost
  <2> SUFFICES ASSUME PlanInv PROVE NothingLost
    OBVIOUS
  <2>1. DraftInv(at, draft) /\ draft \in DraftType /\ at \in 1..9
    BY DEF PlanInv, TypeInv
  <2>2. at > 3 => Requirements \subseteq UNION ToSet(draft.modules)
    BY <2>1 DEF DraftInv, Cited
  <2>3. ASSUME at > 5, NEW r \in Requirements PROVE \E t \in ToSet(draft.tasks) : t.refs = {r}
    <3>1. PICK k \in DOMAIN draft.tasks : draft.tasks[k].refs = {r}
      BY <2>1, <2>3 DEF DraftInv
    <3>2. draft.tasks[k] \in ToSet(draft.tasks)
      BY <2>1, DraftLemma, ToSetLemma
    <3> QED BY <3>1, <3>2
  <2> QED BY <2>2, <2>3, ReachedLemma DEF NothingLost
<1> QED BY <1>1, PlanInvariant, PTL

(* On the model path the gate finds no structural issue: what the nodes before *)
(* it let through is what _structural_issues asks for.                         *)
THEOREM GateFindsNothing == Spec => []GateAgrees
<1>1. PlanInv => GateAgrees
  <2> SUFFICES ASSUME PlanInv, at > 5, ~ Fast PROVE StructuralIssues = {}
    BY ReachedLemma DEF GateAgrees
  <2>1. DraftInv(at, draft) /\ draft \in DraftType /\ at \in 1..9
    BY DEF PlanInv, TypeInv
  <2> DEFINE modules == ToSet(draft.modules)
             tasks == ToSet(draft.tasks)
             covered == (UNION modules) \cup UNION {t.refs : t \in tasks}
  <2>2. Requirements \subseteq covered
    BY <2>1 DEF DraftInv, Cited
  <2>3. ~ \E m \in DOMAIN draft.modules : \A s \in ToSet(draft.milestones) : s.module # m
    <3>1. \A m \in DOMAIN draft.modules :
            \E s \in DOMAIN draft.milestones : draft.milestones[s].module = m
      BY <2>1 DEF DraftInv
    <3>2. \A s \in DOMAIN draft.milestones : draft.milestones[s] \in ToSet(draft.milestones)
      BY <2>1, DraftLemma, ToSetLemma
    <3> QED BY <3>1, <3>2
  <2>4. ~ \E s \in ToSet(draft.milestones) : \A t \in tasks : t.milestone # s.id
    <3>1. \A s \in DOMAIN draft.milestones :
            \E k \in DOMAIN draft.tasks : draft.tasks[k].milestone = draft.milestones[s].id
      BY <2>1 DEF DraftInv
    <3>2. /\ \A k \in DOMAIN draft.tasks : draft.tasks[k] \in tasks
          /\ \A s \in ToSet(draft.milestones) :
               \E j \in DOMAIN draft.milestones : draft.milestones[j] = s
      BY <2>1, DraftLemma, ToSetLemma
    <3> HIDE DEF tasks
    <3> QED BY <3>1, <3>2
  <2>5. covered \cap Excluded = {}
    <3>1. \A refs \in modules : refs \cap Excluded = {}
      BY <2>1 DEF DraftInv, Clean, ToSet
    <3>2. \A t \in tasks : t.refs \cap Excluded = {}
      BY <2>1 DEF DraftInv, LinkedTasks, ToSet
    <3> HIDE DEF modules, tasks
    <3> QED BY <3>1, <3>2
  <2> QED BY <2>2, <2>3, <2>4, <2>5 DEF StructuralIssues, IssueIf
<1> QED BY <1>1, PlanInvariant, PTL

-----------------------------------------------------------------------------
(* The budget *)

\* what the run counts stays below the budget and one answer more, and what it
\* does not count a crash lost
SpendInv ==
  /\ {used, spent, crashes} \subseteq Nat
  /\ \A most \in Costs : (\A c \in Costs : c <= most) =>
       used < Budget + most /\ spent <= used + most * crashes

(* It holds at the start. *)
LEMMA SpendInit == Init => SpendInv
BY KnownLemma, CostsAssumption DEF Init, SpendInv

(* An answer is asked for only while something is left. *)
LEMMA SpendStep ==
  ASSUME SpendInv, [Next]_vars
  PROVE  SpendInv'
<1>1. /\ used \in Nat /\ spent \in Nat /\ crashes \in Nat /\ Costs \subseteq Nat
      /\ Budget \in Nat /\ 0 \in Nat
  BY KnownLemma, CostsAssumption DEF SpendInv
<1>2. ASSUME used' = used, spent' = spent, crashes' = crashes PROVE SpendInv'
  BY <1>2 DEF SpendInv
<1>3. ASSUME NEW cost \in Costs, used < Budget, used' = used + cost, spent' = spent + cost,
             crashes' = crashes
      PROVE  SpendInv'
  <2>1. used' \in Nat /\ spent' \in Nat /\ crashes' \in Nat
    BY <1>1, <1>3
  <2>2. ASSUME NEW most \in Costs, \A c \in Costs : c <= most
        PROVE  used' < Budget + most /\ spent' <= used' + most * crashes'
    <3>1. cost <= most /\ cost \in Nat /\ most \in Nat /\ spent <= used + most * crashes
      BY <1>1, <2>2 DEF SpendInv
    <3>2. most * crashes \in Nat
      BY <1>1, <3>1
    <3> DEFINE lost == most * crashes
    <3> HIDE DEF lost
    <3>3. spent <= used + lost /\ lost \in Nat
      BY <3>1, <3>2 DEF lost
    <3>4. used + cost < Budget + most /\ spent + cost <= used + cost + lost
      BY <1>1, <1>3, <3>1, <3>3
    <3> QED BY <1>3, <3>4 DEF lost
  <2> QED BY <2>1, <2>2 DEF SpendInv
<1>4. ASSUME NEW cost \in Costs \cup {0}, Crash(cost) PROVE SpendInv'
  <2>1. used' = used /\ spent' = spent + cost /\ crashes' = crashes + 1
    BY <1>4 DEF Crash
  <2>2. used' \in Nat /\ spent' \in Nat /\ crashes' \in Nat
    BY <1>1, <2>1
  <2>3. ASSUME NEW most \in Costs, \A c \in Costs : c <= most
        PROVE  used' < Budget + most /\ spent' <= used' + most * crashes'
    <3>1. cost <= most /\ cost \in Nat /\ most \in Nat
      BY <1>1, <2>3
    <3>2. used < Budget + most /\ spent <= used + most * crashes
      BY <2>3 DEF SpendInv
    <3>3. most * (crashes + 1) = most * crashes + most /\ most * crashes \in Nat
      BY <1>1, <3>1
    <3> QED BY <1>1, <2>1, <3>1, <3>2, <3>3
  <2> QED BY <2>2, <2>3 DEF SpendInv
<1>5. CASE Exhausted
  BY <1>2, <1>5 DEF Exhausted, Stop
<1>6. ASSUME NEW retryable \in BOOLEAN, ProviderFails(retryable) PROVE SpendInv'
  BY <1>2, <1>6 DEF ProviderFails, FailNode, Stop
<1>7. ASSUME NEW cost \in Costs, NEW answer \in Answers, Answer(answer, cost) PROVE SpendInv'
  <2>1. used < Budget /\ used' = used + cost /\ spent' = spent + cost
    BY <1>7 DEF Answer, Affordable
  <2>2. crashes' = crashes
    BY <1>7 DEF Answer, Stop
  <2> QED BY <1>3, <2>1, <2>2
<1>8. CASE Finish
  BY <1>2, <1>8 DEF Finish, Stop
<1>9. CASE Gate
  BY <1>2, <1>9 DEF Gate, Stop
<1>10. CASE UNCHANGED vars
  BY <1>2, <1>10 DEF vars
<1> QED BY <1>4, <1>5, <1>6, <1>7, <1>8, <1>9, <1>10 DEF Next, Done

(* Counted or lost in a crash, the tokens the providers answered with pass the *)
(* budget by less than one answer for the run and one for every crash: _call   *)
(* asks only while something is left, and commits the usage first.             *)
THEOREM SpendStaysBounded == Spec => []SpendBounded
<1>1. SpendInv => SpendBounded
  <2> SUFFICES ASSUME SpendInv, NEW most \in Costs, \A c \in Costs : c <= most
               PROVE  spent < Budget + most * (crashes + 1)
    BY DEF SpendBounded
  <2>1. /\ used \in Nat /\ spent \in Nat /\ crashes \in Nat /\ most \in Nat /\ Budget \in Nat
        /\ used < Budget + most /\ spent <= used + most * crashes
    BY KnownLemma, CostsAssumption DEF SpendInv
  <2>2. most * (crashes + 1) = most * crashes + most /\ most * crashes \in Nat
    BY <2>1
  <2> QED BY <2>1, <2>2
<1> QED BY <1>1, SpendInit, SpendStep, PTL DEF Spec
=============================================================================
