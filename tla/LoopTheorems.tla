---------------------------- MODULE LoopTheorems ----------------------------
(***************************************************************************)
(* Facts about loops written as recursive functions, stated with sets      *)
(* instead of operators so that they can be applied to any loop: a loop    *)
(* that counts down satisfies its own equation.  What division finds, and  *)
(* sums over finite sets.                                                  *)
(***************************************************************************)
EXTENDS Integers, FiniteSets, Functions, NaturalsInduction, WellFoundedInduction,
        FiniteSetTheorems, TLAPS

(* A set of natural numbers has a least element.                           *)
LEMMA LeastNatural ==
  ASSUME NEW T \in SUBSET Nat, T # {}
  PROVE  \E m \in T : \A n \in T : m <= n
<1> DEFINE Less == {p \in Nat \X Nat : p[1] < p[2]}
<1>1. OpToRel(<, Nat) = Less
  BY Zenon DEF OpToRel
<1>2. PICK m \in T : \A n \in T : ~ (<<n, m>> \in Less)
  <2>1. IsWellFoundedOn(Less, Nat)
    BY <1>1, NatLessThanWellFounded, Zenon
  <2> HIDE DEF Less
  <2> QED
    BY <2>1, WFMin
<1>3. \A n \in T : m <= n
  <2>1. SUFFICES ASSUME NEW n \in T PROVE m <= n
    OBVIOUS
  <2>2. m \in Nat /\ n \in Nat /\ ~ (<<n, m>> \in Less)
    BY <1>2
  <2> QED
    BY <2>2
<1> QED
  BY <1>3

(* Induction: a set that contains a number whenever it contains all the    *)
(* smaller ones contains all.                                              *)
LEMMA StrongInduction ==
  ASSUME NEW S,
         \A n \in Nat : (\A m \in Nat : m < n => m \in S) => n \in S
  PROVE  \A n \in Nat : n \in S
<1> DEFINE T == {n \in Nat : n \notin S}
<1>1. CASE T = {}
  BY <1>1
<1>2. CASE T # {}
  <2>1. PICK m \in T : \A n \in T : m <= n
    <3> HIDE DEF T
    <3>1. T \in SUBSET Nat
      BY DEF T
    <3> QED
      BY <1>2, <3>1, LeastNatural
  <2>2. \A n \in Nat : n < m => n \in S
    BY <2>1
  <2> QED
    BY <2>1, <2>2
<1> QED
  BY <1>1, <1>2

(* f computes the loop on the elements of rank below n.                    *)
Computes(f, A, stop, out, next, rank, n) ==
  \A a \in A : rank[a] < n => f[a] = IF stop[a] THEN out[a] ELSE f[next[a]]

(* The loop counts down.                                                   *)
CountsDown(A, stop, next, rank) ==
  /\ rank \in [A -> Nat]
  /\ \A a \in A : ~stop[a] => next[a] \in A /\ rank[next[a]] < rank[a]

(* Two functions that compute the loop on the elements of low rank agree   *)
(* on them.                                                                *)
LEMMA LoopUnique ==
  ASSUME NEW A, NEW stop, NEW out, NEW next, NEW rank, CountsDown(A, stop, next, rank),
         NEW n \in Nat, NEW f, NEW g,
         Computes(f, A, stop, out, next, rank, n),
         Computes(g, A, stop, out, next, rank, n)
  PROVE  \A a \in A : rank[a] < n => f[a] = g[a]
<1> DEFINE S == {k \in Nat : k < n => \A a \in A : rank[a] = k => f[a] = g[a]}
<1>1. ASSUME NEW k \in Nat, \A m \in Nat : m < k => m \in S
      PROVE  k \in S
  <2>1. SUFFICES ASSUME k < n, NEW a \in A, rank[a] = k
                 PROVE  f[a] = g[a]
    OBVIOUS
  <2>2. CASE stop[a]
    BY <2>1, <2>2 DEF Computes
  <2>3. CASE ~stop[a]
    <3>1. next[a] \in A /\ rank[next[a]] \in Nat /\ rank[next[a]] < k
      BY <2>1, <2>3 DEF CountsDown
    <3>2. f[next[a]] = g[next[a]]
      BY <1>1, <2>1, <3>1
    <3> QED
      BY <2>1, <2>3, <3>2 DEF Computes
  <2> QED
    BY <2>2, <2>3
<1>2. \A k \in Nat : k \in S
  <2> HIDE DEF S
  <2> QED
    BY <1>1, StrongInduction
<1> QED
  BY <1>2 DEF CountsDown

(* There is such a function for every rank.                                *)
LEMMA LoopApproximated ==
  ASSUME NEW A, NEW stop, NEW out, NEW next, NEW rank, CountsDown(A, stop, next, rank)
  PROVE  \A n \in Nat : \E f : Computes(f, A, stop, out, next, rank, n)
<1> DEFINE S == {n \in Nat : \E f : Computes(f, A, stop, out, next, rank, n)}
<1>1. ASSUME NEW n \in Nat, \A m \in Nat : m < n => m \in S
      PROVE  n \in S
  <2>1. CASE n = 0
    BY <2>1 DEF Computes, CountsDown
  <2>2. CASE n > 0
    <3>1. n - 1 \in Nat /\ n - 1 < n
      BY <2>2
    <3>2. PICK f : Computes(f, A, stop, out, next, rank, n - 1)
      BY <1>1, <3>1
    <3> DEFINE h == [a \in A |-> IF stop[a] THEN out[a] ELSE f[next[a]]]
    <3>3. ASSUME NEW a \in A, rank[a] < n - 1
          PROVE  h[a] = f[a]
      BY <3>2, <3>3 DEF Computes
    <3>4. ASSUME NEW a \in A, rank[a] < n, ~stop[a]
          PROVE  h[next[a]] = f[next[a]]
      <4>1. next[a] \in A /\ rank[next[a]] < n - 1
        BY <3>4 DEF CountsDown
      <4> QED
        BY <3>3, <4>1
    <3>5. Computes(h, A, stop, out, next, rank, n)
      BY <3>4 DEF Computes
    <3> QED
      BY <3>5
  <2> QED
    BY <2>1, <2>2
<1>2. \A n \in Nat : n \in S
  <2> HIDE DEF S
  <2> QED
    BY <1>1, StrongInduction
<1> QED
  BY <1>2

(* A loop that counts down is well defined: some function satisfies its    *)
(* equation, so that the one that the recursive definition chooses does.   *)
LEMMA LoopDefined ==
  ASSUME NEW A, NEW stop, NEW out, NEW next, NEW rank, CountsDown(A, stop, next, rank)
  PROVE  \E f : f = [a \in A |-> IF stop[a] THEN out[a] ELSE f[next[a]]]
<1> DEFINE F(n) == CHOOSE f : Computes(f, A, stop, out, next, rank, n)
           f == [a \in A |-> F(rank[a] + 1)[a]]
<1>1. \A n \in Nat : Computes(F(n), A, stop, out, next, rank, n)
  BY LoopApproximated
<1> HIDE DEF F
<1>2. ASSUME NEW a \in A
      PROVE  f[a] = IF stop[a] THEN out[a] ELSE f[next[a]]
  <2> DEFINE n == rank[a] + 1
  <2>1. n \in Nat /\ rank[a] \in Nat /\ rank[a] < n
    BY DEF CountsDown
  <2>2. f[a] = IF stop[a] THEN out[a] ELSE F(n)[next[a]]
    BY <1>1, <2>1 DEF Computes
  <2>3. CASE stop[a]
    BY <2>2, <2>3
  <2>4. CASE ~stop[a]
    <3> DEFINE b == next[a]  m == rank[b] + 1
    <3>1. b \in A /\ m \in Nat /\ m <= n /\ rank[b] < m
      BY <2>4, <2>1 DEF CountsDown
    <3>2. Computes(F(n), A, stop, out, next, rank, m)
      <4>1. Computes(F(n), A, stop, out, next, rank, n)
        BY <1>1, <2>1
      <4>2. \A c \in A : rank[c] \in Nat
        BY DEF CountsDown
      <4>3. ASSUME NEW c \in A, rank[c] < m PROVE rank[c] < n
        BY <3>1, <4>2, <4>3, <2>1
      <4> HIDE DEF n, m, b
      <4> QED
        BY <4>1, <4>3 DEF Computes
    <3>3. Computes(F(m), A, stop, out, next, rank, m)
      BY <1>1, <3>1
    <3>4. F(n)[b] = F(m)[b]
      <4> HIDE DEF n, m, b
      <4> QED
        BY <3>1, <3>2, <3>3, LoopUnique
    <3>5. f[b] = F(m)[b]
      BY <3>1
    <3> QED
      BY <2>2, <2>4, <3>4, <3>5
  <2> QED
    BY <2>3, <2>4
<1>3. f = [a \in A |-> IF stop[a] THEN out[a] ELSE f[next[a]]]
  <2> HIDE DEF f
  <2>1. f = [a \in A |-> f[a]]
    BY DEF f
  <2> QED
    BY <1>2, <2>1
<1> HIDE DEF f
<1> QED
  BY <1>3

(* f is the loop, and what the loop returns at once is in S.               *)
IsLoop(f, A, stop, out, next) == f = [a \in A |-> IF stop[a] THEN out[a] ELSE f[next[a]]]
Returns(A, stop, out, S) == \A a \in A : stop[a] => out[a] \in S

(* Then all that it returns is.                                            *)
LEMMA LoopType ==
  ASSUME NEW A, NEW stop, NEW out, NEW next, NEW rank, CountsDown(A, stop, next, rank),
         NEW S, Returns(A, stop, out, S), NEW f, IsLoop(f, A, stop, out, next)
  PROVE  \A a \in A : f[a] \in S
<1> DEFINE N == {k \in Nat : \A a \in A : rank[a] = k => f[a] \in S}
<1>0. ASSUME NEW a \in A PROVE f[a] = IF stop[a] THEN out[a] ELSE f[next[a]]
  BY DEF IsLoop
<1>1. ASSUME NEW k \in Nat, \A m \in Nat : m < k => m \in N
      PROVE  k \in N
  <2>1. SUFFICES ASSUME NEW a \in A, rank[a] = k
                 PROVE  f[a] \in S
    OBVIOUS
  <2>2. CASE stop[a]
    BY <1>0, <2>2 DEF Returns
  <2>3. CASE ~stop[a]
    <3>1. next[a] \in A /\ rank[next[a]] \in Nat /\ rank[next[a]] < k
      BY <2>1, <2>3 DEF CountsDown
    <3>2. f[next[a]] \in S
      BY <1>1, <3>1
    <3> QED BY <1>0, <2>3, <3>2
  <2> QED BY <2>2, <2>3
<1>2. \A k \in Nat : k \in N
  <2> HIDE DEF N
  <2> QED BY <1>1, StrongInduction
<1> QED BY <1>2 DEF CountsDown

(* f is a loop that counts up from 0 to n, and step takes S to S.          *)
Recursion(f, n, S, first, step) ==
  /\ f \in [0 .. n -> S] /\ f[0] = first
  /\ \A i \in 1 .. n : f[i] = step[<<i, f[i - 1]>>]
StepIn(n, S, step) == step \in [(1 .. n) \X S -> S]

(* A loop that counts up is well defined, too.                             *)
LEMMA RecursionDefined ==
  ASSUME NEW n \in Nat, NEW S, NEW first \in S, NEW step, StepIn(n, S, step)
  PROVE  \E f : Recursion(f, n, S, first, step)
<1> USE DEF Recursion, StepIn
<1> DEFINE Runs(g, m) == /\ g \in [0 .. m -> S] /\ g[0] = first
                         /\ \A i \in 1 .. m : g[i] = step[<<i, g[i - 1]>>]
           N == {m \in Nat : m <= n => \E g : Runs(g, m)}
<1>1. ASSUME NEW m \in Nat, \A k \in Nat : k < m => k \in N
      PROVE  m \in N
  <2>1. CASE m = 0
    <3>1. Runs([i \in 0 .. 0 |-> first], m)
      BY <2>1
    <3> QED BY <3>1
  <2>2. CASE m > 0 /\ m <= n
    <3>1. m - 1 \in Nat /\ m - 1 < m /\ m - 1 <= n /\ m \in 1 .. n
      BY <2>2
    <3>2. PICK g : Runs(g, m - 1)
      <4> HIDE DEF Runs
      <4> QED BY <1>1, <3>1
    <3>3. g[m - 1] \in S /\ step[<<m, g[m - 1]>>] \in S
      BY <3>1, <3>2
    <3> DEFINE h == [i \in 0 .. m |-> IF i < m THEN g[i] ELSE step[<<m, g[m - 1]>>]]
    <3>4. h \in [0 .. m -> S] /\ h[0] = first
      BY <2>2, <3>2, <3>3
    <3>5. ASSUME NEW i \in 1 .. m
          PROVE  h[i] = step[<<i, h[i - 1]>>]
      <4>1. h[i - 1] = g[i - 1]
        OBVIOUS
      <4>2. CASE i < m
        <5>1. i \in 1 .. m - 1 /\ h[i] = g[i]
          BY <4>2
        <5>2. g[i] = step[<<i, g[i - 1]>>]
          BY <3>2, <5>1
        <5> HIDE DEF h
        <5> QED BY <4>1, <5>1, <5>2
      <4>3. CASE i = m
        <5>1. h[m] = step[<<m, g[m - 1]>>]
          OBVIOUS
        <5> HIDE DEF h
        <5> QED BY <4>1, <4>3, <5>1
      <4> QED BY <4>2, <4>3
    <3> HIDE DEF h
    <3>6. Runs(h, m)
      BY <3>4, <3>5
    <3> QED BY <3>6
  <2> QED BY <2>1, <2>2
<1>2. \A m \in Nat : m \in N
  <2> HIDE DEF N
  <2> QED BY <1>1, StrongInduction
<1>3. PICK g : Runs(g, n)
  <2> HIDE DEF Runs
  <2> QED BY <1>2
<1> QED BY <1>3

-----------------------------------------------------------------------------
(* One more on one side of a product is at least one factor more.          *)
LEMMA ProductStep ==
  ASSUME NEW W \in Nat, NEW x \in Nat, NEW y \in Nat, x < y
  PROVE  W * x \in Nat /\ W * y \in Nat /\ W * x + W <= W * y
<1>1. PICK e \in Nat : y = x + 1 + e
  <2>1. y - x - 1 \in Nat /\ y = x + 1 + (y - x - 1)
    OBVIOUS
  <2> QED BY <2>1
<1>2. W * e \in Nat
  OBVIOUS
<1>3. W * y = W * x + W + W * e
  BY <1>1
<1> QED BY <1>2, <1>3

(* Quotient and remainder are unique.                                      *)
LEMMA Division ==
  ASSUME NEW W \in Nat \ {0}, NEW q \in Nat, NEW r \in 0 .. W - 1
  PROVE  (W * q + r) \div W = q /\ (W * q + r) % W = r
<1> DEFINE n == W * q + r
           d == n \div W
           m == n % W
<1>1. n \in Nat
  OBVIOUS
<1>2. n = W * q + r
  OBVIOUS
<1> HIDE DEF n
<1>3. d \in Nat /\ m \in 0 .. W - 1 /\ n = W * d + m
  BY <1>1
<1> HIDE DEF d, m
<1>4. ~(d < q)
  <2> SUFFICES ASSUME d < q PROVE FALSE
    OBVIOUS
  <2>1. W * d \in Nat /\ W * q \in Nat /\ W * d + W <= W * q
    BY <1>3, ProductStep
  <2> QED BY <1>2, <1>3, <2>1
<1>5. ~(q < d)
  <2> SUFFICES ASSUME q < d PROVE FALSE
    OBVIOUS
  <2>1. W * d \in Nat /\ W * q \in Nat /\ W * q + W <= W * d
    BY <1>3, ProductStep
  <2> QED BY <1>2, <1>3, <2>1
<1>6. d = q
  BY <1>3, <1>4, <1>5
<1>7. m = r
  BY <1>2, <1>3, <1>6
<1> QED BY <1>6, <1>7 DEF d, m, n

(* A remainder may be taken before or after an addition.                   *)
LEMMA ModAdd ==
  ASSUME NEW F \in Nat, NEW R \in Nat, NEW W \in Nat \ {0}
  PROVE  ((F % W) + R) % W = (F + R) % W
<1> DEFINE q == F \div W
           r == F % W
<1>1. q \in Nat /\ r \in 0 .. W - 1 /\ F = W * q + r
  OBVIOUS
<1> HIDE DEF q, r
<1> DEFINE p == (r + R) \div W
           s == (r + R) % W
<1>2. p \in Nat /\ s \in 0 .. W - 1 /\ r + R = W * p + s
  BY <1>1
<1> HIDE DEF p, s
<1>3. F + R = W * (q + p) + s
  BY <1>1, <1>2
<1>4. q + p \in Nat
  BY <1>1, <1>2
<1>5. (W * (q + p) + s) % W = s
  BY <1>2, <1>4, Division
<1> QED BY <1>3, <1>5 DEF r, s

(* Numbers of the same remainder, one of them below W, that are less than  *)
(* W apart are equal.                                                      *)
LEMMA ModExact ==
  ASSUME NEW F \in Nat, NEW W \in Nat \ {0}, F < W + (F % W)
  PROVE  F % W = F
<1> DEFINE q == F \div W
           r == F % W
<1>1. q \in Nat /\ r \in 0 .. W - 1 /\ F = W * q + r
  OBVIOUS
<1> HIDE DEF q, r
<1>2. W * q < W
  BY <1>1 DEF r
<1>3. q = 0
  BY <1>1, <1>2
<1> QED BY <1>1, <1>3 DEF r

-----------------------------------------------------------------------------
(* SumFunction adds the values up in the order in which CHOOSE picks their *)
(* arguments.                                                              *)
Pick(s) == CHOOSE x \in s : TRUE
Sums(f, I) ==
  CHOOSE g : g = [s \in SUBSET I |-> IF s = {} THEN 0 ELSE f[Pick(s)] + g[s \ {Pick(s)}]]

(* Taking an element away leaves a smaller set.                            *)
LEMMA Smaller ==
  ASSUME NEW I, IsFiniteSet(I), NEW s \in SUBSET I
  PROVE  /\ Cardinality(s) \in Nat
         /\ \A x \in s : Cardinality(s \ {x}) \in Nat /\ Cardinality(s \ {x}) = Cardinality(s) - 1
         /\ s # {} => Pick(s) \in s
<1>1. IsFiniteSet(s)
  BY FS_Subset
<1>2. Cardinality(s) \in Nat
  BY <1>1, FS_CardinalityType
<1>3. ASSUME NEW x \in s
      PROVE  Cardinality(s \ {x}) \in Nat /\ Cardinality(s \ {x}) = Cardinality(s) - 1
  <2>1. IsFiniteSet(s \ {x}) /\ Cardinality(s \ {x}) = Cardinality(s) - 1
    BY <1>1, FS_RemoveElement
  <2> QED
    BY <2>1, FS_CardinalityType
<1>4. s # {} => Pick(s) \in s
  BY DEF Pick
<1> QED
  BY <1>2, <1>3, <1>4

(* L adds f up in an accumulator.                                          *)
Accumulates(L, f, I) ==
  \A s \in SUBSET I : \A a \in Int :
    L[<<a, s>>] = IF s = {} THEN a ELSE L[<<a + f[Pick(s)], s \ {Pick(s)}>>]

(* The sums exist, by the loop that adds up in an accumulator.             *)
LEMMA SumLoop ==
  ASSUME NEW I, IsFiniteSet(I), NEW f \in [I -> Int]
  PROVE  \E L : Accumulates(L, f, I)
<1> DEFINE A == Int \X SUBSET I
           stop == [a \in A |-> a[2] = {}]
           out == [a \in A |-> a[1]]
           next == [a \in A |-> <<a[1] + f[Pick(a[2])], a[2] \ {Pick(a[2])}>>]
           rank == [a \in A |-> Cardinality(a[2])]
<1>1. CountsDown(A, stop, next, rank)
  <2>1. \A s \in SUBSET I :
          /\ Cardinality(s) \in Nat
          /\ s # {} => Pick(s) \in s /\ Cardinality(s \ {Pick(s)}) = Cardinality(s) - 1
    BY Smaller
  <2>2. rank \in [A -> Nat]
    BY <2>1
  <2>3. ASSUME NEW a \in A, ~stop[a]
        PROVE  next[a] \in A /\ rank[next[a]] < rank[a]
    <3>1. a[1] \in Int /\ a[2] \in SUBSET I /\ a[2] # {}
      BY <2>3
    <3>2. Pick(a[2]) \in a[2] /\ f[Pick(a[2])] \in Int
      BY <2>1, <3>1
    <3>3. next[a] \in A /\ next[a][2] = a[2] \ {Pick(a[2])}
      BY <3>1, <3>2
    <3> QED
      BY <2>1, <3>1, <3>3
  <2> HIDE DEF A, stop, next, rank
  <2> QED
    BY <2>2, <2>3 DEF CountsDown
<1>2. PICK L : L = [a \in A |-> IF stop[a] THEN out[a] ELSE L[next[a]]]
  <2> HIDE DEF A, stop, out, next, rank
  <2> QED
    BY <1>1, LoopDefined
<1>3. ASSUME NEW a \in Int, NEW s \in SUBSET I
      PROVE  L[<<a, s>>] = IF s = {} THEN a ELSE L[<<a + f[Pick(s)], s \ {Pick(s)}>>]
  <2>1. <<a, s>> \in A
    OBVIOUS
  <2>2. L[<<a, s>>] = IF stop[<<a, s>>] THEN out[<<a, s>>] ELSE L[next[<<a, s>>]]
    <3> HIDE DEF A, stop, out, next
    <3> QED
      BY <1>2, <2>1
  <2>3. /\ stop[<<a, s>>] <=> (s = {})
        /\ out[<<a, s>>] = a
        /\ next[<<a, s>>] = <<a + f[Pick(s)], s \ {Pick(s)}>>
    BY <2>1
  <2> HIDE DEF A, stop, out, next
  <2> QED
    BY <2>2, <2>3
<1>4. Accumulates(L, f, I)
  BY <1>3 DEF Accumulates
<1> QED
  BY <1>4

(* The equation of the sums.                                               *)
LEMMA SumsEquation ==
  ASSUME NEW I, IsFiniteSet(I), NEW f \in [I -> Int]
  PROVE  \A s \in SUBSET I :
           /\ Sums(f, I)[s] \in Int
           /\ Sums(f, I)[s] = IF s = {} THEN 0 ELSE f[Pick(s)] + Sums(f, I)[s \ {Pick(s)}]
<1>0. PICK L : Accumulates(L, f, I)
  BY SumLoop
<1>1. /\ \A a \in Int : L[<<a, {}>>] = a
      /\ \A s \in SUBSET I : s # {} =>
           \A a \in Int : L[<<a, s>>] = L[<<a + f[Pick(s)], s \ {Pick(s)}>>]
  BY <1>0 DEF Accumulates
<1>2. \A s \in SUBSET I : s # {} =>
        /\ Pick(s) \in s /\ f[Pick(s)] \in Int
        /\ Cardinality(s \ {Pick(s)}) = Cardinality(s) - 1
        /\ Cardinality(s \ {Pick(s)}) \in Nat
  BY Smaller
<1>2a. \A s \in SUBSET I : Cardinality(s) \in Nat
  BY Smaller
<1> DEFINE Shifts(s) == \A a \in Int : L[<<a, s>>] \in Int /\ L[<<a, s>>] = a + L[<<0, s>>]
           N == {n \in Nat : \A s \in SUBSET I : Cardinality(s) = n => Shifts(s)}
<1>3. ASSUME NEW n \in Nat, \A m \in Nat : m < n => m \in N
      PROVE  n \in N
  <2>1. SUFFICES ASSUME NEW s \in SUBSET I, Cardinality(s) = n PROVE Shifts(s)
    <3> HIDE DEF Shifts
    <3> QED
      OBVIOUS
  <2>2. CASE s = {}
    <3>1. \A a \in Int : L[<<a, s>>] = a
      BY <1>1, <2>2, Zenon
    <3>2. L[<<0, s>>] = 0
      BY <3>1
    <3> QED
      BY <3>1, <3>2
  <2>3. CASE s # {}
    <3> DEFINE r == s \ {Pick(s)}
               x == f[Pick(s)]
    <3>1. r \in SUBSET I /\ x \in Int /\ Cardinality(r) \in Nat /\ Cardinality(r) < n
      BY <1>2, <2>1, <2>3
    <3>2. Shifts(r)
      <4> HIDE DEF r, x, Shifts
      <4> QED
        BY <1>3, <3>1
    <3>3. \A a \in Int : L[<<a, s>>] = L[<<a + x, r>>]
      BY <1>1, <2>3
    <3> HIDE DEF r, x
    <3>4. ASSUME NEW a \in Int
          PROVE  L[<<a, s>>] \in Int /\ L[<<a, s>>] = a + x + L[<<0, r>>]
      <4>1. a + x \in Int
        BY <3>1
      <4>2. L[<<a + x, r>>] \in Int /\ L[<<a + x, r>>] = (a + x) + L[<<0, r>>]
        BY <3>2, <4>1
      <4> QED
        BY <3>3, <4>2
    <3>5. L[<<0, r>>] \in Int /\ L[<<0, s>>] = x + L[<<0, r>>]
      <4>1. L[<<0, r>>] \in Int
        BY <3>2
      <4>2. L[<<0, s>>] = 0 + x + L[<<0, r>>]
        BY <3>4
      <4> QED
        BY <3>1, <4>1, <4>2
    <3> QED
      BY <3>1, <3>4, <3>5
  <2> QED
    BY <2>2, <2>3
<1>4. \A s \in SUBSET I : Shifts(s)
  <2>1. \A n \in Nat : n \in N
    <3> HIDE DEF N
    <3> QED
      BY <1>3, StrongInduction
  <2> QED
    BY <1>2a, <2>1
<1> DEFINE g == [s \in SUBSET I |-> L[<<0, s>>]]
           Eq(h) == h = [s \in SUBSET I |-> IF s = {} THEN 0 ELSE f[Pick(s)] + h[s \ {Pick(s)}]]
<1>5. Eq(g)
  <2>1. ASSUME NEW s \in SUBSET I
        PROVE  g[s] = IF s = {} THEN 0 ELSE f[Pick(s)] + g[s \ {Pick(s)}]
    <3>1. CASE s = {}
      BY <1>1, <3>1
    <3>2. CASE s # {}
      <4>1. f[Pick(s)] \in Int /\ s \ {Pick(s)} \in SUBSET I
        BY <1>2, <3>2
      <4>2. L[<<0, s>>] = L[<<0 + f[Pick(s)], s \ {Pick(s)}>>]
        BY <1>1, <3>2
      <4>3. L[<<0 + f[Pick(s)], s \ {Pick(s)}>>] = f[Pick(s)] + L[<<0, s \ {Pick(s)}>>]
        BY <1>4, <4>1
      <4> QED
        BY <3>2, <4>1, <4>2, <4>3
    <3> QED
      BY <3>1, <3>2
  <2> QED
    BY <2>1
<1>6. Eq(Sums(f, I))
  BY <1>5 DEF Sums
<1> DEFINE h == Sums(f, I)
           M == {n \in Nat : \A s \in SUBSET I : Cardinality(s) = n => h[s] \in Int}
<1>7. \A s \in SUBSET I : h[s] = IF s = {} THEN 0 ELSE f[Pick(s)] + h[s \ {Pick(s)}]
  <2> HIDE DEF h
  <2> QED
    BY <1>6 DEF h
<1> HIDE DEF h
<1>7a. \A s \in SUBSET I : s = {} => h[s] = 0
  BY <1>7, Zenon
<1>7b. \A s \in SUBSET I : s # {} => h[s] = f[Pick(s)] + h[s \ {Pick(s)}]
  BY <1>7, Zenon
<1>8. ASSUME NEW n \in Nat, \A m \in Nat : m < n => m \in M
      PROVE  n \in M
  <2>1. SUFFICES ASSUME NEW s \in SUBSET I, Cardinality(s) = n PROVE h[s] \in Int
    BY DEF M
  <2>2. CASE s = {}
    BY <1>7a, <2>2
  <2>3. CASE s # {}
    <3>0. s \ {Pick(s)} \in SUBSET I /\ f[Pick(s)] \in Int
      BY <1>2, <2>3
    <3>1. Cardinality(s \ {Pick(s)}) \in Nat /\ Cardinality(s \ {Pick(s)}) < n
      BY <1>2, <2>1, <2>3
    <3>2. h[s \ {Pick(s)}] \in Int
      BY <1>8, <3>0, <3>1
    <3>3. h[s] = f[Pick(s)] + h[s \ {Pick(s)}]
      BY <1>7b, <2>3
    <3> QED
      BY <3>0, <3>2, <3>3
  <2> QED
    BY <2>2, <2>3
<1>9. \A n \in Nat : n \in M
  <2> HIDE DEF M
  <2> QED
    BY <1>8, StrongInduction
<1> QED
  BY <1>2a, <1>7, <1>9 DEF h

(* Any element may be taken out of a sum first.                            *)
LEMMA SumsRemove ==
  ASSUME NEW I, IsFiniteSet(I), NEW f \in [I -> Int]
  PROVE  \A s \in SUBSET I : \A x \in s : Sums(f, I)[s] = f[x] + Sums(f, I)[s \ {x}]
<1> DEFINE h == Sums(f, I)
           Any(s) == \A x \in s : h[s] = f[x] + h[s \ {x}]
           N == {n \in Nat : \A s \in SUBSET I : Cardinality(s) = n => Any(s)}
<1>1. /\ \A s \in SUBSET I : h[s] \in Int
      /\ \A s \in SUBSET I : s # {} => h[s] = f[Pick(s)] + h[s \ {Pick(s)}]
  <2>1. \A s \in SUBSET I :
          /\ h[s] \in Int
          /\ h[s] = IF s = {} THEN 0 ELSE f[Pick(s)] + h[s \ {Pick(s)}]
    BY SumsEquation
  <2> HIDE DEF h
  <2> QED
    BY <2>1, Zenon
<1> HIDE DEF h
<1>2. ASSUME NEW n \in Nat, \A m \in Nat : m < n => m \in N
      PROVE  n \in N
  <2>1. SUFFICES ASSUME NEW s \in SUBSET I, Cardinality(s) = n, NEW x \in s
                 PROVE  h[s] = f[x] + h[s \ {x}]
    OBVIOUS
  <2> DEFINE c == Pick(s)
  <2>2. /\ c \in s /\ f[c] \in Int /\ f[x] \in Int
        /\ s \ {c} \in SUBSET I /\ s \ {x} \in SUBSET I
        /\ Cardinality(s \ {c}) \in Nat /\ Cardinality(s \ {c}) < n
        /\ Cardinality(s \ {x}) \in Nat /\ Cardinality(s \ {x}) < n
    BY <2>1, Smaller
  <2>3. h[s] = f[c] + h[s \ {c}]
    BY <1>1, <2>1
  <2> HIDE DEF c
  <2>4. CASE x = c
    BY <2>3, <2>4
  <2>5. CASE x # c
    <3>1. Any(s \ {c}) /\ Any(s \ {x})
      <4> HIDE DEF Any
      <4> QED
        BY <1>2, <2>2
    <3>2. x \in s \ {c} /\ c \in s \ {x}
      BY <2>2, <2>5
    <3>3. h[s \ {c}] = f[x] + h[(s \ {c}) \ {x}] /\ h[s \ {x}] = f[c] + h[(s \ {x}) \ {c}]
      BY <3>1, <3>2
    <3>4. (s \ {c}) \ {x} = (s \ {x}) \ {c} /\ (s \ {x}) \ {c} \in SUBSET I
      OBVIOUS
    <3> DEFINE r == (s \ {x}) \ {c}
    <3>5. h[r] \in Int /\ h[s \ {c}] = f[x] + h[r] /\ h[s \ {x}] = f[c] + h[r]
      BY <1>1, <3>3, <3>4
    <3> HIDE DEF r
    <3> QED
      BY <2>2, <2>3, <3>5
  <2> QED
    BY <2>4, <2>5
<1>3. \A n \in Nat : n \in N
  <2> HIDE DEF N
  <2> QED
    BY <1>2, StrongInduction
<1>4. \A s \in SUBSET I : Any(s)
  <2>1. \A s \in SUBSET I : Cardinality(s) \in Nat
    BY Smaller
  <2> HIDE DEF Any
  <2> QED
    BY <1>3, <2>1
<1> QED
  BY <1>4 DEF h

(* A sum depends on the values that are added only.                        *)
LEMMA SumsAgree ==
  ASSUME NEW I, IsFiniteSet(I), NEW f \in [I -> Int],
         NEW J, IsFiniteSet(J), NEW g \in [J -> Int],
         NEW K, K \subseteq I, K \subseteq J, \A x \in K : f[x] = g[x]
  PROVE  Sums(f, I)[K] = Sums(g, J)[K]
<1> DEFINE p == Sums(f, I)
           q == Sums(g, J)
           N == {n \in Nat : \A s \in SUBSET K : Cardinality(s) = n => p[s] = q[s]}
<1>1. /\ \A s \in SUBSET I : s = {} => p[s] = 0
      /\ \A s \in SUBSET I : s # {} => p[s] = f[Pick(s)] + p[s \ {Pick(s)}]
  <2>1. \A s \in SUBSET I : p[s] = IF s = {} THEN 0 ELSE f[Pick(s)] + p[s \ {Pick(s)}]
    BY SumsEquation
  <2> HIDE DEF p
  <2> QED
    BY <2>1, Zenon
<1>2. /\ \A s \in SUBSET J : s = {} => q[s] = 0
      /\ \A s \in SUBSET J : s # {} => q[s] = g[Pick(s)] + q[s \ {Pick(s)}]
  <2>1. \A s \in SUBSET J : q[s] = IF s = {} THEN 0 ELSE g[Pick(s)] + q[s \ {Pick(s)}]
    BY SumsEquation
  <2> HIDE DEF q
  <2> QED
    BY <2>1, Zenon
<1> HIDE DEF p, q
<1>3. ASSUME NEW n \in Nat, \A m \in Nat : m < n => m \in N
      PROVE  n \in N
  <2>1. SUFFICES ASSUME NEW s \in SUBSET K, Cardinality(s) = n
                 PROVE  p[s] = q[s]
    OBVIOUS
  <2>0. s \in SUBSET I /\ s \in SUBSET J
    OBVIOUS
  <2>2. CASE s = {}
    BY <1>1, <1>2, <2>0, <2>2
  <2>3. CASE s # {}
    <3>1. /\ Pick(s) \in s /\ s \ {Pick(s)} \in SUBSET K
          /\ Cardinality(s \ {Pick(s)}) \in Nat /\ Cardinality(s \ {Pick(s)}) < n
      BY <2>0, <2>1, <2>3, Smaller
    <3>2. p[s \ {Pick(s)}] = q[s \ {Pick(s)}]
      BY <1>3, <3>1
    <3>3. f[Pick(s)] = g[Pick(s)]
      BY <3>1
    <3>4. p[s] = f[Pick(s)] + p[s \ {Pick(s)}] /\ q[s] = g[Pick(s)] + q[s \ {Pick(s)}]
      BY <1>1, <1>2, <2>0, <2>3
    <3> QED
      BY <3>2, <3>3, <3>4
  <2> QED
    BY <2>2, <2>3
<1>4. \A n \in Nat : n \in N
  <2> HIDE DEF N
  <2> QED
    BY <1>3, StrongInduction
<1>5. K \in SUBSET I /\ K \in SUBSET K
  OBVIOUS
<1>6. Cardinality(K) \in Nat
  BY <1>5, Smaller
<1> QED
  BY <1>4, <1>5, <1>6 DEF p, q

(* What SumFunction returns: an integer that no negative number makes      *)
(* negative, and that follows an update or a new argument.                 *)
LEMMA SumIsSums ==
  ASSUME NEW I, NEW f \in [I -> Int]
  PROVE  SumFunction(f) = Sums(f, I)[I]
<1>1. DOMAIN f = I
  OBVIOUS
<1> QED
  BY <1>1 DEF SumFunction, SumFunctionOnSet, FoldFunctionOnSet, MapThenFoldSet, Sums, Pick

(* The sum of finitely many integers is an integer.                        *)
LEMMA SumType ==
  ASSUME NEW I, IsFiniteSet(I), NEW f \in [I -> Int]
  PROVE  SumFunction(f) \in Int
<1>1. I \in SUBSET I
  OBVIOUS
<1>2. Sums(f, I)[I] \in Int
  BY <1>1, SumsEquation
<1> QED
  BY <1>2, SumIsSums

(* The sum of finitely many naturals is a natural.                         *)
LEMMA SumNatural ==
  ASSUME NEW I, IsFiniteSet(I), NEW f \in [I -> Nat]
  PROVE  SumFunction(f) \in Nat
<1> DEFINE h == Sums(f, I)
           N == {n \in Nat : \A s \in SUBSET I : Cardinality(s) = n => h[s] \in Nat}
<1>0. f \in [I -> Int]
  OBVIOUS
<1>1. /\ \A s \in SUBSET I : s = {} => h[s] = 0
      /\ \A s \in SUBSET I : s # {} => h[s] = f[Pick(s)] + h[s \ {Pick(s)}]
  <2>1. \A s \in SUBSET I : h[s] = IF s = {} THEN 0 ELSE f[Pick(s)] + h[s \ {Pick(s)}]
    BY <1>0, SumsEquation
  <2> HIDE DEF h
  <2> QED
    BY <2>1, Zenon
<1> HIDE DEF h
<1>2. ASSUME NEW n \in Nat, \A m \in Nat : m < n => m \in N
      PROVE  n \in N
  <2>1. SUFFICES ASSUME NEW s \in SUBSET I, Cardinality(s) = n
                 PROVE  h[s] \in Nat
    OBVIOUS
  <2>2. CASE s = {}
    <3>1. h[s] = 0
      BY <1>1, <2>2
    <3> QED
      BY <3>1
  <2>3. CASE s # {}
    <3>1. /\ Pick(s) \in s /\ s \ {Pick(s)} \in SUBSET I
          /\ Cardinality(s \ {Pick(s)}) \in Nat /\ Cardinality(s \ {Pick(s)}) < n
      BY <2>1, <2>3, Smaller
    <3>2. h[s \ {Pick(s)}] \in Nat /\ f[Pick(s)] \in Nat
      BY <1>2, <3>1
    <3>3. h[s] = f[Pick(s)] + h[s \ {Pick(s)}]
      BY <1>1, <2>3
    <3> QED
      BY <3>2, <3>3
  <2> QED
    BY <2>2, <2>3
<1>3. \A n \in Nat : n \in N
  <2> HIDE DEF N
  <2> QED
    BY <1>2, StrongInduction
<1>4. I \in SUBSET I /\ Cardinality(I) \in Nat
  BY Smaller
<1>5. h[I] \in Nat
  BY <1>3, <1>4
<1> QED
  BY <1>0, <1>5, SumIsSums DEF h

(* One value of the sum is replaced.                                       *)
LEMMA SumUpdate ==
  ASSUME NEW I, IsFiniteSet(I), NEW f \in [I -> Int], NEW g \in [I -> Int], NEW k \in I,
         \A x \in I \ {k} : g[x] = f[x]
  PROVE  SumFunction(g) = SumFunction(f) - f[k] + g[k]
<1> DEFINE J == I \ {k}
<1>1. I \in SUBSET I /\ J \in SUBSET I
  OBVIOUS
<1>2. Sums(f, I)[I] = f[k] + Sums(f, I)[J] /\ Sums(g, I)[I] = g[k] + Sums(g, I)[J]
  BY <1>1, SumsRemove
<1>3. Sums(f, I)[J] = Sums(g, I)[J]
  <2>1. J \subseteq I /\ \A x \in J : f[x] = g[x]
    OBVIOUS
  <2> HIDE DEF J
  <2> QED
    BY <2>1, SumsAgree
<1>4. Sums(f, I)[J] \in Int
  BY <1>1, SumsEquation
<1>5. f[k] \in Int /\ g[k] \in Int
  OBVIOUS
<1> HIDE DEF J
<1> QED
  BY <1>2, <1>3, <1>4, <1>5, SumIsSums

(* One value is added.                                                     *)
LEMMA SumExtend ==
  ASSUME NEW J, IsFiniteSet(J), NEW k \in J, NEW g \in [J -> Int],
         NEW f \in [J \ {k} -> Int], \A x \in J \ {k} : g[x] = f[x]
  PROVE  SumFunction(g) = SumFunction(f) + g[k]
<1> DEFINE I == J \ {k}
<1>1. IsFiniteSet(I)
  BY FS_Subset
<1>2. J \in SUBSET J /\ I \in SUBSET I /\ f \in [I -> Int]
  OBVIOUS
<1>3. Sums(g, J)[J] = g[k] + Sums(g, J)[I]
  BY <1>2, SumsRemove
<1>4. Sums(g, J)[I] = Sums(f, I)[I]
  <2>1. I \subseteq I /\ I \subseteq J /\ \A x \in I : g[x] = f[x]
    OBVIOUS
  <2> HIDE DEF I
  <2> QED
    BY <1>1, <1>2, <2>1, SumsAgree
<1> HIDE DEF I
<1>5. Sums(f, I)[I] \in Int /\ g[k] \in Int
  BY <1>1, <1>2, SumsEquation
<1>6. SumFunction(g) = Sums(g, J)[J] /\ SumFunction(f) = Sums(f, I)[I]
  BY <1>2, SumIsSums
<1> QED
  BY <1>3, <1>4, <1>5, <1>6

=============================================================================
