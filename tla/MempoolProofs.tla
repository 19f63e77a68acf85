---------------------------- MODULE MempoolProofs ----------------------------
(***************************************************************************)
(* The heap algorithms do what container/heap promises, for every set of   *)
(* entries and every slice, and the pool that is built on them keeps its   *)
(* promises, for every size and every limit.                               *)
(***************************************************************************)
EXTENDS Mempool, LoopTheorems

(* A leaf is proved by Zenon, unless it names SMT for its arithmetic, its  *)
(* sequences or its records, or PTL.                                       *)
USE Zenon

(***************************************************************************)
(* The order of the queue and positions in a heap.                         *)
(***************************************************************************)
AllTimes == [Txs -> Nat]
Slices(n) == [1 .. n -> Txs]

(* Not to come before is transitive, and Less is asymmetric.               *)
LEMMA LessOrder ==
  ASSUME NEW at \in AllTimes, NEW a \in Txs, NEW b \in Txs, NEW c \in Txs
  PROVE  /\ Less(at, a, b) => ~Less(at, b, a)
         /\ ~Less(at, a, b) /\ ~Less(at, b, c) => ~Less(at, a, c)
BY HeapAssumption, SMT DEF AllTimes, Less

(* Less only looks at the times of the two entries.                        *)
LEMMA LessLocal ==
  ASSUME NEW at, NEW bt, NEW a, NEW b, at[a] = bt[a], at[b] = bt[b]
  PROVE  Less(at, a, b) <=> Less(bt, a, b)
BY DEF Less

(* The parent of a position, and the children of one.                      *)
LEMMA Parents ==
  /\ \A j \in Nat : j > 1 =>
       /\ j \div 2 \in Nat /\ j \div 2 >= 1 /\ j \div 2 < j
       /\ j = 2 * (j \div 2) \/ j = 2 * (j \div 2) + 1
  /\ \A i \in Nat : (2 * i) \div 2 = i /\ (2 * i + 1) \div 2 = i
BY SMT

(* r has the elements of q, each as often if none is there twice.          *)
Rearranged(q, r, n) ==
  r \in Slices(n) /\ Range(r) = Range(q) /\ (IsInjective(q) => IsInjective(r))

(* Rearranging twice is rearranging.                                       *)
LEMMA RearrangedTransitive ==
  ASSUME NEW n, NEW p, NEW q, NEW r, Rearranged(p, q, n), Rearranged(q, r, n)
  PROVE  Rearranged(p, r, n)
BY DEF Rearranged

(* Swapping two elements rearranges a slice, and leaves the others in      *)
(* place.                                                                  *)
LEMMA SwapRearranges ==
  ASSUME NEW n \in Nat, NEW q \in Slices(n), NEW i \in 1 .. n, NEW j \in 1 .. n
  PROVE  LET r == Swap(q, i, j) IN
         /\ Rearranged(q, r, n)
         /\ r[i] = q[j] /\ r[j] = q[i]
         /\ \A k \in 1 .. n : k # i /\ k # j => r[k] = q[k]
<1> DEFINE r == Swap(q, i, j)
<1>1. r \in Slices(n) /\ DOMAIN q = 1 .. n /\ DOMAIN r = 1 .. n
  BY DEF Swap, Slices
<1>2. r[i] = q[j] /\ r[j] = q[i] /\ \A k \in 1 .. n : k # i /\ k # j => r[k] = q[k]
  BY DEF Swap, Slices
<1> HIDE DEF r
<1>3. Range(r) = Range(q)
  <2>1. ASSUME NEW k \in 1 .. n PROVE \E m \in 1 .. n : r[m] = q[k]
    BY <1>2
  <2>2. ASSUME NEW k \in 1 .. n PROVE \E m \in 1 .. n : q[m] = r[k]
    BY <1>2
  <2>3. \A x : x \in Range(q) <=> \E k \in 1 .. n : x = q[k]
    BY <1>1 DEF Range
  <2>4. \A x : x \in Range(r) <=> \E k \in 1 .. n : x = r[k]
    BY <1>1 DEF Range
  <2>5. \A x : x \in Range(q) <=> x \in Range(r)
    BY <2>1, <2>2, <2>3, <2>4, SMT
  <2> QED
    BY <2>5
<1>4. IsInjective(q) => IsInjective(r)
  BY <1>1, <1>2 DEF IsInjective
<1> QED
  BY <1>1, <1>2, <1>3, <1>4 DEF r, Rearranged

(***************************************************************************)
(* heap.up.                                                                *)
(***************************************************************************)

(* UpLoop satisfies its own equation.                                      *)
LEMMA UpEquation ==
  ASSUME NEW at, NEW n \in Nat, NEW q \in Slices(n), NEW j \in 1 .. n
  PROVE  UpLoop(at, n)[<<q, j>>] =
           IF j = 1 \/ ~Less(at, q[j], q[j \div 2]) THEN q
           ELSE UpLoop(at, n)[<<Swap(q, j \div 2, j), j \div 2>>]
<1> DEFINE A == [1 .. n -> Txs] \X (1 .. n)
           stop == [s \in A |-> s[2] = 1 \/ ~Less(at, s[1][s[2]], s[1][s[2] \div 2])]
           out == [s \in A |-> s[1]]
           next == [s \in A |-> <<Swap(s[1], s[2] \div 2, s[2]), s[2] \div 2>>]
           rank == [s \in A |-> s[2]]
           Body(f) == [s \in A |->
             IF s[2] = 1 \/ ~Less(at, s[1][s[2]], s[1][s[2] \div 2]) THEN s[1]
             ELSE f[<<Swap(s[1], s[2] \div 2, s[2]), s[2] \div 2>>]]
<1>1. CountsDown(A, stop, next, rank)
  <2>1. ASSUME NEW s \in A, ~stop[s]
        PROVE  next[s] \in A /\ rank[next[s]] < rank[s]
    <3>0. s[2] # 1
      <4> HIDE DEF A
      <4> QED
        BY <2>1
    <3>1. s[1] \in Slices(n) /\ s[2] \in 1 .. n /\ s[2] # 1
      BY <3>0 DEF Slices
    <3>2. s[2] \div 2 \in 1 .. n /\ s[2] \div 2 < s[2]
      BY <3>1, Parents, SMT
    <3>3. Swap(s[1], s[2] \div 2, s[2]) \in [1 .. n -> Txs]
      BY <3>1, <3>2, SwapRearranges DEF Rearranged, Slices
    <3> QED
      BY <3>2, <3>3
  <2>2. rank \in [A -> Nat]
    BY SMT
  <2> QED
    BY <2>1, <2>2 DEF CountsDown
<1>2. PICK f : f = [s \in A |-> IF stop[s] THEN out[s] ELSE f[next[s]]]
  <2> HIDE DEF A, stop, out, next, rank
  <2> QED
    BY <1>1, LoopDefined, SMT
<1>3. f = Body(f)
  BY <1>2
<1>4. UpLoop(at, n) = CHOOSE g : g = Body(g)
  BY DEF UpLoop
<1>5. UpLoop(at, n) = Body(UpLoop(at, n))
  <2> HIDE DEF Body
  <2> QED
    BY <1>3, <1>4
<1>6. <<q, j>> \in A
  BY DEF Slices
<1> QED
  BY <1>5, <1>6

(* The first n elements are a heap at and below the parents from lo on.    *)
HeapOn(at, q, lo, n) ==
  \A c \in 2 .. n : c \div 2 >= lo => ~Less(at, q[c], q[c \div 2])

(* Only the element at j may have to move up: the others, and its children *)
(* with its parent, are in order.                                          *)
UpReady(at, q, j, n) ==
  \A c \in 2 .. n :
    /\ c # j => ~Less(at, q[c], q[c \div 2])
    /\ c \div 2 = j /\ j > 1 => ~Less(at, q[c], q[j \div 2])

(* A step of the loop moves the exception to the parent.                   *)
LEMMA UpStep ==
  ASSUME NEW at \in AllTimes, NEW n \in Nat, NEW q \in Slices(n), NEW j \in 2 .. n,
         UpReady(at, q, j, n), Less(at, q[j], q[j \div 2])
  PROVE  UpReady(at, Swap(q, j \div 2, j), j \div 2, n)
<1> DEFINE p == j \div 2
           r == Swap(q, p, j)
<1>0. p \in 1 .. n /\ j \in 1 .. n /\ p < j /\ p \in Nat
  BY Parents, SMT
<1>1. /\ r[p] = q[j] /\ r[j] = q[p]
      /\ \A k \in 1 .. n : k # p /\ k # j => r[k] = q[k]
  BY <1>0, SwapRearranges
<1>2. \A k \in 1 .. n : q[k] \in Txs
  BY DEF Slices
<1> SUFFICES ASSUME NEW c \in 2 .. n
             PROVE  /\ c # p => ~Less(at, r[c], r[c \div 2])
                    /\ c \div 2 = p /\ p > 1 => ~Less(at, r[c], r[p \div 2])
  BY DEF UpReady
<1>3. c \in 1 .. n /\ c \div 2 \in 1 .. n /\ c \div 2 < c
  BY Parents, SMT
<1>4. /\ c # j => ~Less(at, q[c], q[c \div 2])
      /\ c \div 2 = j => ~Less(at, q[c], q[p])
  BY SMT DEF UpReady
<1>5. Less(at, q[j], q[p])
  OBVIOUS
<1>6. ASSUME c # p PROVE ~Less(at, r[c], r[c \div 2])
  <2>1. CASE c = j
    BY <2>1, <1>0, <1>1, <1>2, <1>5, LessOrder
  <2>2. CASE c # j /\ c \div 2 = j
    BY <2>2, <1>1, <1>3, <1>4, <1>6
  <2>3. CASE c # j /\ c \div 2 = p
    <3>1. ~Less(at, q[c], q[p]) /\ ~Less(at, q[p], q[j])
      BY <2>3, <1>0, <1>2, <1>4, <1>5, LessOrder
    <3>2. ~Less(at, q[c], q[j])
      BY <3>1, <1>0, <1>2, <1>3, LessOrder
    <3> QED
      BY <3>2, <2>3, <1>1, <1>3, <1>6
  <2>4. CASE c # j /\ c \div 2 # j /\ c \div 2 # p
    BY <2>4, <1>1, <1>3, <1>4, <1>6
  <2> QED
    BY <2>1, <2>2, <2>3, <2>4
<1>7. ASSUME c \div 2 = p, p > 1 PROVE ~Less(at, r[c], r[p \div 2])
  <2>1. p \div 2 \in 1 .. n /\ p \div 2 < p
    BY <1>0, <1>7, Parents, SMT
  <2>2. ~Less(at, q[p], q[p \div 2])
    BY <1>0, <1>7, SMT DEF UpReady
  <2>3. r[p \div 2] = q[p \div 2]
    BY <2>1, <1>0, <1>1, SMT
  <2>4. CASE c = j
    BY <2>2, <2>3, <2>4, <1>1
  <2>5. CASE c # j
    <3>1. ~Less(at, q[c], q[p]) /\ r[c] = q[c]
      BY <2>5, <1>1, <1>3, <1>4, <1>7, SMT
    <3> QED
      BY <3>1, <2>1, <2>2, <2>3, <1>0, <1>2, <1>3, LessOrder, SMT
  <2> QED
    BY <2>4, <2>5
<1> QED
  BY <1>6, <1>7

(* heap.up rearranges the slice, and makes it a heap if only the element   *)
(* that it moves is out of place.                                          *)
LEMMA UpResult ==
  ASSUME NEW at \in AllTimes, NEW n \in Nat
  PROVE  \A q \in Slices(n), j \in 1 .. n :
           LET r == UpLoop(at, n)[<<q, j>>] IN
           Rearranged(q, r, n) /\ (UpReady(at, q, j, n) => HeapOn(at, r, 1, n))
<1> DEFINE P(q, j) == LET r == UpLoop(at, n)[<<q, j>>] IN
             Rearranged(q, r, n) /\ (UpReady(at, q, j, n) => HeapOn(at, r, 1, n))
           S == {k \in Nat : \A q \in Slices(n), j \in 1 .. n : j = k => P(q, j)}
<1>1. ASSUME NEW j \in Nat, \A m \in Nat : m < j => m \in S
      PROVE  j \in S
  <2>1. SUFFICES ASSUME NEW q \in Slices(n), j \in 1 .. n PROVE P(q, j)
    BY <1>1
  <2> DEFINE p == j \div 2
  <2>2. CASE j = 1 \/ ~Less(at, q[j], q[p])
    <3>1. UpLoop(at, n)[<<q, j>>] = q
      BY <2>1, <2>2, UpEquation
    <3>2. Rearranged(q, q, n)
      BY DEF Rearranged
    <3>3. ASSUME UpReady(at, q, j, n) PROVE HeapOn(at, q, 1, n)
      BY <2>2, <3>3, SMT DEF UpReady, HeapOn
    <3> QED
      BY <3>1, <3>2, <3>3
  <2>3. CASE j # 1 /\ Less(at, q[j], q[p])
    <3> DEFINE r == Swap(q, p, j)
    <3>1. j \in 2 .. n /\ p \in 1 .. n /\ p \in Nat /\ p < j
      BY <2>1, <2>3, Parents, SMT
    <3>2. UpLoop(at, n)[<<q, j>>] = UpLoop(at, n)[<<r, p>>]
      BY <2>1, <2>3, UpEquation, SMT
    <3>3. Rearranged(q, r, n)
      BY <2>1, <3>1, SwapRearranges
    <3>4. UpReady(at, q, j, n) => UpReady(at, r, p, n)
      BY <2>3, <3>1, UpStep
    <3>5. P(r, p)
      <4>1. p \in S /\ r \in Slices(n)
        BY <1>1, <3>1, <3>3 DEF Rearranged
      <4> HIDE DEF P, r
      <4> QED
        BY <4>1, <3>1
    <3> HIDE DEF r, p
    <3>6. Rearranged(q, UpLoop(at, n)[<<q, j>>], n)
      BY <3>2, <3>3, <3>5, RearrangedTransitive
    <3> QED
      BY <3>2, <3>4, <3>5, <3>6
  <2> QED
    BY <2>2, <2>3
<1>2. \A k \in Nat : k \in S
  <2> HIDE DEF S
  <2> QED
    BY <1>1, StrongInduction
<1> HIDE DEF P
<1>3. \A q \in Slices(n), j \in 1 .. n : P(q, j)
  BY <1>2, SMT
<1> QED
  BY <1>3 DEF P

(***************************************************************************)
(* heap.down.                                                              *)
(***************************************************************************)

(* FirstChild is a child, and no child comes before it.                    *)
LEMMA FirstChildIsFirst ==
  ASSUME NEW at \in AllTimes, NEW len \in Nat, NEW n \in 0 .. len,
         NEW q \in Slices(len), NEW i \in 1 .. len, 2 * i <= n
  PROVE  LET j == FirstChild(at, q, i, n) IN
         /\ j \in 2 .. n /\ j \div 2 = i /\ i < j
         /\ \A c \in 2 .. n : c \div 2 = i => ~Less(at, q[c], q[j])
<1> DEFINE j == FirstChild(at, q, i, n)
<1>1. j \in {2 * i, 2 * i + 1} /\ j <= n
  BY DEF FirstChild
<1>2. j \in 2 .. n /\ j \div 2 = i /\ i < j
  BY <1>1, Parents, SMT
<1>3. ASSUME NEW c \in 2 .. n, c \div 2 = i PROVE ~Less(at, q[c], q[j])
  <2>1. c = 2 * i \/ c = 2 * i + 1
    BY <1>3, Parents, SMT
  <2>2. q[c] \in Txs /\ q[2 * i] \in Txs
    BY SMT DEF Slices
  <2>3. CASE j = 2 * i + 1
    <3>1. Less(at, q[j], q[2 * i]) /\ q[j] \in Txs
      BY <1>2, <2>3, SMT DEF FirstChild, Slices
    <3> HIDE DEF j
    <3> QED
      BY <2>1, <2>2, <2>3, <3>1, LessOrder
  <2>4. CASE j = 2 * i
    <3>1. 2 * i + 1 <= n => ~Less(at, q[2 * i + 1], q[j])
      BY <2>4, SMT DEF FirstChild
    <3> HIDE DEF j
    <3> QED
      BY <2>1, <2>2, <2>4, <3>1, LessOrder, SMT
  <2> QED
    BY <1>1, <2>3, <2>4
<1> QED
  BY <1>2, <1>3

(* DownLoop satisfies its own equation.                                    *)
LEMMA DownEquation ==
  ASSUME NEW at \in AllTimes, NEW len \in Nat, NEW n \in 0 .. len,
         NEW q \in Slices(len), NEW i \in 1 .. len
  PROVE  LET j == FirstChild(at, q, i, n) IN
         DownLoop(at, len, n)[<<q, i>>] =
           IF 2 * i > n \/ ~Less(at, q[j], q[i]) THEN q
           ELSE DownLoop(at, len, n)[<<Swap(q, i, j), j>>]
<1> DEFINE A == [1 .. len -> Txs] \X (1 .. len)
           child(s) == FirstChild(at, s[1], s[2], n)
           stop == [s \in A |-> 2 * s[2] > n \/ ~Less(at, s[1][child(s)], s[1][s[2]])]
           out == [s \in A |-> s[1]]
           next == [s \in A |-> <<Swap(s[1], s[2], child(s)), child(s)>>]
           rank == [s \in A |-> len - s[2]]
           Body(f) == [s \in A |->
             IF 2 * s[2] > n \/ ~Less(at, s[1][child(s)], s[1][s[2]]) THEN s[1]
             ELSE f[<<Swap(s[1], s[2], child(s)), child(s)>>]]
<1>1. CountsDown(A, stop, next, rank)
  <2>1. ASSUME NEW s \in A, ~stop[s]
        PROVE  next[s] \in A /\ rank[next[s]] < rank[s]
    <3>0. s[1] \in Slices(len) /\ s[2] \in 1 .. len
      BY DEF Slices
    <3>1. 2 * s[2] <= n
      <4>1. ~(2 * s[2] > n)
        <5> HIDE DEF child, A
        <5> QED
          BY <2>1
      <4> QED
        BY <3>0, <4>1, SMT
    <3>2. child(s) \in 1 .. len /\ s[2] < child(s)
      <4> HIDE DEF A
      <4>1. child(s) \in 2 .. n /\ s[2] < child(s)
        BY <3>0, <3>1, FirstChildIsFirst
      <4> QED
        BY <4>1, SMT
    <3>3. Swap(s[1], s[2], child(s)) \in [1 .. len -> Txs]
      <4> HIDE DEF A, child
      <4> QED
        BY <3>0, <3>2, SwapRearranges DEF Rearranged, Slices
    <3> HIDE DEF child
    <3> QED
      BY <3>0, <3>2, <3>3, SMT
  <2>2. rank \in [A -> Nat]
    BY SMT
  <2> HIDE DEF A, stop, next, rank
  <2> QED
    BY <2>1, <2>2 DEF CountsDown
<1>2. PICK f : f = [s \in A |-> IF stop[s] THEN out[s] ELSE f[next[s]]]
  <2> HIDE DEF A, stop, out, next, rank
  <2> QED
    BY <1>1, LoopDefined, SMT
<1>3. f = Body(f)
  <2> HIDE DEF child
  <2> QED
    BY <1>2
<1>4. DownLoop(at, len, n) = CHOOSE g : g = Body(g)
  BY DEF DownLoop
<1>5. DownLoop(at, len, n) = Body(DownLoop(at, len, n))
  <2> HIDE DEF Body
  <2> QED
    BY <1>3, <1>4
<1>6. <<q, i>> \in A
  BY DEF Slices
<1> QED
  BY <1>5, <1>6

(* Among the parents from lo on, only the element at i may have to move    *)
(* down.                                                                   *)
DownReady(at, q, lo, i, n) ==
  \A c \in 2 .. n :
    /\ c \div 2 >= lo /\ c \div 2 # i => ~Less(at, q[c], q[c \div 2])
    /\ c \div 2 = i /\ i > 1 /\ i \div 2 >= lo => ~Less(at, q[c], q[i \div 2])

(* A step of the loop moves the exception to the child.                    *)
LEMMA DownStep ==
  ASSUME NEW at \in AllTimes, NEW len \in Nat, NEW n \in 0 .. len,
         NEW q \in Slices(len), NEW i \in 1 .. len, NEW lo \in Nat, 2 * i <= n,
         DownReady(at, q, lo, i, n), Less(at, q[FirstChild(at, q, i, n)], q[i])
  PROVE  LET j == FirstChild(at, q, i, n) IN DownReady(at, Swap(q, i, j), lo, j, n)
<1> DEFINE j == FirstChild(at, q, i, n)
           r == Swap(q, i, j)
<1>0. /\ j \in 2 .. n /\ j \div 2 = i /\ i < j
      /\ \A c \in 2 .. n : c \div 2 = i => ~Less(at, q[c], q[j])
  BY FirstChildIsFirst
<1>1. /\ r[i] = q[j] /\ r[j] = q[i]
      /\ \A k \in 1 .. len : k # i /\ k # j => r[k] = q[k]
  <2> HIDE DEF j
  <2> QED
    BY <1>0, SwapRearranges, SMT
<1>2. \A k \in 1 .. len : q[k] \in Txs
  BY DEF Slices
<1>3. Less(at, q[j], q[i])
  OBVIOUS
<1> HIDE DEF j, r
<1>4. ASSUME NEW c \in 2 .. n, c \div 2 >= lo, c \div 2 # j
      PROVE  ~Less(at, r[c], r[c \div 2])
  <2>1. c \in 1 .. len /\ c \div 2 \in 1 .. len /\ c \div 2 < c /\ j \in 1 .. len
    BY <1>0, Parents, SMT
  <2>2. CASE c = j
    BY <2>1, <2>2, <1>0, <1>1, <1>2, <1>3, LessOrder
  <2>3. CASE c # j /\ c \div 2 = i
    BY <2>1, <2>3, <1>0, <1>1, <1>4
  <2>4. CASE c = i
    <3>1. ~Less(at, q[j], q[i \div 2])
      BY <2>4, <1>0, <1>4, SMT DEF DownReady
    <3> QED
      BY <3>1, <2>1, <2>4, <1>0, <1>1, SMT
  <2>5. CASE c # j /\ c # i /\ c \div 2 # i
    <3>1. ~Less(at, q[c], q[c \div 2])
      BY <2>5, <1>4 DEF DownReady
    <3> QED
      BY <3>1, <2>1, <2>5, <1>1, <1>4
  <2> QED
    BY <2>2, <2>3, <2>4, <2>5
<1>5. ASSUME NEW c \in 2 .. n, c \div 2 = j, j > 1, j \div 2 >= lo
      PROVE  ~Less(at, r[c], r[j \div 2])
  <2>1. c \in 1 .. len /\ j < c
    BY <1>5, Parents, SMT
  <2>2. c \div 2 >= lo /\ c \div 2 # i
    BY <1>0, <1>5, SMT
  <2>3. ~Less(at, q[c], q[j])
    BY <1>5, <2>2 DEF DownReady
  <2> QED
    BY <2>1, <2>3, <1>0, <1>1, SMT
<1> QED
  BY <1>4, <1>5 DEF DownReady, j, r

(* heap.down rearranges the slice, leaves what is beyond n where it is and *)
(* makes the rest a heap if only the element that it moves is out of place.*)
DownDoes(at, q, r, lo, i, len, n) ==
  /\ Rearranged(q, r, len)
  /\ \A k \in 1 .. len : k > n => r[k] = q[k]
  /\ DownReady(at, q, lo, i, n) => HeapOn(at, r, lo, n)

(* The loop of heap.down rearranges its n elements and makes a heap of     *)
(* what was one except at i.                                               *)
LEMMA DownResult ==
  ASSUME NEW at \in AllTimes, NEW len \in Nat, NEW n \in 0 .. len, NEW lo \in Nat
  PROVE  \A q \in Slices(len), i \in 1 .. len :
           DownDoes(at, q, DownLoop(at, len, n)[<<q, i>>], lo, i, len, n)
<1> DEFINE P(q, i) == DownDoes(at, q, DownLoop(at, len, n)[<<q, i>>], lo, i, len, n)
           S == {k \in Nat : \A q \in Slices(len), i \in 1 .. len : len - i = k => P(q, i)}
<1>1. ASSUME NEW k \in Nat, \A m \in Nat : m < k => m \in S
      PROVE  k \in S
  <2>1. SUFFICES ASSUME NEW q \in Slices(len), NEW i \in 1 .. len, len - i = k
                 PROVE  P(q, i)
    BY <1>1
  <2> DEFINE j == FirstChild(at, q, i, n)
  <2>2. CASE 2 * i > n \/ ~Less(at, q[j], q[i])
    <3>1. DownLoop(at, len, n)[<<q, i>>] = q
      BY <2>2, DownEquation
    <3>2. Rearranged(q, q, len)
      BY DEF Rearranged
    <3>3. ASSUME DownReady(at, q, lo, i, n), NEW c \in 2 .. n, c \div 2 >= lo
          PROVE  ~Less(at, q[c], q[c \div 2])
      <4>1. CASE c \div 2 # i
        BY <3>3, <4>1 DEF DownReady
      <4>2. CASE c \div 2 = i
        <5>1. 2 * i <= n
          BY <4>2, Parents, SMT
        <5>2. /\ j \in 2 .. n /\ ~Less(at, q[c], q[j])
              /\ ~Less(at, q[j], q[i])
          BY <2>2, <4>2, <5>1, FirstChildIsFirst, SMT
        <5>3. q[c] \in Txs /\ q[j] \in Txs /\ q[i] \in Txs
          BY <5>2, SMT DEF Slices
        <5> HIDE DEF j
        <5> QED
          BY <4>2, <5>2, <5>3, LessOrder
      <4> QED
        BY <4>1, <4>2
    <3> QED
      BY <3>1, <3>2, <3>3 DEF DownDoes, HeapOn
  <2>3. CASE 2 * i <= n /\ Less(at, q[j], q[i])
    <3> DEFINE r == Swap(q, i, j)
    <3>1. j \in 1 .. len /\ i < j /\ j <= n
      <4>1. j \in 2 .. n /\ i < j
        BY <2>3, FirstChildIsFirst
      <4> QED
        BY <4>1, SMT
    <3>2. DownLoop(at, len, n)[<<q, i>>] = DownLoop(at, len, n)[<<r, j>>]
      BY <2>3, DownEquation, SMT
    <3>4. DownReady(at, q, lo, i, n) => DownReady(at, r, lo, j, n)
      BY <2>3, DownStep
    <3> HIDE DEF j
    <3>3. /\ Rearranged(q, r, len)
          /\ \A m \in 1 .. len : m > n => r[m] = q[m]
      BY <2>3, <3>1, SwapRearranges, SMT
    <3>5. P(r, j)
      <4>1. len - j \in Nat /\ len - j < k
        BY <2>1, <3>1, SMT
      <4>2. len - j \in S /\ r \in Slices(len)
        BY <1>1, <3>3, <4>1 DEF Rearranged
      <4> HIDE DEF P, r
      <4> QED
        BY <4>2, <3>1
    <3> HIDE DEF r
    <3>6. Rearranged(q, DownLoop(at, len, n)[<<q, i>>], len)
      BY <3>2, <3>3, <3>5, RearrangedTransitive DEF DownDoes
    <3> QED
      BY <3>2, <3>3, <3>4, <3>5, <3>6 DEF DownDoes
  <2> QED
    BY <2>2, <2>3, SMT
<1>2. \A k \in Nat : k \in S
  <2> HIDE DEF S
  <2> QED
    BY <1>1, StrongInduction
<1> HIDE DEF P
<1>3. ASSUME NEW q \in Slices(len), NEW i \in 1 .. len PROVE P(q, i)
  <2>1. len - i \in Nat
    BY SMT
  <2> QED
    BY <1>2, <2>1
<1> QED
  BY <1>3 DEF P

(***************************************************************************)
(* The operations of container/heap on slices.                             *)
(***************************************************************************)
LEMMA SliceIsSeq ==
  /\ \A q \in Seq(Txs) : Len(q) \in Nat /\ DOMAIN q = 1 .. Len(q) /\ q \in Slices(Len(q))
  /\ \A n \in Nat : \A q \in Slices(n) : q \in Seq(Txs) /\ Len(q) = n /\ DOMAIN q = 1 .. n
<1>1. ASSUME NEW q \in Seq(Txs)
      PROVE  Len(q) \in Nat /\ DOMAIN q = 1 .. Len(q) /\ q \in Slices(Len(q))
  BY SMT DEF Slices
<1>2. ASSUME NEW n \in Nat, NEW q \in Slices(n)
      PROVE  q \in Seq(Txs) /\ Len(q) = n /\ DOMAIN q = 1 .. n
  <2>1. q \in Seq(Txs) /\ DOMAIN q = 1 .. n
    BY SMT DEF Slices
  <2> QED
    BY <2>1, SMT
<1> QED
  BY <1>1, <1>2

(* Only the empty slice has no elements.                                   *)
LEMMA EmptySlice == \A q \in Seq(Txs) : q = <<>> <=> Len(q) = 0
BY SMT

(* HeapOrdered is HeapOn for the whole slice.                              *)
LEMMA HeapOnAll ==
  ASSUME NEW at, NEW q \in Seq(Txs)
  PROVE  HeapOrdered(at, q) <=> HeapOn(at, q, 1, Len(q))
<1>1. \A c \in 2 .. Len(q) : c \div 2 >= 1
  BY SliceIsSeq, Parents, SMT
<1> QED
  BY <1>1 DEF HeapOrdered, HeapOn

(* What the operations keep: the elements, each once.                      *)
SameElements(q, r) ==
  r \in Seq(Txs) /\ Len(r) = Len(q) /\ Range(r) = Range(q) /\ (IsInjective(q) => IsInjective(r))

(* A rearranged slice has the same elements.                               *)
LEMMA RearrangedSame ==
  ASSUME NEW q \in Seq(Txs), NEW r, Rearranged(q, r, Len(q))
  PROVE  SameElements(q, r)
BY SliceIsSeq DEF Rearranged, SameElements

(* heap.up on a slice.                                                     *)
LEMMA UpHeap ==
  ASSUME NEW at \in AllTimes, NEW q \in Seq(Txs), NEW j \in 1 .. Len(q)
  PROVE  /\ SameElements(q, Up(at, q, j))
         /\ UpReady(at, q, j, Len(q)) => HeapOrdered(at, Up(at, q, j))
<1> DEFINE r == UpLoop(at, Len(q))[<<q, j>>]
<1>1. Len(q) \in Nat /\ q \in Slices(Len(q))
  BY SliceIsSeq
<1>2. /\ Rearranged(q, r, Len(q))
      /\ UpReady(at, q, j, Len(q)) => HeapOn(at, r, 1, Len(q))
  BY <1>1, UpResult
<1> HIDE DEF r
<1>3. SameElements(q, r)
  BY <1>2, RearrangedSame
<1>4. HeapOn(at, r, 1, Len(q)) => HeapOrdered(at, r)
  BY <1>3, HeapOnAll DEF SameElements
<1> QED
  BY <1>2, <1>3, <1>4 DEF r, Up

(* heap.down on a slice.                                                   *)
LEMMA DownHeap ==
  ASSUME NEW at \in AllTimes, NEW q \in Seq(Txs), NEW i \in 1 .. Len(q),
         NEW n \in 0 .. Len(q), NEW lo \in Nat
  PROVE  /\ SameElements(q, Down(at, q, i, n))
         /\ DownDoes(at, q, Down(at, q, i, n), lo, i, Len(q), n)
<1> DEFINE r == DownLoop(at, Len(q), n)[<<q, i>>]
<1>1. Len(q) \in Nat /\ q \in Slices(Len(q))
  BY SliceIsSeq
<1>2. DownDoes(at, q, r, lo, i, Len(q), n)
  BY <1>1, DownResult
<1> HIDE DEF r
<1>3. SameElements(q, r)
  BY <1>2, RearrangedSame DEF DownDoes
<1> QED
  BY <1>2, <1>3 DEF r, Down

(* heap.Push.                                                              *)
LEMMA PushHeap ==
  ASSUME NEW at \in AllTimes, NEW q \in Seq(Txs), NEW t \in Txs,
         HeapOrdered(at, q), IsInjective(q), t \notin Range(q)
  PROVE  LET r == HeapPush(at, q, t) IN
         /\ r \in Seq(Txs) /\ Range(r) = Range(q) \cup {t} /\ IsInjective(r)
         /\ HeapOrdered(at, r)
<1> DEFINE a == Append(q, t)
           m == Len(q) + 1
<1>1. /\ a \in Seq(Txs) /\ Len(a) = m /\ m \in Nat /\ m \in 1 .. Len(a)
      /\ a[m] = t /\ \A k \in 1 .. Len(q) : a[k] = q[k]
      /\ DOMAIN a = 1 .. m /\ DOMAIN q = 1 .. Len(q) /\ Len(q) \in Nat
  BY SliceIsSeq, SMT
<1> HIDE DEF a
<1>2. Range(a) = Range(q) \cup {t}
  <2>1. \A x : x \in Range(a) <=> \E k \in 1 .. m : x = a[k]
    BY <1>1 DEF Range
  <2>2. \A x : x \in Range(q) <=> \E k \in 1 .. Len(q) : x = q[k]
    BY <1>1 DEF Range
  <2>3. \A k \in 1 .. m : k = m \/ k \in 1 .. Len(q)
    BY <1>1, SMT
  <2>4. \A k \in 1 .. Len(q) : k \in 1 .. m
    BY <1>1, SMT
  <2> HIDE DEF m
  <2>5. ASSUME NEW x \in Range(a) PROVE x \in Range(q) \cup {t}
    BY <1>1, <2>1, <2>2, <2>3, SMT
  <2>6. ASSUME NEW x \in Range(q) \cup {t} PROVE x \in Range(a)
    BY <1>1, <2>1, <2>2, <2>4, SMT
  <2> QED
    BY <2>5, <2>6
<1>3. IsInjective(a)
  <2>1. \A k \in 1 .. Len(q) : q[k] # t
    BY <1>1 DEF Range
  <2>2. \A k, l \in 1 .. Len(q) : q[k] = q[l] => k = l
    BY <1>1 DEF IsInjective
  <2> QED
    BY <1>1, <2>1, <2>2, SMT DEF IsInjective
<1>4. UpReady(at, a, m, Len(a))
  <2>1. ASSUME NEW c \in 2 .. m PROVE c \div 2 \in 1 .. Len(q) /\ (c # m => c \in 2 .. Len(q))
    BY <1>1, Parents, SMT
  <2> QED
    BY <1>1, <2>1, SMT DEF UpReady, HeapOrdered
<1>5. /\ SameElements(a, Up(at, a, m))
      /\ HeapOrdered(at, Up(at, a, m))
  BY <1>1, <1>4, UpHeap
<1> QED
  BY <1>2, <1>3, <1>5 DEF HeapPush, SameElements, a

(* A slice without its last element.                                       *)
LEMMA FrontKeeps ==
  ASSUME NEW q \in Seq(Txs), Len(q) >= 1
  PROVE  /\ Cut(q) \in Seq(Txs) /\ Len(Cut(q)) = Len(q) - 1
         /\ \A k \in 1 .. Len(q) - 1 : Cut(q)[k] = q[k]
         /\ IsInjective(q) => IsInjective(Cut(q)) /\ Range(Cut(q)) = Range(q) \ {q[Len(q)]}
<1> DEFINE f == Cut(q)
           n == Len(q)
<1>1. n \in Nat /\ n >= 1 /\ DOMAIN q = 1 .. n /\ n \in 1 .. n
  BY SliceIsSeq, SMT
<1>2. f \in Seq(Txs) /\ Len(f) = n - 1 /\ \A k \in 1 .. n - 1 : f[k] = q[k]
  BY <1>1, SMT DEF Cut
<1> HIDE DEF f
<1>3. DOMAIN f = 1 .. n - 1
  BY <1>2, SliceIsSeq
<1>4. ASSUME IsInjective(q) PROVE IsInjective(f) /\ Range(f) = Range(q) \ {q[n]}
  <2>1. \A k, l \in 1 .. n : q[k] = q[l] => k = l
    BY <1>1, <1>4 DEF IsInjective
  <2>2. IsInjective(f)
    BY <1>1, <1>2, <1>3, <2>1, SMT DEF IsInjective
  <2>3. ASSUME NEW x \in Range(f) PROVE x \in Range(q) \ {q[n]}
    <3>1. PICK k \in 1 .. n - 1 : x = f[k]
      BY <1>3 DEF Range
    <3>2. k \in 1 .. n /\ k # n /\ x = q[k]
      <4> HIDE DEF n
      <4> QED
        BY <1>1, <1>2, <3>1, SMT
    <3> QED
      BY <1>1, <2>1, <3>2 DEF Range
  <2>4. ASSUME NEW x \in Range(q) \ {q[n]} PROVE x \in Range(f)
    <3>1. PICK k \in 1 .. n : x = q[k]
      BY <1>1 DEF Range
    <3>2. k \in 1 .. n - 1 /\ x = f[k]
      <4> HIDE DEF n
      <4> QED
        BY <1>1, <1>2, <2>4, <3>1, SMT
    <3> QED
      BY <1>3, <3>2 DEF Range
  <2> QED
    BY <2>2, <2>3, <2>4
<1> QED
  BY <1>2, <1>4 DEF f

(* Only the element at i may be out of place, in either direction.         *)
FixReady(at, q, i, n) ==
  \A c \in 2 .. n :
    /\ c # i /\ c \div 2 # i => ~Less(at, q[c], q[c \div 2])
    /\ c \div 2 = i /\ i > 1 => ~Less(at, q[c], q[i \div 2])

(* heap.Fix.  If the element moves down it was in order with its parent;   *)
(* otherwise it was in order with its children.                            *)
LEMMA FixHeap ==
  ASSUME NEW at \in AllTimes, NEW q \in Seq(Txs), NEW i \in 1 .. Len(q),
         FixReady(at, q, i, Len(q))
  PROVE  SameElements(q, HeapFix(at, q, i)) /\ HeapOrdered(at, HeapFix(at, q, i))
<1> DEFINE n == Len(q)
           j == FirstChild(at, q, i, n)
           d == Down(at, q, i, n)
<1>1. n \in Nat /\ n \in 0 .. n /\ q \in Slices(n) /\ \A k \in 1 .. n : q[k] \in Txs
  BY SliceIsSeq, SMT DEF Slices
<1>2. SameElements(q, d) /\ DownDoes(at, q, d, 1, i, n, n)
  BY <1>1, DownHeap
<1>3. SameElements(q, Up(at, q, i)) /\ (UpReady(at, q, i, n) => HeapOrdered(at, Up(at, q, i)))
  BY UpHeap
<1>4. ASSUME 2 * i <= n PROVE /\ j \in 2 .. n /\ j \div 2 = i /\ j \in 1 .. n
                              /\ \A c \in 2 .. n : c \div 2 = i => ~Less(at, q[c], q[j])
  <2>1. j \in 2 .. n /\ j \div 2 = i /\ \A c \in 2 .. n : c \div 2 = i => ~Less(at, q[c], q[j])
    BY <1>1, <1>4, FirstChildIsFirst
  <2> QED
    BY <2>1, SMT
<1>5. \A c \in 2 .. n : c \in 1 .. n /\ c \div 2 \in 1 .. n /\ (c \div 2 = i => 2 * i <= n)
  BY <1>1, Parents, SMT
<1>6. CASE 2 * i <= n /\ Less(at, q[j], q[i])
  <2> HIDE DEF j
  <2>1. ASSUME i > 1 PROVE ~Less(at, q[i], q[i \div 2])
    <3>1. i \in 2 .. n /\ i \div 2 \in 1 .. n
      BY <1>5, <2>1, SMT
    <3>2. ~Less(at, q[j], q[i \div 2])
      BY <1>4, <1>6, <2>1 DEF FixReady
    <3> QED
      BY <1>1, <1>4, <1>6, <3>1, <3>2, LessOrder
  <2>2. DownReady(at, q, 1, i, n)
    <3>1. ASSUME NEW c \in 2 .. n, c \div 2 # i PROVE ~Less(at, q[c], q[c \div 2])
      BY <2>1, <3>1, SMT DEF FixReady
    <3> QED
      BY <3>1 DEF DownReady, FixReady
  <2>3. HeapOrdered(at, d)
    <3> HIDE DEF d
    <3> QED
      BY <1>2, <2>2, HeapOnAll DEF DownDoes, SameElements
  <2>4. ASSUME d = q PROVE UpReady(at, q, i, n)
    <3>1. \A c \in 2 .. n : ~Less(at, q[c], q[c \div 2])
      BY <2>3, <2>4 DEF HeapOrdered
    <3> QED
      BY <3>1 DEF FixReady, UpReady
  <2> QED
    BY <1>2, <1>3, <2>3, <2>4 DEF HeapFix
<1>7. CASE 2 * i > n \/ ~Less(at, q[j], q[i])
  <2>1. d = q
    BY <1>1, <1>7, DownEquation DEF Down
  <2> HIDE DEF j
  <2>2. ASSUME NEW c \in 2 .. n, c # i PROVE ~Less(at, q[c], q[c \div 2])
    <3>1. CASE c \div 2 # i
      BY <2>2, <3>1 DEF FixReady
    <3>2. CASE c \div 2 = i
      <4>1. 2 * i <= n /\ c \in 1 .. n
        BY <1>5, <3>2
      <4>2. ~Less(at, q[c], q[j]) /\ ~Less(at, q[j], q[i]) /\ j \in 1 .. n
        BY <1>1, <1>4, <1>7, <3>2, <4>1, SMT
      <4> QED
        BY <1>1, <3>2, <4>1, <4>2, LessOrder
    <3> QED
      BY <3>1, <3>2
  <2>3. UpReady(at, q, i, n)
    BY <2>2 DEF UpReady, FixReady
  <2> QED
    BY <1>3, <2>1, <2>3 DEF HeapFix
<1>8. 2 * i \in Nat
  BY SMT
<1> QED
  BY <1>1, <1>6, <1>7, <1>8, SMT

(* removeLowestGasPrice, for any position i: the last element takes the    *)
(* place of the one at i.                                                  *)
Without(at, q, i) ==
  IF i = Len(q) THEN Cut(q) ELSE HeapFix(at, Cut([q EXCEPT ![i] = q[Len(q)]]), i)

(* What removeLowestGasPrice leaves is a heap of the other elements.       *)
LEMMA RemoveHeap ==
  ASSUME NEW at \in AllTimes, NEW q \in Seq(Txs), NEW i \in 1 .. Len(q),
         HeapOrdered(at, q), IsInjective(q)
  PROVE  LET r == Without(at, q, i) IN
         /\ r \in Seq(Txs) /\ Range(r) = Range(q) \ {q[i]} /\ IsInjective(r)
         /\ HeapOrdered(at, r)
<1> DEFINE n == Len(q)
           f == Cut(q)
<1>0. n \in Nat /\ n >= 1 /\ DOMAIN q = 1 .. n /\ n \in 1 .. n /\ \A k \in 1 .. n : q[k] \in Txs
  BY SliceIsSeq, SMT DEF Slices
<1>1. \A c \in 2 .. n : ~Less(at, q[c], q[c \div 2])
  BY DEF HeapOrdered
<1>2. \A c \in 2 .. n : c \in 1 .. n /\ c \div 2 \in 1 .. n /\ c \div 2 < c
  BY <1>0, Parents, SMT
<1>3. CASE i = n
  <2>1. /\ f \in Seq(Txs) /\ Len(f) = n - 1
        /\ \A k \in 1 .. n - 1 : f[k] = q[k]
        /\ IsInjective(f) /\ Range(f) = Range(q) \ {q[n]}
    BY <1>0, FrontKeeps
  <2> HIDE DEF f, n
  <2>2. HeapOrdered(at, f)
    <3>1. ASSUME NEW c \in 2 .. n - 1
          PROVE  c \in 2 .. n /\ c \in 1 .. n - 1 /\ c \div 2 \in 1 .. n - 1
      BY <1>0, Parents, SMT
    <3> QED
      BY <1>1, <2>1, <3>1, SMT DEF HeapOrdered
  <2> QED
    BY <1>3, <2>1, <2>2 DEF Without, f, n
<1>4. CASE i # n
  <2> DEFINE e == [q EXCEPT ![i] = q[n]]
             g == Cut(e)
             r == HeapFix(at, g, i)
  <2>1. /\ e \in Seq(Txs) /\ Len(e) = n /\ DOMAIN e = 1 .. n
        /\ e[i] = q[n] /\ \A k \in 1 .. n : k # i => e[k] = q[k]
    <3>1. e \in Slices(n)
      BY <1>0 DEF Slices
    <3>2. e[i] = q[n] /\ \A k \in 1 .. n : k # i => e[k] = q[k]
      BY <1>0
    <3> HIDE DEF e, n
    <3> QED
      BY <1>0, <3>1, <3>2, SliceIsSeq
  <2> HIDE DEF e
  <2>2. g \in Seq(Txs) /\ Len(g) = n - 1 /\ \A k \in 1 .. n - 1 : g[k] = e[k]
    BY <1>0, <2>1, FrontKeeps
  <2> HIDE DEF g, n
  <2>3. DOMAIN g = 1 .. n - 1 /\ i \in 1 .. n - 1
    <3>1. i \in 1 .. n
      BY DEF n
    <3> QED
      BY <1>0, <1>4, <2>2, <3>1, SliceIsSeq, SMT
  <2>4. g[i] = q[n] /\ \A k \in 1 .. n - 1 : k # i => g[k] = q[k]
    BY <1>0, <2>1, <2>2, <2>3, SMT
  <2>5. \A k, l \in 1 .. n : q[k] = q[l] => k = l
    BY <1>0 DEF IsInjective
  <2>6. IsInjective(g)
    <3>1. ASSUME NEW k \in 1 .. n - 1, NEW l \in 1 .. n - 1, g[k] = g[l] PROVE k = l
      BY <1>0, <2>4, <2>5, <3>1, SMT
    <3> QED
      BY <2>3, <3>1 DEF IsInjective
  <2>7. Range(g) = Range(q) \ {q[i]}
    <3>1. ASSUME NEW x \in Range(g) PROVE x \in Range(q) \ {q[i]}
      <4>1. PICK k \in 1 .. n - 1 : x = g[k]
        BY <2>3 DEF Range
      <4>2. PICK l \in 1 .. n : l # i /\ x = q[l]
        BY <1>0, <1>4, <2>3, <2>4, <4>1, SMT
      <4>3. x \in Range(q)
        BY <1>0, <4>2 DEF Range
      <4> QED
        BY <1>0, <2>3, <2>5, <4>2, <4>3, SMT
    <3>2. ASSUME NEW x \in Range(q) \ {q[i]} PROVE x \in Range(g)
      <4>1. PICK k \in 1 .. n : x = q[k] /\ k # i
        BY <1>0, <3>2 DEF Range
      <4>2. PICK l \in 1 .. n - 1 : x = g[l]
        BY <1>0, <2>3, <2>4, <4>1, SMT
      <4> QED
        BY <2>3, <4>2 DEF Range
    <3> QED
      BY <3>1, <3>2
  <2>8. FixReady(at, g, i, n - 1)
    <3>1. SUFFICES ASSUME NEW c \in 2 .. n - 1
                   PROVE  /\ c # i /\ c \div 2 # i => ~Less(at, g[c], g[c \div 2])
                          /\ c \div 2 = i /\ i > 1 => ~Less(at, g[c], g[i \div 2])
      BY DEF FixReady
    <3>2. /\ c \in 2 .. n /\ c \in 1 .. n - 1 /\ c \in 1 .. n
          /\ c \div 2 \in 1 .. n - 1 /\ c \div 2 < c
      BY <1>0, Parents, SMT
    <3>3. c # i /\ c \div 2 # i => ~Less(at, g[c], g[c \div 2])
      BY <1>1, <2>4, <3>2
    <3>4. ASSUME c \div 2 = i, i > 1 PROVE ~Less(at, g[c], g[i \div 2])
      <4>1. /\ i \in 2 .. n /\ i \in 1 .. n /\ i \div 2 \in 1 .. n - 1 /\ i \div 2 < i
            /\ i \div 2 \in 1 .. n
        BY <1>0, <2>3, <3>4, Parents, SMT
      <4>2. ~Less(at, q[c], q[i]) /\ ~Less(at, q[i], q[i \div 2])
        BY <1>1, <3>2, <3>4, <4>1
      <4>3. ~Less(at, q[c], q[i \div 2])
        BY <1>0, <3>2, <4>1, <4>2, LessOrder
      <4>4. g[c] = q[c] /\ g[i \div 2] = q[i \div 2]
        BY <2>4, <3>2, <3>4, <4>1, SMT
      <4> QED
        BY <4>3, <4>4
    <3> QED
      BY <3>3, <3>4
  <2>9. SameElements(g, r) /\ HeapOrdered(at, r)
    BY <2>2, <2>3, <2>8, FixHeap
  <2>10. Without(at, q, i) = r
    BY <1>4 DEF Without, g, e, n
  <2> HIDE DEF r
  <2> QED
    BY <2>6, <2>7, <2>9, <2>10 DEF SameElements
<1> QED
  BY <1>3, <1>4

(* The root of a heap is the first element.                                *)
LEMMA RootIsFirst ==
  ASSUME NEW at \in AllTimes, NEW q \in Seq(Txs), HeapOrdered(at, q)
  PROVE  \A k \in 1 .. Len(q) : ~Less(at, q[k], q[1])
<1> DEFINE n == Len(q)
           S == {k \in Nat : k \in 1 .. n => ~Less(at, q[k], q[1])}
<1>0. n \in Nat /\ \A k \in 1 .. n : q[k] \in Txs
  BY SliceIsSeq DEF Slices
<1>1. ASSUME NEW k \in Nat, \A m \in Nat : m < k => m \in S
      PROVE  k \in S
  <2>1. SUFFICES ASSUME k \in 1 .. n PROVE ~Less(at, q[k], q[1])
    OBVIOUS
  <2>2. CASE k = 1
    BY <1>0, <2>1, <2>2, LessOrder
  <2>3. CASE k > 1
    <3>1. /\ k \div 2 \in Nat /\ k \div 2 < k /\ k \div 2 \in 1 .. n
          /\ k \in 2 .. n /\ 1 \in 1 .. n
      BY <1>0, <2>1, <2>3, Parents, SMT
    <3>2. ~Less(at, q[k], q[k \div 2]) /\ ~Less(at, q[k \div 2], q[1])
      BY <1>1, <3>1 DEF HeapOrdered
    <3> QED
      BY <1>0, <2>1, <3>1, <3>2, LessOrder
  <2> QED
    BY <2>1, <2>2, <2>3, SMT
<1>2. \A k \in Nat : k \in S
  <2> HIDE DEF S
  <2> QED
    BY <1>1, StrongInduction
<1> QED
  BY <1>0, <1>2, SMT

(* heap.Pop.                                                               *)
LEMMA PopHeap ==
  ASSUME NEW at \in AllTimes, NEW q \in Seq(Txs), q # <<>>,
         HeapOrdered(at, q), IsInjective(q)
  PROVE  LET r == HeapPop(at, q) IN
         /\ r \in Seq(Txs) /\ Len(r) = Len(q) - 1
         /\ Range(r) = Range(q) \ {q[1]} /\ IsInjective(r)
         /\ HeapOrdered(at, r)
<1> DEFINE n == Len(q)
           s == Swap(q, 1, n)
           d == Down(at, s, 1, n - 1)
           r == Cut(d)
<1>0. n \in Nat /\ n >= 1 /\ q \in Slices(n) /\ 1 \in 1 .. n /\ n \in 1 .. n /\ n - 1 \in 0 .. n
  BY SliceIsSeq, EmptySlice, SMT
<1>1. /\ Rearranged(q, s, n) /\ s[n] = q[1]
      /\ \A k \in 1 .. n : k # 1 /\ k # n => s[k] = q[k]
  BY <1>0, SwapRearranges
<1>2. SameElements(q, s)
  BY <1>1, RearrangedSame
<1> HIDE DEF s
<1>3. s \in Seq(Txs) /\ Len(s) = n
  BY <1>2 DEF SameElements
<1>4. DownReady(at, s, 1, 1, n - 1)
  <2>1. SUFFICES ASSUME NEW c \in 2 .. n - 1, c \div 2 >= 1, c \div 2 # 1
                 PROVE  ~Less(at, s[c], s[c \div 2])
    BY SMT DEF DownReady
  <2> HIDE DEF n
  <2>2. c \in 2 .. n /\ c \in 1 .. n /\ c # n /\ c \div 2 \in 1 .. n /\ c \div 2 # n
    BY <1>0, Parents, SMT
  <2>3. ~Less(at, q[c], q[c \div 2])
    BY <2>2 DEF HeapOrdered, n
  <2> QED
    BY <1>1, <2>1, <2>2, <2>3, SMT
<1>5. SameElements(s, d) /\ DownDoes(at, s, d, 1, 1, n, n - 1)
  <2> HIDE DEF n, d
  <2> QED
    BY <1>0, <1>3, DownHeap DEF d
<1> HIDE DEF d
<1>6. /\ d \in Seq(Txs) /\ Len(d) = n /\ Range(d) = Range(q) /\ IsInjective(d)
      /\ HeapOn(at, d, 1, n - 1)
  BY <1>2, <1>4, <1>5 DEF SameElements, DownDoes
<1>7. d[n] = q[1]
  <2> HIDE DEF n
  <2> QED
    BY <1>0, <1>1, <1>5, SMT DEF DownDoes
<1>8. /\ r \in Seq(Txs) /\ Len(r) = n - 1 /\ IsInjective(r) /\ Range(r) = Range(q) \ {q[1]}
      /\ \A k \in 1 .. n - 1 : r[k] = d[k]
  BY <1>0, <1>6, <1>7, FrontKeeps
<1> HIDE DEF r, n
<1>9. HeapOn(at, r, 1, n - 1)
  <2>1. \A c \in 2 .. n - 1 : c \in 1 .. n - 1 /\ c \div 2 \in 1 .. n - 1
    BY <1>0, Parents, SMT
  <2> QED
    BY <1>6, <1>8, <2>1 DEF HeapOn
<1> QED
  BY <1>8, <1>9, HeapOnAll DEF HeapPop, r, d, s, n

(* InitLoop satisfies its own equation.                                    *)
LEMMA InitEquation ==
  ASSUME NEW at \in AllTimes, NEW n \in Nat, NEW q \in Slices(n), NEW i \in 0 .. n
  PROVE  InitLoop(at, n)[<<q, i>>] =
           IF i = 0 THEN q ELSE InitLoop(at, n)[<<Down(at, q, i, n), i - 1>>]
<1> DEFINE A == [1 .. n -> Txs] \X (0 .. n)
           stop == [s \in A |-> s[2] = 0]
           out == [s \in A |-> s[1]]
           next == [s \in A |-> <<Down(at, s[1], s[2], n), s[2] - 1>>]
           rank == [s \in A |-> s[2]]
           Body(f) == [s \in A |->
             IF s[2] = 0 THEN s[1] ELSE f[<<Down(at, s[1], s[2], n), s[2] - 1>>]]
<1>1. CountsDown(A, stop, next, rank)
  <2>1. ASSUME NEW s \in A, ~stop[s]
        PROVE  next[s] \in A /\ rank[next[s]] < rank[s]
    <3>0. s[2] # 0
      <4> HIDE DEF A
      <4> QED
        BY <2>1
    <3>1. s[1] \in Slices(n) /\ s[2] \in 1 .. n
      BY <3>0, SMT DEF Slices
    <3>2. s[1] \in Seq(Txs) /\ Len(s[1]) = n /\ n \in 0 .. n
      BY <3>1, SliceIsSeq, SMT
    <3>3. SameElements(s[1], Down(at, s[1], s[2], n))
      <4> HIDE DEF A
      <4> QED
        BY <3>1, <3>2, DownHeap
    <3>4. Down(at, s[1], s[2], n) \in [1 .. n -> Txs]
      <4> HIDE DEF A
      <4> QED
        BY <3>2, <3>3, SliceIsSeq DEF SameElements, Slices
    <3> QED
      BY <3>1, <3>4, SMT
  <2>2. rank \in [A -> Nat]
    BY SMT
  <2> HIDE DEF A, stop, next, rank
  <2> QED
    BY <2>1, <2>2 DEF CountsDown
<1>2. PICK f : f = [s \in A |-> IF stop[s] THEN out[s] ELSE f[next[s]]]
  <2> HIDE DEF A, stop, out, next, rank
  <2> QED
    BY <1>1, LoopDefined, SMT
<1>3. f = Body(f)
  BY <1>2
<1>4. InitLoop(at, n) = CHOOSE g : g = Body(g)
  BY DEF InitLoop
<1>5. InitLoop(at, n) = Body(InitLoop(at, n))
  <2> HIDE DEF Body
  <2> QED
    BY <1>3, <1>4
<1>6. <<q, i>> \in A
  BY DEF Slices
<1> QED
  BY <1>5, <1>6

(* heap.Init makes a heap of any slice, from the last parent to the root.  *)
LEMMA InitResult ==
  ASSUME NEW at \in AllTimes, NEW n \in Nat
  PROVE  \A q \in Slices(n), i \in 0 .. n :
           LET r == InitLoop(at, n)[<<q, i>>] IN
           Rearranged(q, r, n) /\ (HeapOn(at, q, i + 1, n) => HeapOn(at, r, 1, n))
<1> DEFINE P(q, i) == LET r == InitLoop(at, n)[<<q, i>>] IN
             Rearranged(q, r, n) /\ (HeapOn(at, q, i + 1, n) => HeapOn(at, r, 1, n))
           S == {k \in Nat : \A q \in Slices(n) : k \in 0 .. n => P(q, k)}
<1>1. ASSUME NEW i \in Nat, \A m \in Nat : m < i => m \in S
      PROVE  i \in S
  <2>1. SUFFICES ASSUME NEW q \in Slices(n), i \in 0 .. n PROVE P(q, i)
    OBVIOUS
  <2>2. CASE i = 0
    <3>1. InitLoop(at, n)[<<q, i>>] = q
      BY <2>1, <2>2, InitEquation
    <3>2. Rearranged(q, q, n)
      BY DEF Rearranged
    <3> QED
      BY <2>2, <3>1, <3>2, SMT
  <2>3. CASE i # 0
    <3> DEFINE r == Down(at, q, i, n)
    <3>1. i - 1 \in Nat /\ i - 1 < i /\ i - 1 \in 0 .. n /\ i \in 1 .. n /\ n \in 0 .. n
      BY <2>1, <2>3, SMT
    <3>2. InitLoop(at, n)[<<q, i>>] = InitLoop(at, n)[<<r, i - 1>>]
      BY <2>1, <2>3, InitEquation
    <3>3. q \in Seq(Txs) /\ Len(q) = n
      BY SliceIsSeq
    <3>4. DownDoes(at, q, r, i, i, n, n)
      BY <3>1, <3>3, DownHeap
    <3> HIDE DEF r
    <3>5. HeapOn(at, q, i + 1, n) => DownReady(at, q, i, i, n)
      <4>1. i > 1 => ~(i \div 2 >= i)
        BY <3>1, Parents, SMT
      <4>2. \A c \in 2 .. n : c \div 2 \in Nat
        BY Parents, SMT
      <4>3. \A c \in 2 .. n : c \div 2 >= i /\ c \div 2 # i => c \div 2 >= i + 1
        BY <3>1, <4>2, SMT
      <4> QED
        BY <4>1, <4>3 DEF HeapOn, DownReady
    <3>6. HeapOn(at, q, i + 1, n) => HeapOn(at, r, (i - 1) + 1, n)
      <4>1. (i - 1) + 1 = i
        BY <3>1, SMT
      <4> QED
        BY <3>4, <3>5, <4>1 DEF DownDoes
    <3>7. P(r, i - 1)
      <4>1. i - 1 \in S /\ r \in Slices(n)
        BY <1>1, <3>1, <3>4 DEF DownDoes, Rearranged
      <4> HIDE DEF P
      <4> QED
        BY <4>1, <3>1
    <3>8. Rearranged(q, InitLoop(at, n)[<<q, i>>], n)
      BY <3>2, <3>4, <3>7, RearrangedTransitive DEF DownDoes
    <3> QED
      BY <3>2, <3>6, <3>7, <3>8
  <2> QED
    BY <2>2, <2>3
<1>2. \A k \in Nat : k \in S
  <2> HIDE DEF S
  <2> QED
    BY <1>1, StrongInduction
<1> HIDE DEF P
<1>3. \A q \in Slices(n), i \in 0 .. n : P(q, i)
  BY <1>2, SMT
<1> QED
  BY <1>3 DEF P

(* heap.Init on a slice.                                                   *)
LEMMA InitHeap ==
  ASSUME NEW at \in AllTimes, NEW q \in Seq(Txs)
  PROVE  SameElements(q, HeapInit(at, q)) /\ HeapOrdered(at, HeapInit(at, q))
<1> DEFINE n == Len(q)
           h == n \div 2
           r == InitLoop(at, n)[<<q, h>>]
<1>1. n \in Nat /\ q \in Slices(n)
  BY SliceIsSeq
<1>2. h \in 0 .. n /\ n <= 2 * h + 1
  <2> HIDE DEF n
  <2> QED
    BY <1>1, SMT
<1>3. HeapOn(at, q, h + 1, n)
  <2> HIDE DEF n, h
  <2>1. ASSUME NEW c \in 2 .. n PROVE ~(c \div 2 >= h + 1)
    BY <1>1, <1>2, Parents, SMT
  <2> QED
    BY <2>1 DEF HeapOn
<1>4. Rearranged(q, r, n) /\ HeapOn(at, r, 1, n)
  <2> HIDE DEF n, h
  <2> QED
    BY <1>1, <1>2, <1>3, InitResult
<1> HIDE DEF r
<1>5. SameElements(q, r)
  BY <1>4, RearrangedSame
<1>6. HeapOrdered(at, r)
  BY <1>4, <1>5, HeapOnAll DEF SameElements
<1> QED
  BY <1>5, <1>6 DEF HeapInit, r

(***************************************************************************)
(* GetTransactions.                                                        *)
(***************************************************************************)

(* heap.Pop takes one element of any slice.                                *)
LEMMA PopShortens ==
  ASSUME NEW at \in AllTimes, NEW q \in Seq(Txs), q # <<>>
  PROVE  HeapPop(at, q) \in Seq(Txs) /\ Len(HeapPop(at, q)) = Len(q) - 1
<1> DEFINE n == Len(q)
           s == Swap(q, 1, n)
           d == Down(at, s, 1, n - 1)
<1>0. n \in Nat /\ n >= 1 /\ q \in Slices(n) /\ 1 \in 1 .. n /\ n \in 1 .. n /\ n - 1 \in 0 .. n
  BY SliceIsSeq, EmptySlice, SMT
<1>1. SameElements(q, s)
  BY <1>0, SwapRearranges, RearrangedSame, SMT
<1> HIDE DEF s
<1>2. s \in Seq(Txs) /\ Len(s) = n
  BY <1>1 DEF SameElements
<1>3. SameElements(s, d)
  <2> HIDE DEF n, d
  <2> QED
    BY <1>0, <1>2, DownHeap DEF d
<1> HIDE DEF d
<1>4. d \in Seq(Txs) /\ Len(d) = n
  BY <1>2, <1>3 DEF SameElements
<1> QED
  BY <1>0, <1>4, FrontKeeps DEF HeapPop, d, s

(* PopLoop satisfies its own equation.                                     *)
LEMMA PopEquation ==
  ASSUME NEW at \in AllTimes, NEW served \in Seq(Txs), NEW q \in Seq(Txs), NEW n \in Nat
  PROVE  PopLoop(at)[<<served, q, n>>] =
           IF n = 0 \/ q = <<>> THEN served
           ELSE PopLoop(at)[<<Append(served, q[1]), HeapPop(at, q), n - 1>>]
<1> DEFINE A == Seq(Txs) \X Seq(Txs) \X Nat
           stop == [s \in A |-> s[3] = 0 \/ s[2] = <<>>]
           out == [s \in A |-> s[1]]
           next == [s \in A |-> <<Append(s[1], s[2][1]), HeapPop(at, s[2]), s[3] - 1>>]
           rank == [s \in A |-> s[3]]
           Body(f) == [s \in A |->
             IF s[3] = 0 \/ s[2] = <<>> THEN s[1]
             ELSE f[<<Append(s[1], s[2][1]), HeapPop(at, s[2]), s[3] - 1>>]]
<1>1. CountsDown(A, stop, next, rank)
  <2>1. ASSUME NEW s \in A, ~stop[s]
        PROVE  next[s] \in A /\ rank[next[s]] < rank[s]
    <3>0. s[3] # 0 /\ s[2] # <<>>
      <4> HIDE DEF A
      <4> QED
        BY <2>1
    <3>1. s[1] \in Seq(Txs) /\ s[2] \in Seq(Txs) /\ s[3] \in Nat
      OBVIOUS
    <3> HIDE DEF A
    <3>2. s[2][1] \in Txs
      BY <3>0, <3>1, EmptySlice, SliceIsSeq, SMT DEF Slices
    <3>3. /\ Append(s[1], s[2][1]) \in Seq(Txs)
          /\ HeapPop(at, s[2]) \in Seq(Txs)
          /\ s[3] - 1 \in Nat /\ s[3] - 1 < s[3]
      BY <3>0, <3>1, <3>2, PopShortens, SMT
    <3>4. next[s] = <<Append(s[1], s[2][1]), HeapPop(at, s[2]), s[3] - 1>>
      OBVIOUS
    <3>5. next[s] \in A
      BY <3>3, <3>4 DEF A
    <3>6. rank[s] = s[3] /\ rank[next[s]] = s[3] - 1
      <4> HIDE DEF next
      <4> QED
        BY <3>4, <3>5, SMT
    <3> QED
      BY <3>3, <3>5, <3>6
  <2>2. rank \in [A -> Nat]
    OBVIOUS
  <2> HIDE DEF A, stop, next, rank
  <2> QED
    BY <2>1, <2>2 DEF CountsDown
<1>2. PICK f : f = [s \in A |-> IF stop[s] THEN out[s] ELSE f[next[s]]]
  <2> HIDE DEF A, stop, out, next, rank
  <2> QED
    BY <1>1, LoopDefined, SMT
<1>3. f = Body(f)
  <2> HIDE DEF A
  <2> QED
    BY <1>2
<1>4. PopLoop(at) = CHOOSE g : g = Body(g)
  BY DEF PopLoop
<1>5. PopLoop(at) = Body(PopLoop(at))
  <2> HIDE DEF Body
  <2> QED
    BY <1>3, <1>4
<1>6. <<served, q, n>> \in A
  OBVIOUS
<1> QED
  BY <1>5, <1>6

(* What was served is in order, and nothing in the queue comes before it.  *)
InOrder(at, s) == \A i, j \in 1 .. Len(s) : i < j => ~Less(at, s[j], s[i])
AllAfter(at, s, q) == \A x \in Range(q), i \in 1 .. Len(s) : ~Less(at, x, s[i])

Serving(at, s, q) ==
  /\ s \in Seq(Txs) /\ q \in Seq(Txs)
  /\ HeapOrdered(at, q) /\ IsInjective(q)
  /\ InOrder(at, s) /\ AllAfter(at, s, q)

(* A step of the loop.                                                     *)
LEMMA ServeStep ==
  ASSUME NEW at \in AllTimes, NEW s, NEW q, Serving(at, s, q), q # <<>>
  PROVE  LET a == Append(s, q[1])
             p == HeapPop(at, q)
         IN  /\ Serving(at, a, p) /\ Len(p) = Len(q) - 1
             /\ Range(a) \cup Range(p) = Range(s) \cup Range(q)
<1> DEFINE a == Append(s, q[1])
           p == HeapPop(at, q)
           m == Len(s) + 1
<1>0. s \in Seq(Txs) /\ q \in Seq(Txs) /\ HeapOrdered(at, q) /\ IsInjective(q)
  BY DEF Serving
<1>1. /\ DOMAIN q = 1 .. Len(q) /\ 1 \in 1 .. Len(q) /\ q[1] \in Txs /\ q[1] \in Range(q)
      /\ Range(q) \subseteq Txs
  BY <1>0, EmptySlice, SliceIsSeq, SMT DEF Slices, Range
<1>2. /\ a \in Seq(Txs) /\ Len(a) = m /\ m \in Nat /\ Len(s) \in Nat
      /\ a[m] = q[1] /\ \A k \in 1 .. Len(s) : a[k] = s[k]
      /\ DOMAIN a = 1 .. m /\ DOMAIN s = 1 .. Len(s) /\ \A k \in 1 .. Len(s) : s[k] \in Txs
  BY <1>0, <1>1, SliceIsSeq, SMT DEF Slices
<1>3. /\ p \in Seq(Txs) /\ Len(p) = Len(q) - 1
      /\ Range(p) = Range(q) \ {q[1]} /\ IsInjective(p)
      /\ HeapOrdered(at, p)
  BY <1>0, PopHeap
<1> HIDE DEF a, p
<1>4. Range(a) = Range(s) \cup {q[1]}
  <2>1. \A x : x \in Range(a) <=> \E k \in 1 .. m : x = a[k]
    BY <1>2 DEF Range
  <2>2. \A x : x \in Range(s) <=> \E k \in 1 .. Len(s) : x = s[k]
    BY <1>2 DEF Range
  <2>3. \A k \in 1 .. m : k = m \/ k \in 1 .. Len(s)
    BY <1>2, SMT
  <2>4. m \in 1 .. m /\ \A k \in 1 .. Len(s) : k \in 1 .. m
    BY <1>2, SMT
  <2> HIDE DEF m
  <2>5. ASSUME NEW x \in Range(a) PROVE x \in Range(s) \cup {q[1]}
    BY <1>2, <2>1, <2>2, <2>3, SMT
  <2>6. ASSUME NEW x \in Range(s) \cup {q[1]} PROVE x \in Range(a)
    BY <1>2, <2>1, <2>2, <2>4, SMT
  <2> QED
    BY <2>5, <2>6
<1>5. \A x \in Range(q) : ~Less(at, x, q[1])
  BY <1>0, <1>1, RootIsFirst DEF Range
<1>6. InOrder(at, a)
  <2>1. \A i, j \in 1 .. Len(s) : i < j => ~Less(at, s[j], s[i])
    BY DEF Serving, InOrder
  <2>2. \A i \in 1 .. Len(s) : ~Less(at, q[1], s[i])
    BY <1>1 DEF Serving, AllAfter
  <2>3. ASSUME NEW i \in 1 .. m, NEW j \in 1 .. m, i < j PROVE ~Less(at, a[j], a[i])
    <3>1. i \in 1 .. Len(s) /\ (j = m \/ j \in 1 .. Len(s))
      BY <1>2, <2>3, SMT
    <3> HIDE DEF m
    <3> QED
      BY <1>2, <2>1, <2>2, <2>3, <3>1
  <2> HIDE DEF m
  <2> QED
    BY <1>2, <2>3 DEF InOrder
<1>7. AllAfter(at, a, p)
  <2>1. ASSUME NEW x \in Range(p), NEW i \in 1 .. m PROVE ~Less(at, x, a[i])
    <3>1. x \in Range(q) /\ (i = m \/ i \in 1 .. Len(s))
      BY <1>2, <1>3, SMT
    <3>2. \A k \in 1 .. Len(s) : ~Less(at, x, s[k])
      BY <3>1 DEF Serving, AllAfter
    <3> HIDE DEF m
    <3> QED
      BY <1>2, <1>5, <3>1, <3>2
  <2> HIDE DEF m
  <2> QED
    BY <1>2, <2>1 DEF AllAfter
<1>8. Range(a) \cup Range(p) = Range(s) \cup Range(q)
  BY <1>1, <1>3, <1>4
<1> HIDE DEF m
<1> QED
  BY <1>2, <1>3, <1>6, <1>7, <1>8 DEF Serving, a, p

(* Popping a heap of at most n elements n times serves all of them, in     *)
(* order.                                                                  *)
THEOREM ServeResult ==
  ASSUME NEW at \in AllTimes
  PROVE  \A n \in Nat : \A s, q :
           Serving(at, s, q) /\ Len(q) <= n =>
             LET r == PopLoop(at)[<<s, q, n>>] IN
             r \in Seq(Txs) /\ InOrder(at, r) /\ Range(r) = Range(s) \cup Range(q)
<1> DEFINE Good(r, s, q) ==
             r \in Seq(Txs) /\ InOrder(at, r) /\ Range(r) = Range(s) \cup Range(q)
           S == {n \in Nat : \A s, q :
             Serving(at, s, q) /\ Len(q) <= n => Good(PopLoop(at)[<<s, q, n>>], s, q)}
<1>1. ASSUME NEW n \in Nat, \A m \in Nat : m < n => m \in S
      PROVE  n \in S
  <2>1. SUFFICES ASSUME NEW s, NEW q, Serving(at, s, q), Len(q) <= n
                 PROVE  Good(PopLoop(at)[<<s, q, n>>], s, q)
    OBVIOUS
  <2>2. s \in Seq(Txs) /\ q \in Seq(Txs) /\ Len(q) \in Nat
    BY <2>1, SliceIsSeq DEF Serving
  <2>0. \A x \in Seq(Txs), y \in Seq(Txs), m \in Nat :
          PopLoop(at)[<<x, y, m>>] =
            IF m = 0 \/ y = <<>> THEN x
            ELSE PopLoop(at)[<<Append(x, y[1]), HeapPop(at, y), m - 1>>]
    BY PopEquation
  <2>3. CASE q = <<>>
    <3>1. PopLoop(at)[<<s, q, n>>] = s
      BY <2>0, <2>2, <2>3
    <3>2. Range(q) = {}
      BY <2>3, SMT DEF Range
    <3> QED
      BY <2>1, <3>1, <3>2 DEF Serving
  <2>4. CASE q # <<>>
    <3> DEFINE a == Append(s, q[1])
               p == HeapPop(at, q)
    <3>1. Len(q) # 0
      BY <2>2, <2>4, EmptySlice
    <3>2. n # 0 /\ n - 1 \in Nat /\ n - 1 < n /\ Len(q) - 1 <= n - 1
      BY <2>1, <2>2, <3>1, SMT
    <3>3. PopLoop(at)[<<s, q, n>>] = PopLoop(at)[<<a, p, n - 1>>]
      <4>1. PopLoop(at)[<<s, q, n>>] =
              IF n = 0 \/ q = <<>> THEN s ELSE PopLoop(at)[<<a, p, n - 1>>]
        BY <2>0, <2>2
      <4> HIDE DEF a, p
      <4> QED
        BY <2>4, <3>2, <4>1
    <3>4. /\ Serving(at, a, p) /\ Len(p) = Len(q) - 1
          /\ Range(a) \cup Range(p) = Range(s) \cup Range(q)
      BY <2>1, <2>4, ServeStep, SMT
    <3> HIDE DEF a, p
    <3>5. Good(PopLoop(at)[<<a, p, n - 1>>], a, p)
      <4>1. n - 1 \in S
        BY <1>1, <3>2
      <4> HIDE DEF Good
      <4> QED
        BY <3>2, <3>4, <4>1
    <3> QED
      BY <3>3, <3>4, <3>5
  <2> QED
    BY <2>3, <2>4
<1>2. \A n \in Nat : n \in S
  <2> HIDE DEF S
  <2> QED
    BY <1>1, StrongInduction
<1> HIDE DEF Good
<1>3. \A n \in Nat : \A s, q :
        Serving(at, s, q) /\ Len(q) <= n => Good(PopLoop(at)[<<s, q, n>>], s, q)
  BY <1>2
<1> QED
  BY <1>3 DEF Good

(* A heap stays one if the times of its entries do not change.             *)
LEMMA HeapLocal ==
  ASSUME NEW at, NEW bt, NEW q \in Seq(Txs), \A t \in Range(q) : at[t] = bt[t],
         HeapOrdered(at, q)
  PROVE  HeapOrdered(bt, q)
<1>1. SUFFICES ASSUME NEW c \in 2 .. Len(q) PROVE ~Less(bt, q[c], q[c \div 2])
  BY DEF HeapOrdered
<1>2. c \in 1 .. Len(q) /\ c \div 2 \in 1 .. Len(q) /\ DOMAIN q = 1 .. Len(q)
  BY SliceIsSeq, Parents, SMT
<1>3. q[c] \in Range(q) /\ q[c \div 2] \in Range(q)
  BY <1>2 DEF Range
<1>4. ~Less(at, q[c], q[c \div 2])
  BY DEF HeapOrdered
<1> QED
  BY <1>3, <1>4, LessLocal

(***************************************************************************)
(* The pool.                                                               *)
(***************************************************************************)

(* What the linear search of removeLowestGasPrice finds exists, and        *)
(* nothing in the slice is cheaper.                                        *)
LEMMA LowestIdxIsLowest ==
  ASSUME NEW q \in Seq(Txs), q # <<>>, addedAt \in AllTimes
  PROVE  /\ LowestIdx(q) \in 1 .. Len(q)
         /\ \A j \in 1 .. Len(q) : GasPrice[q[LowestIdx(q)]] <= GasPrice[q[j]]
<1> DEFINE n == Len(q)
           Below(i, j) == \/ Less(addedAt, q[j], q[i])
                          \/ ~Less(addedAt, q[i], q[j]) /\ i <= j
           S == {k \in Nat : k \in 1 .. n => \E i \in 1 .. k : \A j \in 1 .. k : Below(i, j)}
<1>0. n \in Nat /\ n >= 1 /\ DOMAIN q = 1 .. n /\ \A k \in 1 .. n : q[k] \in Txs
  BY SliceIsSeq, EmptySlice, SMT DEF Slices
<1>1. ASSUME NEW k \in Nat, \A m \in Nat : m < k => m \in S
      PROVE  k \in S
  <2>1. SUFFICES ASSUME k \in 1 .. n
                 PROVE  \E i \in 1 .. k : \A j \in 1 .. k : Below(i, j)
    OBVIOUS
  <2> HIDE DEF n
  <2>2. CASE k = 1
    <3>1. Below(1, 1)
      BY <1>0, <2>1, <2>2, LessOrder, SMT
    <3> HIDE DEF Below
    <3>2. \A j \in 1 .. k : j = 1
      BY <2>2, SMT
    <3> QED
      BY <2>2, <3>1, <3>2, SMT
  <2>3. CASE k > 1
    <3>1. k - 1 \in Nat /\ k - 1 < k /\ k - 1 \in 1 .. n
      BY <1>0, <2>1, <2>3, SMT
    <3>2. PICK i \in 1 .. k - 1 : \A j \in 1 .. k - 1 : Below(i, j)
      <4> HIDE DEF Below
      <4> QED
        BY <1>1, <3>1
    <3>3. i \in 1 .. n /\ i \in 1 .. k /\ i <= k
      BY <1>0, <2>1, <3>1, SMT
    <3>4. CASE Less(addedAt, q[i], q[k])
      <4>1. ASSUME NEW j \in 1 .. k - 1 PROVE Less(addedAt, q[j], q[k])
        <5>1. j \in 1 .. n /\ Below(i, j)
          BY <1>0, <2>1, <3>2, SMT
        <5> QED
          BY <1>0, <2>1, <3>3, <3>4, <5>1, LessOrder
      <4>2. ~Less(addedAt, q[k], q[k])
        BY <1>0, <2>1, LessOrder
      <4>3. ASSUME NEW j \in 1 .. k PROVE Below(k, j)
        BY <4>1, <4>2, <4>3, SMT
      <4>4. k \in 1 .. k
        BY <2>3, SMT
      <4> HIDE DEF Below
      <4> QED
        BY <4>3, <4>4
    <3>5. CASE ~Less(addedAt, q[i], q[k])
      <4>1. Below(i, k)
        BY <3>3, <3>5
      <4> HIDE DEF Below
      <4>2. ASSUME NEW j \in 1 .. k PROVE Below(i, j)
        BY <3>2, <4>1, SMT
      <4> QED
        BY <3>3, <4>2
    <3> QED
      BY <3>4, <3>5
  <2> QED
    BY <2>1, <2>2, <2>3, SMT
<1>2. \A k \in Nat : k \in S
  <2> HIDE DEF S
  <2> QED
    BY <1>1, StrongInduction
<1>3. \E i \in 1 .. n : \A j \in 1 .. n : Below(i, j)
  <2> HIDE DEF Below, n
  <2>1. n \in 1 .. n
    BY <1>0, SMT
  <2> QED
    BY <1>0, <1>2, <2>1
<1>4. LowestIdx(q) \in 1 .. n /\ \A j \in 1 .. n : Below(LowestIdx(q), j)
  BY <1>0, <1>3 DEF LowestIdx
<1>5. ASSUME NEW i \in 1 .. n, NEW j \in 1 .. n, Below(i, j)
      PROVE  GasPrice[q[i]] <= GasPrice[q[j]]
  <2>1. q[i] \in Txs /\ q[j] \in Txs
    BY <1>0
  <2> QED
    BY <1>5, <2>1, HeapAssumption, SMT DEF Less
<1> HIDE DEF Below
<1> QED
  BY <1>4, <1>5

(* A slice with each element once has as many as its set.                  *)
LEMMA InjectiveCounts ==
  ASSUME NEW q \in Seq(Txs), IsInjective(q)
  PROVE  IsFiniteSet(Range(q)) /\ Cardinality(Range(q)) = Len(q)
<1> DEFINE n == Len(q)
           T == Range(q)
<1>1. n \in Nat /\ DOMAIN q = 1 .. n
  BY SliceIsSeq
<1>2. IsFiniteSet(1 .. n) /\ Cardinality(1 .. n) = n
  <2> HIDE DEF n
  <2> QED
    BY <1>1, FS_Interval, SMT
<1>3. q \in [1 .. n -> T]
  BY <1>1, SliceIsSeq DEF Range, Slices
<1>4. q \in Surjection(1 .. n, T) /\ q \in Injection(1 .. n, T)
  BY <1>1, <1>3 DEF Surjection, Injection, Range
<1> HIDE DEF T, n
<1>5. IsFiniteSet(T) /\ Cardinality(T) = Cardinality(1 .. n)
  BY <1>2, <1>4, FS_Surjection
<1> QED
  BY <1>2, <1>5 DEF T, n

(* rebuildHeap makes a heap of any finite set of entries.                  *)
LEMMA RebuildHeap ==
  ASSUME NEW at \in AllTimes, NEW S \in SUBSET Txs, IsFiniteSet(S),
         NEW r \in rebuildHeap(at, S)
  PROVE  r \in Seq(Txs) /\ Range(r) = S /\ IsInjective(r) /\ HeapOrdered(at, r)
<1> DEFINE n == Cardinality(S)
<1>1. PICK q \in Listings(S) : r = HeapInit(at, q)
  BY DEF rebuildHeap
<1>2. n \in Nat
  BY FS_CardinalityType
<1>3. q \in [1 .. n -> S] /\ IsInjective(q) /\ \A t \in S : \E i \in 1 .. n : q[i] = t
  BY DEF Listings, Bijection, Injection, Surjection
<1> HIDE DEF n
<1>4. q \in Slices(n) /\ q \in Seq(Txs) /\ Len(q) = n /\ DOMAIN q = 1 .. n
  <2>1. q \in Slices(n)
    BY <1>3 DEF Slices
  <2> QED
    BY <1>2, <2>1, SliceIsSeq
<1>5. Range(q) = S
  BY <1>3, <1>4 DEF Range
<1>6. SameElements(q, r) /\ HeapOrdered(at, r)
  BY <1>1, <1>4, InitHeap
<1> QED
  BY <1>3, <1>5, <1>6 DEF SameElements

(* What the invariant says of the entries, in the form the proofs use.     *)
LEMMA PoolFacts ==
  ASSUME PoolInv
  PROVE  /\ transactions \in SUBSET Txs /\ queue \in Seq(Txs)
         /\ addedAt \in AllTimes /\ \A t \in Txs : addedAt[t] \in 0 .. MaxTime
         /\ now \in 0 .. MaxTime /\ now \in Nat /\ MaxTime \in Nat
         /\ IsFiniteSet(transactions) /\ Cardinality(transactions) = Len(queue)
         /\ Cardinality(transactions) \in Nat
<1>1. /\ transactions \in SUBSET Txs /\ queue \in Seq(Txs) /\ addedAt \in [Txs -> 0 .. MaxTime]
      /\ now \in 0 .. MaxTime /\ MaxTime \in Nat
  BY MempoolAssumption DEF PoolInv, PoolTypeOK
<1>2. IsFiniteSet(transactions) /\ Cardinality(transactions) = Len(queue)
  BY <1>1, InjectiveCounts DEF PoolInv
<1>3. addedAt \in AllTimes
  BY <1>1, SMT DEF AllTimes
<1> QED
  BY <1>1, <1>2, <1>3, SliceIsSeq, SMT

(* The map and the heap after removeLowestGasPrice, if the pool is full.   *)
Evicted == IF Full /\ queue # <<>> THEN {queue[LowestIdx(queue)]} ELSE {}
Kept == IF Full /\ queue # <<>> THEN removeLowestGasPrice(queue) ELSE queue

(* The eviction of a full pool takes one cheapest entry and leaves a heap  *)
(* of the others; a pool with room is left as it is.                       *)
LEMMA EvictionKeeps ==
  ASSUME PoolInv
  PROVE  /\ Kept \in Seq(Txs) /\ Range(Kept) = transactions \ Evicted /\ IsInjective(Kept)
         /\ HeapOrdered(addedAt, Kept)
         /\ Full /\ queue # <<>> =>
              /\ Evicted \subseteq transactions /\ Cardinality(Evicted) = 1
              /\ \A e \in Evicted, x \in transactions : GasPrice[e] <= GasPrice[x]
<1> DEFINE i == LowestIdx(queue)
<1>0. queue \in Seq(Txs) /\ addedAt \in AllTimes
  BY PoolFacts
<1>1. Range(queue) = transactions /\ IsInjective(queue) /\ HeapOrdered(addedAt, queue)
  BY DEF PoolInv
<1>2. CASE ~(Full /\ queue # <<>>)
  BY <1>0, <1>1, <1>2 DEF Kept, Evicted
<1>3. CASE Full /\ queue # <<>>
  <2>1. i \in 1 .. Len(queue) /\ \A j \in 1 .. Len(queue) : GasPrice[queue[i]] <= GasPrice[queue[j]]
    BY <1>0, <1>3, LowestIdxIsLowest
  <2>2. Kept = Without(addedAt, queue, i) /\ Evicted = {queue[i]}
    BY <1>3 DEF Kept, Evicted, removeLowestGasPrice, Without
  <2> HIDE DEF i
  <2>3. /\ Kept \in Seq(Txs) /\ Range(Kept) = transactions \ Evicted /\ IsInjective(Kept)
        /\ HeapOrdered(addedAt, Kept)
    BY <1>0, <1>1, <2>1, <2>2, RemoveHeap
  <2>4. queue[i] \in transactions
    BY <1>0, <1>1, <2>1, SliceIsSeq DEF Range
  <2>5. \A x \in transactions : \E j \in 1 .. Len(queue) : x = queue[j]
    BY <1>0, <1>1, SliceIsSeq DEF Range
  <2>6. \A x \in transactions : GasPrice[queue[i]] <= GasPrice[x]
    BY <2>1, <2>5
  <2> QED
    BY <2>2, <2>3, <2>4, <2>6, FS_Singleton
<1> QED
  BY <1>2, <1>3

(* AddTransaction: the eviction, then the push under the time it records. *)
LEMMA AddKeeps ==
  ASSUME PoolInv, NEW t \in Txs, AddTransaction(t)
  PROVE  PoolInv'
<1>0. /\ transactions \in SUBSET Txs /\ queue \in Seq(Txs) /\ addedAt \in AllTimes
      /\ \A x \in Txs : addedAt[x] \in 0 .. MaxTime
      /\ now \in 0 .. MaxTime /\ now \in Nat /\ MaxTime \in Nat
  BY PoolFacts
<1>1. /\ t \notin transactions
      /\ addedAt' = [Times(transactions \ Evicted) EXCEPT ![t] = now]
      /\ transactions' = (transactions \ Evicted) \cup {t}
      /\ queue' = HeapPush(addedAt', Kept, t)
      /\ now' = now
  BY DEF AddTransaction, Accepts, Evicted, Kept
<1>2. /\ Kept \in Seq(Txs) /\ Range(Kept) = transactions \ Evicted /\ IsInjective(Kept)
      /\ HeapOrdered(addedAt, Kept)
  BY EvictionKeeps
<1>3. /\ addedAt' \in AllTimes /\ addedAt' \in [Txs -> 0 .. MaxTime]
      /\ \A x \in transactions \ Evicted : addedAt'[x] = addedAt[x]
  BY <1>0, <1>1, SMT DEF Times, AllTimes
<1>4. HeapOrdered(addedAt', Kept)
  BY <1>2, <1>3, HeapLocal
<1>5. /\ queue' \in Seq(Txs) /\ Range(queue') = transactions' /\ IsInjective(queue')
      /\ HeapOrdered(addedAt', queue')
  <2>1. t \notin Range(Kept)
    BY <1>1, <1>2
  <2>2. /\ HeapPush(addedAt', Kept, t) \in Seq(Txs)
        /\ Range(HeapPush(addedAt', Kept, t)) = Range(Kept) \cup {t}
        /\ IsInjective(HeapPush(addedAt', Kept, t))
        /\ HeapOrdered(addedAt', HeapPush(addedAt', Kept, t))
    BY <1>2, <1>3, <1>4, <2>1, PushHeap, SMT
  <2> QED
    BY <1>1, <1>2, <2>2
<1> QED
  BY <1>0, <1>1, <1>3, <1>5 DEF PoolInv, PoolTypeOK

(* The heap that is rebuilt when entries leave is in order under the times *)
(* that remain.                                                            *)
LEMMA RebuildKeeps ==
  ASSUME PoolInv, transactions' \subseteq transactions, now' = now,
         queue' \in rebuildHeap(addedAt, transactions'), addedAt' = Times(transactions')
  PROVE  PoolInv'
<1>0. /\ transactions \in SUBSET Txs /\ IsFiniteSet(transactions) /\ addedAt \in AllTimes
      /\ \A x \in Txs : addedAt[x] \in 0 .. MaxTime
      /\ now \in 0 .. MaxTime /\ MaxTime \in Nat
  BY PoolFacts
<1>1. transactions' \in SUBSET Txs /\ IsFiniteSet(transactions')
  BY <1>0, FS_Subset
<1>2. /\ queue' \in Seq(Txs) /\ Range(queue') = transactions' /\ IsInjective(queue')
      /\ HeapOrdered(addedAt, queue')
  BY <1>0, <1>1, RebuildHeap
<1>3. /\ addedAt' \in [Txs -> 0 .. MaxTime]
      /\ \A x \in transactions' : addedAt'[x] = addedAt[x]
  BY <1>0, <1>1, SMT DEF Times
<1>4. HeapOrdered(addedAt', queue')
  BY <1>2, <1>3, HeapLocal
<1> QED
  BY <1>0, <1>1, <1>2, <1>3, <1>4 DEF PoolInv, PoolTypeOK

(* The cleanup rebuilds the heap only if something expired; the addition   *)
(* times of the entries that stay are the ones the heap was built with.    *)
LEMMA CleanKeeps ==
  ASSUME PoolInv, cleanExpiredTransactions
  PROVE  PoolInv'
<1>0. /\ transactions \in SUBSET Txs /\ addedAt \in AllTimes
      /\ \A x \in Txs : addedAt[x] \in 0 .. MaxTime /\ MaxTime \in Nat
  BY PoolFacts
<1>1. CASE Expired # {}
  BY <1>1, RebuildKeeps DEF cleanExpiredTransactions
<1>2. CASE Expired = {}
  <2>1. transactions' = transactions /\ queue' = queue /\ now' = now /\ addedAt' = Times(transactions)
    BY <1>2 DEF cleanExpiredTransactions
  <2>2. addedAt' \in [Txs -> 0 .. MaxTime] /\ \A x \in transactions : addedAt'[x] = addedAt[x]
    BY <1>0, <2>1, SMT DEF Times
  <2>3. HeapOrdered(addedAt', queue')
    BY <2>1, <2>2, PoolFacts, HeapLocal DEF PoolInv
  <2> QED
    BY <2>1, <2>2, <2>3 DEF PoolInv, PoolTypeOK
<1> QED
  BY <1>1, <1>2

(* The pool starts empty.                                                  *)
LEMMA PoolInitially == PoolInit => PoolInv
<1>1. SUFFICES ASSUME PoolInit PROVE PoolInv
  OBVIOUS
<1>2. /\ transactions = {} /\ queue = <<>> /\ addedAt = [t \in Txs |-> 0] /\ now = 0
      /\ MaxTime \in Nat
  BY <1>1, MempoolAssumption DEF PoolInit
<1>3. queue \in Seq(Txs) /\ Len(queue) = 0 /\ DOMAIN queue = {}
  BY <1>2, SMT
<1>4. Range(queue) = {} /\ IsInjective(queue) /\ HeapOrdered(addedAt, queue)
  BY <1>3, SMT DEF Range, IsInjective, HeapOrdered
<1> QED
  BY <1>2, <1>3, <1>4, SMT DEF PoolInv, PoolTypeOK

(* The map and the heap always hold the same entries, each once, and the   *)
(* slice is a heap under their prices and times, through every sequence of *)
(* insertions, evictions, removals and expiries: PoolInv is inductive.     *)
THEOREM PoolInvariance == PoolSpec => []PoolInv
<1>1. PoolInit => PoolInv
  BY PoolInitially
<1>2. PoolInv /\ [PoolNext]_mempoolVars => PoolInv'
  <2>1. SUFFICES ASSUME PoolInv, [PoolNext]_mempoolVars PROVE PoolInv'
    OBVIOUS
  <2>2. ASSUME NEW t \in Txs, AddTransaction(t) PROVE PoolInv'
    BY <2>1, <2>2, AddKeeps
  <2>3. ASSUME NEW S \in Removals, RemoveTransactions(S) \/ RevalidateTransactions(S)
        PROVE  PoolInv'
    BY <2>1, <2>3, RebuildKeeps DEF RemoveTransactions, RevalidateTransactions, Discard
  <2>4. CASE cleanExpiredTransactions
    BY <2>1, <2>4, CleanKeeps
  <2>5. CASE Tick
    <3>1. now' \in 0 .. MaxTime
      BY <2>1, <2>5, PoolFacts, SMT DEF Tick
    <3> QED
      BY <2>1, <2>5, <3>1 DEF Tick, poolVars, PoolInv, PoolTypeOK
  <2>6. CASE UNCHANGED mempoolVars
    BY <2>1, <2>6 DEF mempoolVars, poolVars, PoolInv, PoolTypeOK
  <2> QED
    BY <2>1, <2>2, <2>3, <2>4, <2>5, <2>6 DEF PoolNext
<1> QED
  BY <1>1, <1>2, PTL DEF PoolSpec

(* Every state of the pool has its type: the entries, the slice and their  *)
(* times.                                                                  *)
THEOREM PoolTypeCorrect == PoolSpec => []PoolTypeOK
<1>1. PoolInv => PoolTypeOK
  BY DEF PoolInv
<1> QED
  BY <1>1, PoolInvariance, PTL

(* The heap holds exactly the entries of the map, each of them once:       *)
(* nothing that a removal, an eviction or an expiry took out of one of     *)
(* them stays behind in the other.                                         *)
THEOREM PoolQueueMatchesMap == PoolSpec => []QueueMatchesMap
<1>1. PoolInv => QueueMatchesMap
  BY PoolFacts DEF PoolInv, QueueMatchesMap
<1> QED
  BY <1>1, PoolInvariance, PTL

(* GetTransactions serves every pending transaction, the highest price     *)
(* first and, of equal prices, the oldest first, from every state that the *)
(* pool can reach.                                                         *)
THEOREM PoolServedInOrder == PoolSpec => []ServedInOrder
<1>1. PoolInv => ServedInOrder
  <2>1. SUFFICES ASSUME PoolInv PROVE ServedInOrder
    OBVIOUS
  <2> DEFINE n == Cardinality(transactions)
             r == GetTransactions(queue, n)
  <2>2. queue \in Seq(Txs) /\ addedAt \in AllTimes /\ n \in Nat /\ Len(queue) <= n
    BY <2>1, PoolFacts, SMT
  <2>3. Range(queue) = transactions /\ IsInjective(queue) /\ HeapOrdered(addedAt, queue)
    BY <2>1 DEF PoolInv
  <2>4. <<>> \in Seq(Txs) /\ Len(<<>>) = 0 /\ Range(<<>>) = {}
    BY SMT DEF Range
  <2>5. Serving(addedAt, <<>>, queue)
    BY <2>2, <2>3, <2>4, SMT DEF Serving, InOrder, AllAfter
  <2>6. r = PopLoop(addedAt)[<<<<>>, queue, n>>]
    BY DEF GetTransactions
  <2> HIDE DEF n, r
  <2>7. \A m \in Nat : \A s, q :
          Serving(addedAt, s, q) /\ Len(q) <= m =>
            LET x == PopLoop(addedAt)[<<s, q, m>>] IN
            x \in Seq(Txs) /\ InOrder(addedAt, x) /\ Range(x) = Range(s) \cup Range(q)
    BY <2>2, ServeResult
  <2>8. r \in Seq(Txs) /\ InOrder(addedAt, r) /\ Range(r) = transactions
    <3> DEFINE none == <<>>
    <3>1. /\ Serving(addedAt, none, queue) /\ Range(none) = {}
          /\ r = PopLoop(addedAt)[<<none, queue, n>>]
      BY <2>4, <2>5, <2>6
    <3> HIDE DEF none
    <3>2. r \in Seq(Txs) /\ InOrder(addedAt, r) /\ Range(r) = Range(none) \cup Range(queue)
      BY <2>2, <2>7, <3>1, ZenonT(30)
    <3> QED
      BY <2>3, <3>1, <3>2
  <2>9. ASSUME NEW i \in DOMAIN r, NEW j \in DOMAIN r, i < j
        PROVE  \/ GasPrice[r[i]] > GasPrice[r[j]]
               \/ GasPrice[r[i]] = GasPrice[r[j]] /\ addedAt[r[i]] <= addedAt[r[j]]
    <3>1. ~Less(addedAt, r[j], r[i]) /\ r[i] \in Txs /\ r[j] \in Txs
      BY <2>8, <2>9, SliceIsSeq, SMT DEF InOrder
    <3>2. /\ GasPrice[r[i]] \in Nat /\ GasPrice[r[j]] \in Nat
          /\ addedAt[r[i]] \in Nat /\ addedAt[r[j]] \in Nat
      BY <2>2, <3>1, HeapAssumption DEF AllTimes
    <3> QED
      BY <3>1, <3>2, SMT DEF Less
  <2> QED
    BY <2>8, <2>9 DEF ServedInOrder, r, n
<1> QED
  BY <1>1, PoolInvariance, PTL

(* An insertion into a full pool evicts one entry first, so the pool never *)
(* holds more than MaxSize.                                                *)
THEOREM PoolNeverOverfull == PoolSpec => []PoolBounded
<1>1. PoolInit => PoolBounded
  BY MempoolAssumption, FS_EmptySet, SMT DEF PoolInit, PoolBounded
<1>2. PoolInv /\ PoolBounded /\ [PoolNext]_mempoolVars => PoolBounded'
  <2>1. SUFFICES ASSUME PoolInv, PoolBounded, [PoolNext]_mempoolVars PROVE PoolBounded'
    OBVIOUS
  <2>2. IsFiniteSet(transactions) /\ Cardinality(transactions) \in Nat /\ MaxSize \in Nat \ {0}
        /\ Cardinality(transactions) = Len(queue)
    BY <2>1, PoolFacts, MempoolAssumption
  <2>3. Cardinality(transactions) <= MaxSize
    BY <2>1 DEF PoolBounded
  <2>4. ASSUME transactions' \subseteq transactions
        PROVE  PoolBounded'
    <3>1. Cardinality(transactions') <= Cardinality(transactions) /\ Cardinality(transactions') \in Nat
      BY <2>2, <2>4, FS_Subset, FS_CardinalityType
    <3> QED
      BY <2>2, <2>3, <3>1, SMT DEF PoolBounded
  <2>5. ASSUME NEW t \in Txs, AddTransaction(t) PROVE PoolBounded'
    <3>1. t \notin transactions /\ transactions' = (transactions \ Evicted) \cup {t}
      BY <2>5 DEF AddTransaction, Accepts, Evicted
    <3> DEFINE stay == transactions \ Evicted
    <3>2. IsFiniteSet(stay) /\ Cardinality(stay) \in Nat /\ t \notin stay
      BY <2>2, <3>1, FS_Subset, FS_CardinalityType
    <3>3. Cardinality(transactions') = Cardinality(stay) + 1
      BY <3>1, <3>2, FS_AddElement
    <3>4. CASE Full
      <4>1. queue # <<>>
        BY <2>2, <3>4, SMT DEF Full
      <4>2. PICK e : e \in transactions /\ Evicted = {e}
        <5>1. Evicted = {queue[LowestIdx(queue)]} /\ Evicted \subseteq transactions
          BY <2>1, <3>4, <4>1, EvictionKeeps DEF Evicted
        <5> QED
          BY <5>1
      <4>3. Cardinality(stay) = Cardinality(transactions) - 1
        BY <2>2, <4>2, FS_RemoveElement
      <4> QED
        BY <2>2, <2>3, <3>3, <4>3, SMT DEF PoolBounded
    <3>5. CASE ~Full
      <4>1. stay = transactions
        BY <3>5 DEF Evicted
      <4>2. Cardinality(transactions) < MaxSize
        BY <2>2, <3>5, SMT DEF Full
      <4> QED
        <5>1. Cardinality(transactions') = Cardinality(transactions) + 1
          BY <3>3, <4>1
        <5> QED
          BY <2>2, <4>2, <5>1, SMT DEF PoolBounded
    <3> QED
      BY <3>4, <3>5
  <2>6. CASE \E S \in Removals : RemoveTransactions(S) \/ RevalidateTransactions(S)
    BY <2>4, <2>6 DEF RemoveTransactions, RevalidateTransactions, Discard
  <2>7. CASE cleanExpiredTransactions
    BY <2>4, <2>7 DEF cleanExpiredTransactions
  <2>8. CASE Tick \/ UNCHANGED mempoolVars
    BY <2>4, <2>8 DEF Tick, poolVars, mempoolVars
  <2> QED
    BY <2>1, <2>5, <2>6, <2>7, <2>8 DEF PoolNext
<1> QED
  BY <1>1, <1>2, PoolInvariance, PTL DEF PoolSpec

(* An entry that a step drops while it inserts another pays less than the  *)
(* one that takes its place: the price that AddTransaction compares with   *)
(* is that of the last element of the slice, no lower than that of the     *)
(* entry that removeLowestGasPrice takes out.                              *)
THEOREM PoolEvictsCheaper == PoolSpec => EvictsCheaper
<1> DEFINE Cheaper == \A t \in transactions' \ transactions, s \in transactions \ transactions' :
                        GasPrice[s] < GasPrice[t]
<1>1. PoolInv /\ [PoolNext]_mempoolVars => [Cheaper]_mempoolVars
  <2>1. SUFFICES ASSUME PoolInv, [PoolNext]_mempoolVars PROVE Cheaper \/ UNCHANGED mempoolVars
    OBVIOUS
  <2>2. ASSUME NEW t \in Txs, AddTransaction(t) PROVE Cheaper
    <3>1. /\ transactions' = (transactions \ Evicted) \cup {t}
          /\ Full /\ queue # <<>> => GasPrice[t] > GasPrice[queue[Len(queue)]]
      BY <2>2 DEF AddTransaction, Accepts, Evicted
    <3>2. SUFFICES ASSUME NEW e \in Evicted, e \in transactions PROVE GasPrice[e] < GasPrice[t]
      BY <3>1
    <3>3. Full /\ queue # <<>>
      BY <3>2 DEF Evicted
    <3>4. queue[Len(queue)] \in transactions
      <4>1. Len(queue) \in 1 .. Len(queue) /\ queue \in Seq(Txs)
        BY <2>1, <3>3, PoolFacts, SliceIsSeq, EmptySlice, SMT
      <4> QED
        BY <2>1, <4>1, SliceIsSeq DEF PoolInv, Range
    <3>5. GasPrice[e] <= GasPrice[queue[Len(queue)]]
      BY <2>1, <3>2, <3>3, <3>4, EvictionKeeps
    <3>6. GasPrice[e] \in Nat /\ GasPrice[t] \in Nat /\ GasPrice[queue[Len(queue)]] \in Nat
      BY <2>1, <3>2, <3>4, PoolFacts, HeapAssumption
    <3> QED
      BY <3>1, <3>3, <3>5, <3>6, SMT
  <2>3. CASE transactions' \subseteq transactions
    BY <2>3
  <2>4. CASE \E S \in Removals : RemoveTransactions(S) \/ RevalidateTransactions(S)
    BY <2>3, <2>4 DEF RemoveTransactions, RevalidateTransactions, Discard
  <2>5. CASE cleanExpiredTransactions \/ Tick
    BY <2>3, <2>5 DEF cleanExpiredTransactions, Tick, poolVars
  <2> QED
    BY <2>1, <2>2, <2>4, <2>5 DEF PoolNext
<1>2. EvictsCheaper <=> [][Cheaper]_mempoolVars
  BY DEF EvictsCheaper
<1> QED
  BY <1>1, <1>2, PoolInvariance, PTL DEF PoolSpec
=============================================================================
