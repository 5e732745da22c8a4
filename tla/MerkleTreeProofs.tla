--------------------------- MODULE MerkleTreeProofs -------------------------
(***************************************************************************)
(* What the operators of modules MerkleTree and Bump compute.  For every   *)
(* row of leaves: the flat store holds the padded merkle tree, and a       *)
(* sibling path read from it leads from its leaf to the root.  For every   *)
(* block of subtrees and every set of txids: the BUMP assembled from the   *)
(* subtrees' fragments holds the siblings of the txids' ancestors, with    *)
(* the nodes of the block's tree (NodeAt) as their hashes, and the         *)
(* verifier computes the block's root from it.                             *)
(*                                                                         *)
(* The library's induction theorems take an operator as a parameter.       *)
(* Inductions are done here on the least member of a set of natural        *)
(* numbers (LeastNat): the least n that violates the claim is not 0 and    *)
(* its predecessor does not violate it.                                    *)
(***************************************************************************)
EXTENDS Bump, FiniteSetTheorems, WellFoundedInduction, TLAPS

(* A set of natural numbers that is not empty has a least member.          *)
LEMMA LeastNat ==
  ASSUME NEW T \in SUBSET Nat, T # {}
  PROVE  \E m \in T : \A k \in T : m <= k
<1> DEFINE R == {ss \in Nat \X Nat : ss[1] < ss[2]}
<1>1. IsWellFoundedOn(R, Nat)
  BY NatLessThanWellFounded DEF OpToRel
<1>2. \A x, y \in Nat : x < y => <<x, y>> \in R
  OBVIOUS
<1> HIDE DEF R
<1>3. PICK x \in T : \A y \in T : ~(<<y, x>> \in R)
  BY <1>1, WFMin
<1>4. ASSUME NEW y \in T PROVE x <= y
  <2>1. x \in Nat /\ y \in Nat
    OBVIOUS
  <2>2. ~(y < x)
    BY <1>2, <1>3, <2>1
  <2> QED
    BY <2>1, <2>2
<1> QED
  BY <1>4

(* Induction on a set: one that holds 0 and, with each number below h, its  *)
(* successor, holds all of 0..h.                                           *)
LEMMA UpTo ==
  ASSUME NEW h \in Nat, NEW T, 0 \in T, \A k \in 0..(h - 1) : k \in T => k + 1 \in T
  PROVE  0..h \subseteq T
<1> DEFINE Bad == {k \in 0..h : k \notin T}
<1> SUFFICES ASSUME Bad # {} PROVE FALSE
  OBVIOUS
<1>1. Bad \in SUBSET Nat
  OBVIOUS
<1> HIDE DEF Bad
<1>2. PICK m \in Bad : \A k \in Bad : m <= k
  BY <1>1, LeastNat
<1> USE DEF Bad
<1>3. m \in 1..h
  OBVIOUS
<1>4. m - 1 \in 0..h /\ m - 1 \notin Bad
  BY <1>2, <1>3
<1>5. m - 1 \in T
  BY <1>4
<1>6. m \in T
  <2>1. (m - 1) + 1 \in T
    BY <1>3, <1>5
  <2> QED
    BY <2>1, <1>3
<1> QED
  BY <1>6

(* The same without an upper end.                                          *)
LEMMA AllNat ==
  ASSUME NEW T, 0 \in T, \A k \in Nat : k \in T => k + 1 \in T
  PROVE  Nat \subseteq T
<1> SUFFICES ASSUME NEW h \in Nat PROVE h \in T
  OBVIOUS
<1>1. 0..h \subseteq T
  BY UpTo
<1> QED
  BY <1>1

-----------------------------------------------------------------------------

(* An initial segment of Pow2: what its recursion says up to m.            *)
IsPow2Upto(g, m) == g = [k \in 0..m |-> IF k = 0 THEN 1 ELSE 2 * g[k - 1]]

(* Pow2 as defined by recursion is a function that satisfies its equation. *)
LEMMA Pow2Def == Pow2 = [k \in Nat |-> IF k = 0 THEN 1 ELSE 2 * Pow2[k - 1]]
<1>1. \A m \in Nat : \E g : IsPow2Upto(g, m)
  <2> DEFINE T == {m \in Nat : \E g : IsPow2Upto(g, m)}
  <2>1. 0 \in T
    <3> DEFINE g == [k \in 0..0 |-> 1]
    <3>1. IsPow2Upto(g, 0)
      BY DEF IsPow2Upto
    <3> QED
      BY <3>1
  <2>2. ASSUME NEW m \in Nat, m \in T PROVE m + 1 \in T
    <3>1. PICK g : IsPow2Upto(g, m)
      BY <2>2
    <3> DEFINE f == [k \in 0..(m + 1) |-> IF k = 0 THEN 1 ELSE 2 * g[k - 1]]
    <3>2. \A k \in 0..m : g[k] = IF k = 0 THEN 1 ELSE 2 * g[k - 1]
      BY <3>1 DEF IsPow2Upto
    <3>3. \A k \in 0..m : f[k] = g[k]
      BY <3>2
    <3>4. ASSUME NEW k \in 0..(m + 1)
          PROVE  f[k] = IF k = 0 THEN 1 ELSE 2 * f[k - 1]
      <4>1. f[k] = IF k = 0 THEN 1 ELSE 2 * g[k - 1]
        OBVIOUS
      <4>2. k # 0 => k - 1 \in 0..m
        OBVIOUS
      <4> HIDE DEF f
      <4> QED
        BY <3>3, <4>1, <4>2
    <3>5. f = [k \in 0..(m + 1) |-> f[k]]
      OBVIOUS
    <3> HIDE DEF f
    <3>6. f = [k \in 0..(m + 1) |-> IF k = 0 THEN 1 ELSE 2 * f[k - 1]]
      BY <3>4, <3>5
    <3>7. IsPow2Upto(f, m + 1)
      BY <3>6 DEF IsPow2Upto
    <3> QED
      BY <3>7
  <2> HIDE DEF T
  <2>3. Nat \subseteq T
    BY <2>1, <2>2, AllNat
  <2> QED
    BY <2>3 DEF T
<1>2. ASSUME NEW l \in Nat, NEW m \in Nat, NEW g, NEW h,
             IsPow2Upto(g, l), IsPow2Upto(h, m), l <= m
      PROVE  \A k \in 0..l : g[k] = h[k]
  <2> DEFINE T == {k \in 0..l : g[k] = h[k]}
  <2>1. \A k \in 0..l : g[k] = IF k = 0 THEN 1 ELSE 2 * g[k - 1]
    BY <1>2 DEF IsPow2Upto
  <2>2. \A k \in 0..m : h[k] = IF k = 0 THEN 1 ELSE 2 * h[k - 1]
    BY <1>2 DEF IsPow2Upto
  <2>3. 0 \in T
    BY <2>1, <2>2, <1>2
  <2>4. \A k \in 0..(l - 1) : k \in T => k + 1 \in T
    BY <2>1, <2>2, <1>2
  <2> HIDE DEF T
  <2>5. 0..l \subseteq T
    BY <2>3, <2>4, UpTo
  <2> QED
    BY <2>5 DEF T
<1> DEFINE G == [k \in Nat |-> (CHOOSE g : IsPow2Upto(g, k))[k]]
<1>3. ASSUME NEW k \in Nat
      PROVE  G[k] = IF k = 0 THEN 1 ELSE 2 * G[k - 1]
  <2> DEFINE g == CHOOSE g : IsPow2Upto(g, k)
  <2>1. IsPow2Upto(g, k)
    BY <1>1
  <2>2. G[k] = g[k]
    OBVIOUS
  <2> HIDE DEF g
  <2>3. g[k] = IF k = 0 THEN 1 ELSE 2 * g[k - 1]
    BY <2>1 DEF IsPow2Upto
  <2>4. CASE k = 0
    BY <2>2, <2>3, <2>4
  <2>5. CASE k # 0
    <3> DEFINE h == CHOOSE h : IsPow2Upto(h, k - 1)
    <3>1. k - 1 \in Nat /\ k - 1 <= k
      BY <2>5
    <3>2. IsPow2Upto(h, k - 1)
      BY <1>1, <3>1
    <3>3. G[k - 1] = h[k - 1]
      BY <3>1
    <3> HIDE DEF h, G
    <3>4. h[k - 1] = g[k - 1]
      BY <1>2, <2>1, <3>1, <3>2
    <3> QED
      BY <2>2, <2>3, <2>5, <3>3, <3>4
  <2> QED
    BY <2>4, <2>5
<1>4. G = [k \in Nat |-> G[k]]
  OBVIOUS
<1> HIDE DEF G
<1>5. G = [k \in Nat |-> IF k = 0 THEN 1 ELSE 2 * G[k - 1]]
  BY <1>3, <1>4
<1> QED
  BY <1>5 DEF Pow2

(* What the rest of the proofs use of Pow2.                                *)
LEMMA Pow2Step == Pow2[0] = 1 /\ \A k \in Nat : Pow2[k + 1] = 2 * Pow2[k]
BY Pow2Def

(* The powers of two are natural numbers, each above its exponent.         *)
LEMMA Pow2Type == \A k \in Nat : Pow2[k] \in Nat /\ Pow2[k] > k
<1> DEFINE T == {k \in Nat : Pow2[k] \in Nat /\ Pow2[k] > k}
<1>1. 0 \in T
  BY Pow2Step
<1>2. \A k \in Nat : k \in T => k + 1 \in T
  BY Pow2Step
<1> HIDE DEF T
<1>3. Nat \subseteq T
  BY <1>1, <1>2, AllNat
<1> QED
  BY <1>3 DEF T

-----------------------------------------------------------------------------

(* Log2Ceil is what its comment says, the smallest h such that 2^h >= n.   *)
LEMMA Log2CeilFacts ==
  ASSUME NEW m \in Nat
  PROVE  /\ Log2Ceil(m) \in Nat
         /\ Pow2[Log2Ceil(m)] >= m
         /\ \A k \in 0..(Log2Ceil(m) - 1) : Pow2[k] < m
<1> DEFINE T == {k \in Nat : Pow2[k] >= m}
<1>1. m \in T
  BY Pow2Type
<1>2. T \in SUBSET Nat /\ T # {}
  BY <1>1
<1> HIDE DEF T
<1>3. PICK h \in T : \A k \in T : h <= k
  BY <1>2, LeastNat
<1>4. h \in 0..m
  BY <1>1, <1>2, <1>3
<1>5. Pow2[h] >= m
  BY DEF T
<1>6. ASSUME NEW k \in 0..(h - 1) PROVE Pow2[k] < m
  <2>1. k \in Nat /\ ~(h <= k)
    BY <1>4
  <2>2. k \notin T
    BY <1>3, <2>1
  <2> QED
    BY <2>1, <2>2, Pow2Type DEF T
<1> DEFINE Q(x) == Pow2[x] >= m /\ \A k \in 0..(x - 1) : Pow2[k] < m
<1>7. \E x \in 0..m : Q(x)
  BY <1>4, <1>5, <1>6
<1> HIDE DEF Q
<1>8. (CHOOSE x \in 0..m : Q(x)) \in 0..m /\ Q(CHOOSE x \in 0..m : Q(x))
  BY <1>7
<1> QED
  BY <1>8 DEF Q, Log2Ceil

(* The quotient of integer division is bounded by its remainder.           *)
LEMMA DivFacts ==
  ASSUME NEW a \in Nat, NEW b \in Nat \ {0}
  PROVE  /\ a \div b \in Nat
         /\ b * (a \div b) <= a
         /\ a < b * (a \div b) + b
OBVIOUS

(* A quotient is determined by its bounds.                                 *)
LEMMA DivUnique ==
  ASSUME NEW a \in Nat, NEW b \in Nat \ {0}, NEW q \in Nat, b * q <= a, a < b * q + b
  PROVE  a \div b = q
OBVIOUS

(* i >> (k + 1) is (i >> k) >> 1.                                           *)
LEMMA ShiftStep ==
  ASSUME NEW i \in Nat, NEW k \in Nat
  PROVE  /\ Shift(i, 0) = i
         /\ Shift(i, k) \in Nat
         /\ Shift(i, k + 1) = Shift(i, k) \div 2
<1>1. Pow2[k] \in Nat \ {0} /\ Pow2[k + 1] = 2 * Pow2[k] /\ Pow2[0] = 1
  BY Pow2Step, Pow2Type
<1> DEFINE b == Pow2[k]
           a == i \div b
           q == a \div 2
<1>2. a \in Nat /\ b * a <= i /\ i < b * a + b
  BY <1>1, DivFacts
<1>3. q \in Nat /\ (a = 2 * q \/ a = 2 * q + 1)
  BY <1>2
<1>4. i \div (2 * b) = q
  <2> HIDE DEF a, b, q
  <2>1. b \in Nat \ {0} /\ 2 * b \in Nat \ {0}
    BY <1>1 DEF b
  <2>2. CASE a = 2 * q
    <3>1. b * a = (2 * b) * q
      BY <1>3, <2>1, <2>2
    <3>2. (2 * b) * q <= i /\ i < (2 * b) * q + 2 * b
      BY <1>2, <2>1, <3>1
    <3> QED
      BY <1>3, <2>1, <3>2, DivUnique
  <2>3. CASE a = 2 * q + 1
    <3>1. b * a = (2 * b) * q + b
      BY <1>3, <2>1, <2>3
    <3>2. (2 * b) * q <= i /\ i < (2 * b) * q + 2 * b
      BY <1>2, <1>3, <2>1, <3>1
    <3> QED
      BY <1>3, <2>1, <3>2, DivUnique
  <2> QED
    BY <1>3, <2>2, <2>3
<1> QED
  BY <1>1, <1>2, <1>4 DEF Shift
(* Larger exponents, larger powers.                                        *)
LEMMA Pow2Mono ==
  ASSUME NEW a \in Nat, NEW b \in Nat, a <= b
  PROVE  Pow2[a] <= Pow2[b]
<1> DEFINE T == {d \in Nat : Pow2[a] <= Pow2[a + d]}
<1>1. 0 \in T
  BY Pow2Type
<1>2. ASSUME NEW d \in Nat, d \in T PROVE d + 1 \in T
  <2>1. a + d \in Nat /\ a + (d + 1) = (a + d) + 1
    OBVIOUS
  <2>2. Pow2[a + (d + 1)] = 2 * Pow2[a + d]
    BY <2>1, Pow2Step
  <2> QED
    BY <1>2, <2>1, <2>2, Pow2Type
<1> HIDE DEF T
<1>3. Nat \subseteq T
  BY <1>1, <1>2, AllNat
<1>4. b - a \in T /\ a + (b - a) = b
  BY <1>3
<1> QED
  BY <1>4 DEF T

(* The sizes of the levels of a padded tree.                               *)
LEMMA ShiftPow2 ==
  ASSUME NEW h \in Nat
  PROVE  \A k \in 0..h : Shift(Pow2[h], k) = Pow2[h - k]
<1> DEFINE p == Pow2[h]
           T == {k \in 0..h : Shift(p, k) = Pow2[h - k]}
<1>1. p \in Nat
  BY Pow2Type
<1>2. h - 0 = h
  OBVIOUS
<1>3. 0 \in T
  <2>1. Shift(p, 0) = p
    <3> HIDE DEF p
    <3> QED
      BY <1>1, ShiftStep
  <2> QED
    BY <1>2, <2>1
<1>4. ASSUME NEW k \in 0..(h - 1), k \in T PROVE k + 1 \in T
  <2>1. Shift(p, k + 1) = Shift(p, k) \div 2
    <3> HIDE DEF p
    <3> QED
      BY <1>1, ShiftStep
  <2>2. h - (k + 1) \in Nat /\ (h - (k + 1)) + 1 = h - k
    OBVIOUS
  <2>3. Pow2[h - k] = 2 * Pow2[h - (k + 1)] /\ Pow2[h - (k + 1)] \in Nat
    BY <2>2, Pow2Step, Pow2Type
  <2>4. Shift(p, k + 1) = Pow2[h - (k + 1)]
    BY <1>4, <2>1, <2>3
  <2> QED
    BY <2>4
<1> HIDE DEF T
<1>5. 0..h \subseteq T
  BY <1>3, <1>4, UpTo
<1> QED
  BY <1>5 DEF T

(* The position of a leaf's ancestor is a position of its level.           *)
LEMMA ShiftBound ==
  ASSUME NEW h \in Nat, NEW i \in Nat, i < Pow2[h]
  PROVE  \A k \in 0..h : Shift(i, k) \in 0..(Pow2[h - k] - 1)
<1> DEFINE T == {k \in 0..h : Shift(i, k) \in 0..(Pow2[h - k] - 1)}
<1>1. 0 \in T
  BY Pow2Type, ShiftStep
<1>2. ASSUME NEW k \in 0..(h - 1), k \in T PROVE k + 1 \in T
  <2>1. Shift(i, k + 1) = Shift(i, k) \div 2
    BY ShiftStep
  <2>2. h - (k + 1) \in Nat /\ (h - (k + 1)) + 1 = h - k
    OBVIOUS
  <2>3. Pow2[h - k] = 2 * Pow2[h - (k + 1)] /\ Pow2[h - (k + 1)] \in Nat
    BY <2>2, Pow2Step, Pow2Type
  <2>4. Shift(i, k) \in 0..(2 * Pow2[h - (k + 1)] - 1)
    BY <1>2, <2>3
  <2>5. Shift(i, k + 1) \in 0..(Pow2[h - (k + 1)] - 1)
    BY <2>1, <2>3, <2>4
  <2> QED
    BY <2>5
<1> HIDE DEF T
<1>3. 0..h \subseteq T
  BY <1>1, <1>2, UpTo
<1> QED
  BY <1>3 DEF T

(* A tree of two leaves or more has a level above its leaves.              *)
LEMMA PaddedSize ==
  ASSUME NEW m \in Nat, m > 1
  PROVE  /\ Log2Ceil(m) \in Nat \ {0}
         /\ Log2Ceil(m) - 1 \in Nat
         /\ NextPowerOfTwo(m) = Pow2[Log2Ceil(m)]
         /\ NextPowerOfTwo(m) = 2 * Pow2[Log2Ceil(m) - 1]
         /\ NextPowerOfTwo(m) \div 2 = Pow2[Log2Ceil(m) - 1]
         /\ Pow2[Log2Ceil(m) - 1] \in Nat \ {0}
         /\ NextPowerOfTwo(m) >= m
<1>1. Log2Ceil(m) \in Nat /\ Pow2[Log2Ceil(m)] >= m
  BY Log2CeilFacts
<1>2. Log2Ceil(m) # 0
  BY <1>1, Pow2Step
<1>3. Log2Ceil(m) - 1 \in Nat
  BY <1>1, <1>2
<1>4. Pow2[(Log2Ceil(m) - 1) + 1] = 2 * Pow2[Log2Ceil(m) - 1]
  BY <1>3, Pow2Step
<1>5. (Log2Ceil(m) - 1) + 1 = Log2Ceil(m)
  BY <1>1
<1>6. Pow2[Log2Ceil(m) - 1] \in Nat \ {0}
  BY <1>3, Pow2Type
<1>7. NextPowerOfTwo(m) = 2 * Pow2[Log2Ceil(m) - 1]
  BY <1>4, <1>5 DEF NextPowerOfTwo
<1> HIDE DEF NextPowerOfTwo
<1>8. NextPowerOfTwo(m) \div 2 = Pow2[Log2Ceil(m) - 1]
  BY <1>6, <1>7
<1> QED
  BY <1>1, <1>2, <1>3, <1>6, <1>7, <1>8 DEF NextPowerOfTwo

-----------------------------------------------------------------------------

(* What slot j holds, when g holds the slots below it.                     *)
SlotOf(leaves, half, g, j) ==
  IF j < half THEN HashPair(PadLeaf(leaves, 2 * j), PadLeaf(leaves, 2 * j + 1))
  ELSE HashPair(g[2 * (j - half)], g[2 * (j - half) + 1])

(* The recursion by which the store is defined has a solution: every slot  *)
(* of an upper level is the parent of two slots below it.                  *)
LEMMA StoreSlotsDef ==
  ASSUME NEW leaves, NEW half \in Nat \ {0}
  PROVE  StoreSlots(leaves, half) =
           [j \in 0..(2 * half - 2) |-> SlotOf(leaves, half, StoreSlots(leaves, half), j)]
<1> DEFINE Upto(g, m) == g = [j \in 0..m |-> SlotOf(leaves, half, g, j)]
           top == 2 * half - 2
           T == {m \in 0..top : \E g : Upto(g, m)}
<1>1. 0 \in T
  <2> DEFINE g == [j \in 0..0 |-> HashPair(PadLeaf(leaves, 2 * j), PadLeaf(leaves, 2 * j + 1))]
  <2>1. \A j \in 0..0 : g[j] = SlotOf(leaves, half, g, j)
    BY DEF SlotOf
  <2>2. g = [j \in 0..0 |-> g[j]]
    OBVIOUS
  <2> HIDE DEF g
  <2>3. g = [j \in 0..0 |-> SlotOf(leaves, half, g, j)]
    BY <2>1, <2>2
  <2> QED
    BY <2>3
<1>2. ASSUME NEW m \in 0..(top - 1), m \in T PROVE m + 1 \in T
  <2>1. PICK g : Upto(g, m)
    BY <1>2
  <2> DEFINE f == [j \in 0..(m + 1) |-> SlotOf(leaves, half, g, j)]
  <2>2. \A j \in 0..m : g[j] = SlotOf(leaves, half, g, j)
    BY <2>1
  <2>3. \A j \in 0..m : f[j] = g[j]
    BY <2>2
  <2>4. ASSUME NEW j \in 0..(m + 1)
        PROVE  f[j] = SlotOf(leaves, half, f, j)
    <3>1. f[j] = SlotOf(leaves, half, g, j)
      OBVIOUS
    <3>2. ~(j < half) => 2 * (j - half) \in 0..m /\ 2 * (j - half) + 1 \in 0..m
      OBVIOUS
    <3> HIDE DEF f
    <3> QED
      BY <2>3, <3>1, <3>2 DEF SlotOf
  <2>5. f = [j \in 0..(m + 1) |-> f[j]]
    OBVIOUS
  <2> HIDE DEF f
  <2>6. f = [j \in 0..(m + 1) |-> SlotOf(leaves, half, f, j)]
    BY <2>4, <2>5
  <2>7. m + 1 \in 0..top
    OBVIOUS
  <2> QED
    BY <2>6, <2>7
<1>3. top \in Nat
  OBVIOUS
<1> HIDE DEF T
<1>4. top \in T
  BY <1>1, <1>2, <1>3, UpTo
<1>5. \E g : g = [j \in 0..(2 * half - 2) |-> SlotOf(leaves, half, g, j)]
  BY <1>4 DEF T
<1> QED
  BY <1>5 DEF StoreSlots, SlotOf
(* The length of a row is a natural number.                                *)
LEMMA RowLength ==
  ASSUME NEW leaves, IsRow(leaves)
  PROVE  Len0(leaves) \in Nat /\ DOMAIN leaves = 0..(Len0(leaves) - 1)
<1>1. Len0(leaves) \in Nat
  BY FS_CardinalityType DEF IsRow, Len0
<1> QED
  BY <1>1 DEF IsRow

(* The store of a tree of two leaves or more: pad - 1 slots, each the pair *)
(* that SlotOf says.                                                       *)
LEMMA StoreFacts ==
  ASSUME NEW leaves, IsRow(leaves), Len0(leaves) > 1,
         NEW half, half = Pow2[Log2Ceil(Len0(leaves)) - 1]
  PROVE  /\ half \in Nat \ {0}
         /\ NextPowerOfTwo(Len0(leaves)) = 2 * half
         /\ BuildMerkleStore(leaves) =
              [j \in 0..(2 * half - 2) |-> SlotOf(leaves, half, BuildMerkleStore(leaves), j)]
         /\ Len0(BuildMerkleStore(leaves)) = 2 * half - 1
<1>1. Len0(leaves) \in Nat
  BY RowLength
<1>2. /\ half \in Nat \ {0}
      /\ NextPowerOfTwo(Len0(leaves)) = 2 * half
      /\ NextPowerOfTwo(Len0(leaves)) \div 2 = half
  BY <1>1, PaddedSize
<1>3. BuildMerkleStore(leaves) = StoreSlots(leaves, half)
  BY <1>1, <1>2 DEF BuildMerkleStore
<1>4. BuildMerkleStore(leaves) =
        [j \in 0..(2 * half - 2) |-> SlotOf(leaves, half, BuildMerkleStore(leaves), j)]
  BY <1>2, <1>3, StoreSlotsDef
<1>5. DOMAIN BuildMerkleStore(leaves) = 0..(2 * half - 2)
  BY <1>4
<1>6. Cardinality(0..(2 * half - 2)) = 2 * half - 1
  <2>1. 0 \in Int /\ 2 * half - 2 \in Int /\ ~(0 > 2 * half - 2)
    BY <1>2
  <2>2. Cardinality(0..(2 * half - 2)) = (2 * half - 2) - 0 + 1
    BY <2>1, FS_Interval
  <2> QED
    BY <1>2, <2>2
<1> QED
  BY <1>2, <1>4, <1>5, <1>6 DEF Len0

(* The node at position i of level k, the leaves being level 0: what the   *)
(* code reads at store[offset + i], offset being the start of the level.   *)
Node(leaves, k, i) ==
  IF k = 0 THEN PadLeaf(leaves, i)
  ELSE BuildMerkleStore(leaves)[LevelOffset(NextPowerOfTwo(Len0(leaves)), k) + i]

(* Where the levels start.                                                 *)
LEMMA LevelFacts ==
  ASSUME NEW m \in Nat, m > 1, NEW k \in 0..Log2Ceil(m)
  PROVE  /\ LevelSize(NextPowerOfTwo(m), k) = Pow2[Log2Ceil(m) - k]
         /\ LevelOffset(NextPowerOfTwo(m), k) = NextPowerOfTwo(m) - 2 * Pow2[Log2Ceil(m) - k]
         /\ Pow2[Log2Ceil(m) - k] \in Nat \ {0}
<1>1. Log2Ceil(m) \in Nat /\ NextPowerOfTwo(m) = Pow2[Log2Ceil(m)]
  BY PaddedSize
<1>2. Shift(NextPowerOfTwo(m), k) = Pow2[Log2Ceil(m) - k]
  BY <1>1, ShiftPow2
<1>3. Log2Ceil(m) - k \in Nat
  BY <1>1
<1>4. Pow2[Log2Ceil(m) - k] \in Nat \ {0}
  BY <1>3, Pow2Type
<1> QED
  BY <1>2, <1>4 DEF LevelSize, LevelOffset

(* Every node above the leaves is the pair of its two children.            *)
LEMMA NodeParent ==
  ASSUME NEW leaves, IsRow(leaves), Len0(leaves) > 1,
         NEW k \in 0..(Log2Ceil(Len0(leaves)) - 1),
         NEW i \in 0..(Pow2[Log2Ceil(Len0(leaves)) - (k + 1)] - 1)
  PROVE  Node(leaves, k + 1, i) = HashPair(Node(leaves, k, 2 * i), Node(leaves, k, 2 * i + 1))
<1> DEFINE n == Len0(leaves)
           h == Log2Ceil(n)
           half == Pow2[h - 1]
           pad == NextPowerOfTwo(n)
           store == BuildMerkleStore(leaves)
           size == Pow2[h - (k + 1)]
<1>1. n \in Nat /\ n > 1 /\ h \in Nat \ {0}
  BY RowLength, PaddedSize
<1>2. half \in Nat \ {0} /\ pad = 2 * half
  BY StoreFacts
<1>3. store = [j \in 0..(2 * half - 2) |-> SlotOf(leaves, half, store, j)]
  BY StoreFacts
<1>4. size \in Nat \ {0} /\ LevelOffset(pad, k + 1) = pad - 2 * size
  <2>1. k + 1 \in 0..h
    BY <1>1
  <2> QED
    BY <1>1, <2>1, LevelFacts
<1>5. i \in 0..(size - 1)
  OBVIOUS
<1>6. k = 0 => size = half
  BY <1>1
<1>7. ASSUME k # 0 PROVE 2 * size <= half /\ LevelOffset(pad, k) = pad - 4 * size
  <2>1. h - (k + 1) \in Nat /\ (h - (k + 1)) + 1 = h - k /\ k \in 0..h
    BY <1>1
  <2>2. Pow2[h - k] = 2 * size
    BY <2>1, Pow2Step
  <2>3. LevelOffset(pad, k) = pad - 2 * Pow2[h - k]
    BY <1>1, <2>1, LevelFacts
  <2>4. h - k \in Nat /\ h - 1 \in Nat /\ h - k <= h - 1
    BY <1>1, <1>7
  <2>5. Pow2[h - k] <= half
    BY <2>4, Pow2Mono
  <2> QED
    BY <1>2, <1>4, <2>2, <2>3, <2>5
<1> HIDE DEF n, half, pad, size
<1>8. LevelOffset(pad, k + 1) + i \in 0..(2 * half - 2)
  <2>1. size <= half
    BY <1>2, <1>4, <1>6, <1>7
  <2> QED
    BY <1>2, <1>4, <1>5, <2>1
<1>9. store[LevelOffset(pad, k + 1) + i] =
        SlotOf(leaves, half, store, LevelOffset(pad, k + 1) + i)
  <2> HIDE DEF store
  <2> QED
    BY <1>3, <1>8
<1>10. Node(leaves, k + 1, i) = SlotOf(leaves, half, store, LevelOffset(pad, k + 1) + i)
  BY <1>9 DEF Node, n, pad
<1>11. CASE k = 0
  <2>1. LevelOffset(pad, k + 1) + i = i /\ i < half
    BY <1>2, <1>4, <1>5, <1>6, <1>11
  <2> QED
    BY <1>10, <1>11, <2>1 DEF SlotOf, Node
<1>12. CASE k # 0
  <2> DEFINE pos == LevelOffset(pad, k + 1) + i
             child == LevelOffset(pad, k) + 2 * i
  <2>1. ~(pos < half) /\ 2 * (pos - half) = child
    BY <1>2, <1>4, <1>5, <1>7, <1>12
  <2>2. Node(leaves, k, 2 * i) = store[child]
    BY <1>12 DEF Node, n, pad
  <2>3. Node(leaves, k, 2 * i + 1) = store[LevelOffset(pad, k) + (2 * i + 1)]
    BY <1>12 DEF Node, n, pad
  <2>4. LevelOffset(pad, k) + (2 * i + 1) = child + 1
    BY <1>2, <1>4, <1>5, <1>7, <1>12
  <2>5. Node(leaves, k + 1, i) = SlotOf(leaves, half, store, pos)
    BY <1>10
  <2> HIDE DEF store, pos, child
  <2>6. SlotOf(leaves, half, store, pos) = HashPair(store[child], store[child + 1])
    BY <2>1 DEF SlotOf
  <2> QED
    BY <2>2, <2>3, <2>4, <2>5, <2>6
<1> QED
  BY <1>11, <1>12
(* The last slot of the store is the node at the top.                      *)
LEMMA RootNode ==
  ASSUME NEW leaves, IsRow(leaves), Len0(leaves) > 1
  PROVE  /\ MerkleRoot(leaves) = Node(leaves, Log2Ceil(Len0(leaves)), 0)
         /\ MerkleRoot(leaves) = BuildMerkleStore(leaves)[Len0(BuildMerkleStore(leaves)) - 1]
<1> DEFINE n == Len0(leaves)
           h == Log2Ceil(n)
           half == Pow2[h - 1]
<1>1. n \in Nat /\ n > 1 /\ h \in Nat \ {0}
  BY RowLength, PaddedSize
<1>2. /\ half \in Nat \ {0}
      /\ NextPowerOfTwo(n) = 2 * half
      /\ Len0(BuildMerkleStore(leaves)) = 2 * half - 1
  BY StoreFacts
<1>3. h \in 0..h /\ h - h = 0
  BY <1>1
<1>4. LevelOffset(NextPowerOfTwo(n), h) = NextPowerOfTwo(n) - 2 * Pow2[h - h]
  BY <1>1, <1>3, LevelFacts
<1>5. LevelOffset(NextPowerOfTwo(n), h) + 0 = Len0(BuildMerkleStore(leaves)) - 1
  BY <1>2, <1>3, <1>4, Pow2Step
<1>6. Node(leaves, h, 0) = BuildMerkleStore(leaves)[LevelOffset(NextPowerOfTwo(n), h) + 0]
  BY <1>1 DEF Node
<1> QED
  BY <1>5, <1>6 DEF MerkleRoot

-----------------------------------------------------------------------------

(* Level k of the padded tree, when g holds the level below it.            *)
RowOf(leaves, g, k) ==
  [i \in 0..(Pow2[Log2Ceil(Len0(leaves)) - k] - 1) |->
     IF k = 0 THEN PadLeaf(leaves, i) ELSE HashPair(g[k - 1][2 * i], g[k - 1][2 * i + 1])]

(* The reference definition of the levels satisfies its recursion.         *)
LEMMA PaddedRowsDef ==
  ASSUME NEW leaves, Log2Ceil(Len0(leaves)) \in Nat
  PROVE  PaddedRows(leaves) =
           [k \in 0..Log2Ceil(Len0(leaves)) |-> RowOf(leaves, PaddedRows(leaves), k)]
<1> DEFINE top == Log2Ceil(Len0(leaves))
           Upto(g, m) == g = [k \in 0..m |-> RowOf(leaves, g, k)]
           T == {m \in 0..top : \E g : Upto(g, m)}
<1>1. 0 \in T
  <2> DEFINE g == [k \in 0..0 |-> RowOf(leaves, << >>, k)]
  <2>1. \A k \in 0..0 : g[k] = RowOf(leaves, g, k)
    BY DEF RowOf
  <2>2. g = [k \in 0..0 |-> g[k]]
    OBVIOUS
  <2> HIDE DEF g
  <2>3. g = [k \in 0..0 |-> RowOf(leaves, g, k)]
    BY <2>1, <2>2
  <2> QED
    BY <2>3
<1>2. ASSUME NEW m \in 0..(top - 1), m \in T PROVE m + 1 \in T
  <2>1. PICK g : Upto(g, m)
    BY <1>2
  <2> DEFINE f == [k \in 0..(m + 1) |-> RowOf(leaves, g, k)]
  <2>2. \A k \in 0..m : g[k] = RowOf(leaves, g, k)
    BY <2>1
  <2>3. \A k \in 0..m : f[k] = g[k]
    BY <2>2
  <2>4. ASSUME NEW k \in 0..(m + 1)
        PROVE  f[k] = RowOf(leaves, f, k)
    <3>1. f[k] = RowOf(leaves, g, k)
      OBVIOUS
    <3>2. k # 0 => k - 1 \in 0..m
      OBVIOUS
    <3> HIDE DEF f
    <3> QED
      BY <2>3, <3>1, <3>2 DEF RowOf
  <2>5. f = [k \in 0..(m + 1) |-> f[k]]
    OBVIOUS
  <2> HIDE DEF f
  <2>6. f = [k \in 0..(m + 1) |-> RowOf(leaves, f, k)]
    BY <2>4, <2>5
  <2>7. m + 1 \in 0..top
    OBVIOUS
  <2> QED
    BY <2>6, <2>7
<1> HIDE DEF T
<1>3. top \in T
  BY <1>1, <1>2, UpTo
<1>4. \E g : g = [k \in 0..Log2Ceil(Len0(leaves)) |-> RowOf(leaves, g, k)]
  BY <1>3 DEF T
<1> QED
  BY <1>4 DEF PaddedRows, RowOf

(* The flat store holds the padded merkle tree: at every level, every node *)
(* the code reads from it is the node of the reference definition.         *)
LEMMA StoreIsPaddedTree ==
  ASSUME NEW leaves, IsRow(leaves), Len0(leaves) > 1
  PROVE  \A k \in 0..Log2Ceil(Len0(leaves)) :
           \A i \in 0..(Pow2[Log2Ceil(Len0(leaves)) - k] - 1) :
             PaddedLevel(leaves, k)[i] = Node(leaves, k, i)
<1> DEFINE h == Log2Ceil(Len0(leaves))
           Same(k) == \A i \in 0..(Pow2[h - k] - 1) : PaddedLevel(leaves, k)[i] = Node(leaves, k, i)
           T == {k \in 0..h : Same(k)}
<1>1. h \in Nat
  BY RowLength, PaddedSize
<1>2. \A k \in 0..h : PaddedLevel(leaves, k) = RowOf(leaves, PaddedRows(leaves), k)
  BY <1>1, PaddedRowsDef DEF PaddedLevel
<1>3. Same(0)
  <2>1. PaddedLevel(leaves, 0) = RowOf(leaves, PaddedRows(leaves), 0)
    BY <1>1, <1>2
  <2>2. \A i \in 0..(Pow2[h - 0] - 1) : PaddedLevel(leaves, 0)[i] = PadLeaf(leaves, i)
    BY <2>1 DEF RowOf
  <2> QED
    BY <2>2 DEF Node
<1>4. ASSUME NEW k \in 0..(h - 1), Same(k) PROVE Same(k + 1)
  <2> SUFFICES ASSUME NEW i \in 0..(Pow2[h - (k + 1)] - 1)
               PROVE  PaddedLevel(leaves, k + 1)[i] = Node(leaves, k + 1, i)
    OBVIOUS
  <2>1. k + 1 \in 0..h /\ k + 1 # 0 /\ (k + 1) - 1 = k
    BY <1>1
  <2>2. PaddedLevel(leaves, k + 1)[i] =
          HashPair(PaddedLevel(leaves, k)[2 * i], PaddedLevel(leaves, k)[2 * i + 1])
    <3>1. PaddedLevel(leaves, k + 1) = RowOf(leaves, PaddedRows(leaves), k + 1)
      BY <1>2, <2>1
    <3>2. PaddedLevel(leaves, k + 1)[i] =
            HashPair(PaddedRows(leaves)[k][2 * i], PaddedRows(leaves)[k][2 * i + 1])
      BY <2>1, <3>1 DEF RowOf
    <3> QED
      BY <3>2 DEF PaddedLevel
  <2>3. h - (k + 1) \in Nat /\ (h - (k + 1)) + 1 = h - k
    BY <1>1
  <2>4. Pow2[h - k] = 2 * Pow2[h - (k + 1)] /\ Pow2[h - (k + 1)] \in Nat
    BY <2>3, Pow2Step, Pow2Type
  <2>5. 2 * i \in 0..(Pow2[h - k] - 1) /\ 2 * i + 1 \in 0..(Pow2[h - k] - 1)
    BY <2>4
  <2>6. /\ PaddedLevel(leaves, k)[2 * i] = Node(leaves, k, 2 * i)
        /\ PaddedLevel(leaves, k)[2 * i + 1] = Node(leaves, k, 2 * i + 1)
    BY <1>4, <2>5
  <2>7. Node(leaves, k + 1, i) = HashPair(Node(leaves, k, 2 * i), Node(leaves, k, 2 * i + 1))
    BY NodeParent
  <2> QED
    BY <2>2, <2>6, <2>7
<1>5. 0 \in T
  BY <1>1, <1>3
<1>6. \A k \in 0..(h - 1) : k \in T => k + 1 \in T
  <2> HIDE DEF Same
  <2> QED
    BY <1>1, <1>4
<1> HIDE DEF T
<1>7. 0..h \subseteq T
  BY <1>1, <1>5, <1>6, UpTo
<1> QED
  BY <1>7 DEF T
-----------------------------------------------------------------------------

(* The other element of a pair, by the parity of the position.             *)
LEMMA SiblingFacts ==
  ASSUME NEW p \in Nat
  PROVE  /\ Sibling(p) \in Nat
         /\ p % 2 = 0 => p = 2 * (p \div 2) /\ Sibling(p) = 2 * (p \div 2) + 1
         /\ p % 2 # 0 => p = 2 * (p \div 2) + 1 /\ Sibling(p) = 2 * (p \div 2)
BY DEF Sibling

(* What proofFromStore reads: at every level below the root, the sibling   *)
(* of the leaf's ancestor.  The clamp at the end of a level never applies, *)
(* and the last leaf of an odd row is its own sibling.                     *)
LEMMA ProofIsSiblings ==
  ASSUME NEW leaves, IsRow(leaves), Len0(leaves) > 1, NEW index \in DOMAIN leaves
  PROVE  ProofFromStore(leaves, BuildMerkleStore(leaves), index, Log2Ceil(Len0(leaves))) =
           [k \in 0..(Log2Ceil(Len0(leaves)) - 1) |-> Node(leaves, k, Sibling(Shift(index, k)))]
<1> DEFINE n == Len0(leaves)
           h == Log2Ceil(n)
           pad == NextPowerOfTwo(n)
           proof == ProofFromStore(leaves, BuildMerkleStore(leaves), index, h)
<1>1. n \in Nat /\ n > 1 /\ h \in Nat \ {0} /\ index \in 0..(n - 1) /\ index \in Nat
  BY RowLength, PaddedSize
<1>2. index < Pow2[h]
  <2>1. pad >= n /\ pad = Pow2[h] /\ pad \in Nat
    BY <1>1, PaddedSize, Pow2Type
  <2> QED
    BY <1>1, <2>1
<1>3. proof = [k \in 0..(h - 1) |-> proof[k]]
  BY DEF ProofFromStore
<1>4. ASSUME NEW k \in 0..(h - 1)
      PROVE  proof[k] = Node(leaves, k, Sibling(Shift(index, k)))
  <2>1. CASE k = 0
    <3>1. proof[0] = leaves[IF Sibling(index) >= n THEN index ELSE Sibling(index)]
      BY <1>1 DEF ProofFromStore
    <3>2. Sibling(index) >= n => index = n - 1
      BY <1>1 DEF Sibling
    <3>3. Shift(index, 0) = index
      BY <1>1, ShiftStep
    <3>4. Node(leaves, 0, Sibling(index)) = leaves[IF Sibling(index) >= n THEN n - 1 ELSE Sibling(index)]
      BY DEF Node, PadLeaf
    <3> QED
      BY <2>1, <3>1, <3>2, <3>3, <3>4
  <2>2. CASE k # 0
    <3> DEFINE pos == Sibling(Shift(index, k))
    <3>1. proof[k] = BuildMerkleStore(leaves)[LevelOffset(pad, k) +
                       (IF pos >= LevelSize(pad, k) THEN LevelSize(pad, k) - 1 ELSE pos)]
      BY <1>1, <2>2 DEF ProofFromStore
    <3>2. k \in 0..h /\ LevelSize(pad, k) = Pow2[h - k]
      BY <1>1, LevelFacts
    <3>3. Shift(index, k) \in 0..(Pow2[h - k] - 1)
      BY <1>1, <1>2, <3>2, ShiftBound
    <3>4. h - (k + 1) \in Nat /\ (h - (k + 1)) + 1 = h - k
      BY <1>1
    <3>5. Pow2[h - k] = 2 * Pow2[h - (k + 1)] /\ Pow2[h - (k + 1)] \in Nat
      BY <3>4, Pow2Step, Pow2Type
    <3>6. pos \in 0..(Pow2[h - k] - 1)
      BY <3>3, <3>5 DEF Sibling
    <3>7. ~(pos >= LevelSize(pad, k))
      BY <3>2, <3>5, <3>6
    <3>8. proof[k] = BuildMerkleStore(leaves)[LevelOffset(pad, k) + pos]
      BY <3>1, <3>7
    <3> QED
      BY <2>2, <3>8 DEF Node
  <2> QED
    BY <2>1, <2>2
<1> HIDE DEF proof
<1>5. proof = [k \in 0..(h - 1) |-> Node(leaves, k, Sibling(Shift(index, k)))]
  BY <1>3, <1>4
<1> QED
  BY <1>5 DEF proof

(* What a verifier holds after level k, when g holds what it held before.  *)
UpOf(leaf, index, path, g, k) ==
  IF k = 0 THEN leaf
  ELSE IF Shift(index, k - 1) % 2 = 0 THEN HashPair(g[k - 1], path[k - 1])
  ELSE HashPair(path[k - 1], g[k - 1])

(* The verifier's recursion has a solution.                                *)
LEMMA RootFromPathDef ==
  ASSUME NEW leaf, NEW index, NEW path, Len0(path) \in Nat
  PROVE  \E up : /\ \A k \in 0..Len0(path) : up[k] = UpOf(leaf, index, path, up, k)
                 /\ RootFromPath(leaf, index, path) = up[Len0(path)]
<1> DEFINE top == Len0(path)
           Upto(g, m) == g = [k \in 0..m |-> UpOf(leaf, index, path, g, k)]
           T == {m \in 0..top : \E g : Upto(g, m)}
<1>1. 0 \in T
  <2> DEFINE g == [k \in 0..0 |-> leaf]
  <2>1. \A k \in 0..0 : g[k] = UpOf(leaf, index, path, g, k)
    BY DEF UpOf
  <2>2. g = [k \in 0..0 |-> g[k]]
    OBVIOUS
  <2> HIDE DEF g
  <2>3. g = [k \in 0..0 |-> UpOf(leaf, index, path, g, k)]
    BY <2>1, <2>2
  <2> QED
    BY <2>3
<1>2. ASSUME NEW m \in 0..(top - 1), m \in T PROVE m + 1 \in T
  <2>1. PICK g : Upto(g, m)
    BY <1>2
  <2> DEFINE f == [k \in 0..(m + 1) |-> UpOf(leaf, index, path, g, k)]
  <2>2. \A k \in 0..m : g[k] = UpOf(leaf, index, path, g, k)
    BY <2>1
  <2>3. \A k \in 0..m : f[k] = g[k]
    BY <2>2
  <2>4. ASSUME NEW k \in 0..(m + 1)
        PROVE  f[k] = UpOf(leaf, index, path, f, k)
    <3>1. f[k] = UpOf(leaf, index, path, g, k)
      OBVIOUS
    <3>2. k # 0 => k - 1 \in 0..m
      OBVIOUS
    <3> HIDE DEF f
    <3> QED
      BY <2>3, <3>1, <3>2 DEF UpOf
  <2>5. f = [k \in 0..(m + 1) |-> f[k]]
    OBVIOUS
  <2> HIDE DEF f
  <2>6. f = [k \in 0..(m + 1) |-> UpOf(leaf, index, path, f, k)]
    BY <2>4, <2>5
  <2>7. m + 1 \in 0..top
    OBVIOUS
  <2> QED
    BY <2>6, <2>7
<1> HIDE DEF T
<1>3. top \in T
  BY <1>1, <1>2, UpTo
<1>4. \E g : g = [k \in 0..Len0(path) |-> UpOf(leaf, index, path, g, k)]
  BY <1>3 DEF T
<1> DEFINE u == CHOOSE g : g = [k \in 0..Len0(path) |-> UpOf(leaf, index, path, g, k)]
<1>5. u = [k \in 0..Len0(path) |-> UpOf(leaf, index, path, u, k)]
  BY <1>4
<1>6. RootFromPath(leaf, index, path) = u[Len0(path)]
  BY DEF RootFromPath, UpOf
<1> HIDE DEF u
<1>7. \A k \in 0..Len0(path) : u[k] = UpOf(leaf, index, path, u, k)
  BY <1>5
<1> QED
  BY <1>6, <1>7

(* "The sibling-hash path needed to prove that leaves[index] is part of    *)
(* the merkle tree" (subtree.go): for every row of two leaves or more and  *)
(* every leaf, the path read from the store has one hash per level and     *)
(* leads from the leaf to the root, also in the padded part of the tree.   *)
THEOREM PathLeadsToRoot ==
  ASSUME NEW leaves, IsRow(leaves), Len0(leaves) > 1, NEW index \in DOMAIN leaves,
         NEW path,
         path = ProofFromStore(leaves, BuildMerkleStore(leaves), index, Log2Ceil(Len0(leaves)))
  PROVE  /\ Len0(path) = Log2Ceil(Len0(leaves))
         /\ RootFromPath(leaves[index], index, path) = MerkleRoot(leaves)
<1> DEFINE n == Len0(leaves)
           h == Log2Ceil(n)
<1>1. n \in Nat /\ n > 1 /\ h \in Nat \ {0} /\ index \in 0..(n - 1) /\ index \in Nat
  BY RowLength, PaddedSize
<1>2. index < Pow2[h]
  <2>1. NextPowerOfTwo(n) >= n /\ NextPowerOfTwo(n) = Pow2[h] /\ NextPowerOfTwo(n) \in Nat
    BY <1>1, PaddedSize, Pow2Type
  <2> QED
    BY <1>1, <2>1
<1>3. path = [k \in 0..(h - 1) |-> Node(leaves, k, Sibling(Shift(index, k)))]
  BY ProofIsSiblings
<1>4. Len0(path) = h
  <2>1. DOMAIN path = 0..(h - 1)
    BY <1>3
  <2>2. 0 \in Int /\ h - 1 \in Int /\ ~(0 > h - 1)
    BY <1>1
  <2>3. Cardinality(0..(h - 1)) = (h - 1) - 0 + 1
    BY <2>2, FS_Interval
  <2> QED
    BY <1>1, <2>1, <2>3 DEF Len0
<1>5. PICK up : /\ \A k \in 0..h : up[k] = UpOf(leaves[index], index, path, up, k)
                /\ RootFromPath(leaves[index], index, path) = up[h]
  <2> DEFINE leaf == leaves[index]
  <2>1. Len0(path) \in Nat
    BY <1>1, <1>4
  <2> HIDE DEF leaf, h
  <2>2. \E up : /\ \A k \in 0..Len0(path) : up[k] = UpOf(leaf, index, path, up, k)
                /\ RootFromPath(leaf, index, path) = up[Len0(path)]
    BY <2>1, RootFromPathDef
  <2> QED
    BY <1>4, <2>2 DEF leaf
<1> DEFINE T == {k \in 0..h : up[k] = Node(leaves, k, Shift(index, k))}
<1>6. 0 \in T
  <2>1. up[0] = leaves[index]
    BY <1>1, <1>5 DEF UpOf
  <2>2. Shift(index, 0) = index
    BY <1>1, ShiftStep
  <2>3. Node(leaves, 0, index) = leaves[index]
    BY <1>1 DEF Node, PadLeaf
  <2> QED
    BY <1>1, <2>1, <2>2, <2>3
<1>7. ASSUME NEW k \in 0..(h - 1), k \in T PROVE k + 1 \in T
  <2> DEFINE pos == Shift(index, k)
  <2>1. pos \in Nat /\ Shift(index, k + 1) = pos \div 2
    BY <1>1, ShiftStep
  <2>2. k + 1 \in 0..h /\ k + 1 # 0 /\ (k + 1) - 1 = k
    BY <1>1
  <2>3. up[k + 1] = UpOf(leaves[index], index, path, up, k + 1)
    BY <1>5, <2>2
  <2>4. up[k + 1] = IF pos % 2 = 0 THEN HashPair(up[k], path[k]) ELSE HashPair(path[k], up[k])
    BY <2>2, <2>3 DEF UpOf
  <2>5. up[k] = Node(leaves, k, pos) /\ path[k] = Node(leaves, k, Sibling(pos))
    BY <1>3, <1>7
  <2>6. pos \div 2 \in 0..(Pow2[h - (k + 1)] - 1)
    BY <1>1, <1>2, <2>1, <2>2, ShiftBound
  <2>7. Node(leaves, k + 1, pos \div 2) =
          HashPair(Node(leaves, k, 2 * (pos \div 2)), Node(leaves, k, 2 * (pos \div 2) + 1))
    BY <2>6, NodeParent
  <2>8. up[k + 1] = Node(leaves, k + 1, pos \div 2)
    <3> HIDE DEF pos
    <3> QED
      BY <2>1, <2>4, <2>5, <2>7, SiblingFacts
  <2> QED
    BY <2>1, <2>2, <2>8
<1> HIDE DEF T
<1>8. h \in T
  BY <1>1, <1>6, <1>7, UpTo
<1>9. Shift(index, h) = 0
  <2>1. h \in 0..h /\ h - h = 0
    BY <1>1
  <2>2. Shift(index, h) \in 0..(Pow2[0] - 1)
    BY <1>1, <1>2, <2>1, ShiftBound
  <2> QED
    BY <2>2, Pow2Step
<1>10. up[h] = MerkleRoot(leaves)
  BY <1>8, <1>9, RootNode DEF T
<1> QED
  BY <1>4, <1>5, <1>10

-----------------------------------------------------------------------------
(* The Bitcoin rule.                                                       *)

(* Level k of Bitcoin's tree, when g holds the level below it.             *)
BitcoinRowOf(leaves, g, k) == IF k = 0 THEN leaves ELSE BitcoinParents(g[k - 1])

(* The reference definition of Bitcoin's levels satisfies its recursion.   *)
LEMMA BitcoinRowsDef ==
  ASSUME NEW leaves, Log2Ceil(Len0(leaves)) \in Nat
  PROVE  BitcoinRows(leaves) =
           [k \in 0..Log2Ceil(Len0(leaves)) |-> BitcoinRowOf(leaves, BitcoinRows(leaves), k)]
<1> DEFINE top == Log2Ceil(Len0(leaves))
           Upto(g, m) == g = [k \in 0..m |-> BitcoinRowOf(leaves, g, k)]
           T == {m \in 0..top : \E g : Upto(g, m)}
<1>1. 0 \in T
  <2> DEFINE g == [k \in 0..0 |-> BitcoinRowOf(leaves, << >>, k)]
  <2>1. \A k \in 0..0 : g[k] = BitcoinRowOf(leaves, g, k)
    BY DEF BitcoinRowOf
  <2>2. g = [k \in 0..0 |-> g[k]]
    OBVIOUS
  <2> HIDE DEF g
  <2>3. g = [k \in 0..0 |-> BitcoinRowOf(leaves, g, k)]
    BY <2>1, <2>2
  <2> QED
    BY <2>3
<1>2. ASSUME NEW m \in 0..(top - 1), m \in T PROVE m + 1 \in T
  <2>1. PICK g : Upto(g, m)
    BY <1>2
  <2> DEFINE f == [k \in 0..(m + 1) |-> BitcoinRowOf(leaves, g, k)]
  <2>2. \A k \in 0..m : g[k] = BitcoinRowOf(leaves, g, k)
    BY <2>1
  <2>3. \A k \in 0..m : f[k] = g[k]
    BY <2>2
  <2>4. ASSUME NEW k \in 0..(m + 1)
        PROVE  f[k] = BitcoinRowOf(leaves, f, k)
    <3>1. f[k] = BitcoinRowOf(leaves, g, k)
      OBVIOUS
    <3>2. k # 0 => k - 1 \in 0..m
      OBVIOUS
    <3> HIDE DEF f
    <3> QED
      BY <2>3, <3>1, <3>2 DEF BitcoinRowOf
  <2>5. f = [k \in 0..(m + 1) |-> f[k]]
    OBVIOUS
  <2> HIDE DEF f
  <2>6. f = [k \in 0..(m + 1) |-> BitcoinRowOf(leaves, f, k)]
    BY <2>4, <2>5
  <2>7. m + 1 \in 0..top
    OBVIOUS
  <2> QED
    BY <2>6, <2>7
<1> HIDE DEF T
<1>3. top \in T
  BY <1>1, <1>2, UpTo
<1>4. \E g : g = [k \in 0..Log2Ceil(Len0(leaves)) |-> BitcoinRowOf(leaves, g, k)]
  BY <1>3 DEF T
<1> QED
  BY <1>4 DEF BitcoinRows, BitcoinRowOf

(* x, the pair of x with itself, the pair of that with itself, and so on.  *)
IsDoubling(r, x, h) == r[0] = x /\ \A k \in 0..(h - 1) : r[k + 1] = HashPair(r[k], r[k])

(* There is a row of h doublings of any hash: the hash of the pair of what *)
(* stands before, as at the right edge of a padded tree.                   *)
LEMMA Doublings ==
  ASSUME NEW h \in Nat, NEW x
  PROVE  \E r : IsDoubling(r, x, h)
<1> DEFINE T == {m \in 0..h : \E r : IsDoubling(r, x, m)}
<1>1. 0 \in T
  <2> DEFINE r == [k \in 0..0 |-> x]
  <2>1. r[0] = x
    OBVIOUS
  <2>2. 0..(0 - 1) = {} /\ 0 \in 0..h
    OBVIOUS
  <2> HIDE DEF r
  <2>3. IsDoubling(r, x, 0)
    BY <2>1, <2>2 DEF IsDoubling
  <2> QED
    BY <2>2, <2>3
<1>2. ASSUME NEW m \in 0..(h - 1), m \in T PROVE m + 1 \in T
  <2>1. PICK r : IsDoubling(r, x, m)
    BY <1>2
  <2> DEFINE f == [k \in 0..(m + 1) |-> IF k <= m THEN r[k] ELSE HashPair(r[m], r[m])]
  <2>2. /\ \A k \in 0..m : f[k] = r[k]
        /\ f[m + 1] = HashPair(r[m], r[m])
    OBVIOUS
  <2> HIDE DEF f
  <2>3. f[0] = x
    BY <2>1, <2>2 DEF IsDoubling
  <2>4. ASSUME NEW k \in 0..m PROVE f[k + 1] = HashPair(f[k], f[k])
    <3>1. CASE k = m
      BY <2>2, <3>1
    <3>2. CASE k # m
      <4>1. k \in 0..(m - 1) /\ k + 1 \in 0..m
        BY <3>2
      <4> QED
        BY <2>1, <2>2, <4>1 DEF IsDoubling
    <3> QED
      BY <3>1, <3>2
  <2>5. m + 1 \in 0..h /\ (m + 1) - 1 = m
    OBVIOUS
  <2>6. IsDoubling(f, x, m + 1)
    BY <2>3, <2>4, <2>5 DEF IsDoubling
  <2> QED
    BY <2>5, <2>6
<1> HIDE DEF T
<1>3. h \in T
  BY <1>1, <1>2, UpTo
<1> QED
  BY <1>3 DEF T

(* Two trees over the same leaves, the last of them at L[0].  P extends    *)
(* the leaves by copies of the last to a power of two, B pairs a last node *)
(* that is alone with itself.  L[k] is the last node of B's level k.  The  *)
(* last nodes of a level agree exactly when at every level below the node  *)
(* met alone stands over the last leaf only.                               *)
TwoTrees(H, L, P, B) ==
  /\ \A k \in 0..H : L[k] \in 0..(Pow2[H - k] - 1)
  /\ \A k \in 0..(H - 1) : L[k + 1] = L[k] \div 2
  /\ \A i \in 0..L[0] : B[0][i] = P[0][i]
  /\ \A i \in L[0]..(Pow2[H] - 1) : P[0][i] = P[0][L[0]]
  /\ \A i \in 0..(L[0] - 1) : P[0][i] # P[0][L[0]]
  /\ \A k \in 0..(H - 1) : \A i \in 0..(Pow2[H - (k + 1)] - 1) :
       P[k + 1][i] = HashPair(P[k][2 * i], P[k][2 * i + 1])
  /\ \A k \in 0..(H - 1) : \A i \in 0..L[k + 1] :
       B[k + 1][i] = HashPair(B[k][2 * i], IF 2 * i < L[k] THEN B[k][2 * i + 1] ELSE B[k][2 * i])

(* Their last nodes.                                                       *)
LEMMA TwoPaddings ==
  ASSUME NEW H \in Nat, NEW L, NEW P, NEW B, TwoTrees(H, L, P, B)
  PROVE  B[H][L[H]] = P[H][L[H]] <=>
           \A j \in 0..(H - 1) : L[j] % 2 = 1 \/ \A i \in 0..(j - 1) : L[i] % 2 = 0
<1> USE DEF TwoTrees
<1>1. PICK R : R[0] = P[0][L[0]] /\ \A k \in 0..(H - 1) : R[k + 1] = HashPair(R[k], R[k])
  <2>1. \E r : IsDoubling(r, P[0][L[0]], H)
    BY ONLY H \in Nat, Doublings, Zenon
  <2> QED
    BY <2>1 DEF IsDoubling
<1> DEFINE Even(k) == \A j \in 0..(k - 1) : L[j] % 2 = 0
           Whole(k) == \A j \in 0..(k - 1) : L[j] % 2 = 1 \/ Even(j)
           Same(k) == \A i \in 0..(L[k] - 1) : B[k][i] = P[k][i]
           Copies(k) == \A i \in (L[k] + 1)..(Pow2[H - k] - 1) : P[k][i] = R[k]
           Others(k) == \A i \in 0..(L[k] - 1) : P[k][i] # R[k]
           Alone(k) == P[k][L[k]] = R[k] <=> Even(k)
           Agree(k) == B[k][L[k]] = P[k][L[k]] <=> Whole(k)
           T == {k \in 0..H : Same(k) /\ Copies(k) /\ Others(k) /\ Alone(k) /\ Agree(k)}
<1>2. 0 \in T
  <2>1. 0 \in 0..H /\ L[0] \in Nat /\ H - 0 = H
    OBVIOUS
  <2>2. L[0] \in 0..(Pow2[H] - 1)
    BY <2>1
  <2>3. Same(0) /\ Others(0)
    BY <1>1, <2>1
  <2>4. Copies(0)
    BY <1>1, <2>1
  <2>5. Alone(0) /\ Agree(0)
    BY <1>1, <2>1
  <2> QED
    BY <2>1, <2>3, <2>4, <2>5
<1>3. ASSUME NEW k \in 0..(H - 1), k \in T PROVE k + 1 \in T
  <2>1. k \in 0..H /\ k + 1 \in 0..H /\ H - (k + 1) \in Nat /\ (H - (k + 1)) + 1 = H - k
    BY ONLY H \in Nat, k \in 0..(H - 1)
  <2>2. PICK q \in Nat : q = Pow2[H - (k + 1)] /\ Pow2[H - k] = 2 * q
    BY ONLY <2>1, Pow2Step, Pow2Type
  <2>3. PICK l, m : l = L[k] /\ m = L[k + 1]
    OBVIOUS
  <2>4. l \in 0..(2 * q - 1) /\ m \in 0..(q - 1) /\ m = l \div 2
    BY <2>1, <2>2, <2>3
  <2>5. l = 2 * m \/ l = 2 * m + 1
    BY ONLY q \in Nat, <2>4
  <2>6. \A i \in 0..(q - 1) : P[k + 1][i] = HashPair(P[k][2 * i], P[k][2 * i + 1])
    BY <2>2
  <2>7. \A i \in 0..m :
          B[k + 1][i] = HashPair(B[k][2 * i], IF 2 * i < l THEN B[k][2 * i + 1] ELSE B[k][2 * i])
    BY <2>3
  <2>8. R[k + 1] = HashPair(R[k], R[k])
    BY <1>1
  <2>9. /\ \A i \in 0..(l - 1) : B[k][i] = P[k][i]
        /\ \A i \in (l + 1)..(2 * q - 1) : P[k][i] = R[k]
        /\ \A i \in 0..(l - 1) : P[k][i] # R[k]
        /\ P[k][l] = R[k] <=> Even(k)
        /\ B[k][l] = P[k][l] <=> Whole(k)
    BY <1>3, <2>2, <2>3
  <2>10. /\ Even(k + 1) <=> Even(k) /\ l % 2 = 0
         /\ Whole(k + 1) <=> Whole(k) /\ (l % 2 = 1 \/ Even(k))
    <3>1. 0..((k + 1) - 1) = 0..(k - 1) \cup {k}
      BY ONLY k \in 0..(H - 1), H \in Nat
    <3>2. Even(k + 1) <=> Even(k) /\ L[k] % 2 = 0
      BY <3>1
    <3> HIDE DEF Even
    <3>3. Whole(k + 1) <=> Whole(k) /\ (L[k] % 2 = 1 \/ Even(k))
      BY <3>1
    <3> QED
      BY <2>3, <3>2, <3>3
  <2> HIDE DEF Even, Whole
  <2>11. ASSUME NEW i \in 0..(m - 1)
         PROVE  B[k + 1][i] = P[k + 1][i] /\ P[k + 1][i] # R[k + 1]
    <3>1. i \in 0..(q - 1) /\ i \in 0..m
      BY <2>4
    <3>2. 2 * i \in 0..(l - 1) /\ 2 * i + 1 \in 0..(l - 1) /\ 2 * i < l
      BY <2>4, <2>5
    <3>3. /\ B[k][2 * i] = P[k][2 * i] /\ B[k][2 * i + 1] = P[k][2 * i + 1]
          /\ P[k][2 * i] # R[k]
      BY <2>9, <3>2
    <3>4. P[k + 1][i] = HashPair(P[k][2 * i], P[k][2 * i + 1])
      BY <2>6, <3>1
    <3>5. B[k + 1][i] = HashPair(B[k][2 * i], B[k][2 * i + 1])
      BY <2>7, <3>1, <3>2
    <3> QED
      BY <2>8, <3>3, <3>4, <3>5 DEF HashPair
  <2>12. ASSUME NEW i \in (m + 1)..(q - 1)
         PROVE  P[k + 1][i] = R[k + 1]
    <3>1. i \in 0..(q - 1) /\ 2 * i \in (l + 1)..(2 * q - 1) /\ 2 * i + 1 \in (l + 1)..(2 * q - 1)
      BY <2>4, <2>5
    <3>2. P[k][2 * i] = R[k] /\ P[k][2 * i + 1] = R[k]
      BY <2>9, <3>1
    <3> QED
      BY <2>6, <2>8, <3>1, <3>2
  <2>13. m \in 0..(q - 1) /\ m \in 0..m /\ m \in Nat /\ l \in Nat
    BY <2>4
  <2>14. P[k + 1][m] = HashPair(P[k][2 * m], P[k][2 * m + 1])
    BY <2>6, <2>13
  <2>15. ASSUME l = 2 * m
         PROVE  /\ P[k + 1][m] = R[k + 1] <=> Even(k + 1)
                /\ B[k + 1][m] = P[k + 1][m] <=> Whole(k + 1)
    <3>1. l % 2 = 0 /\ l % 2 # 1
      BY <2>13, <2>15
    <3>2. 2 * m + 1 \in (l + 1)..(2 * q - 1)
      BY <2>4, <2>15
    <3>3. P[k][2 * m + 1] = R[k]
      BY <2>9, <3>2
    <3>4. B[k + 1][m] = HashPair(B[k][l], B[k][l])
      BY <2>7, <2>13, <2>15
    <3>5. P[k + 1][m] = HashPair(P[k][l], R[k])
      BY <2>14, <2>15, <3>3
    <3>6. P[k + 1][m] = R[k + 1] <=> P[k][l] = R[k]
      BY <2>8, <3>5 DEF HashPair
    <3>7. B[k + 1][m] = P[k + 1][m] <=> B[k][l] = P[k][l] /\ P[k][l] = R[k]
      BY <3>4, <3>5 DEF HashPair
    <3> QED
      BY <2>9, <2>10, <3>1, <3>6, <3>7
  <2>16. ASSUME l = 2 * m + 1
         PROVE  /\ P[k + 1][m] = R[k + 1] <=> Even(k + 1)
                /\ B[k + 1][m] = P[k + 1][m] <=> Whole(k + 1)
    <3>1. l % 2 # 0 /\ l % 2 = 1
      BY <2>13, <2>16
    <3>2. 2 * m \in 0..(l - 1) /\ 2 * m < l
      BY <2>13, <2>16
    <3>3. B[k][2 * m] = P[k][2 * m] /\ P[k][2 * m] # R[k]
      BY <2>9, <3>2
    <3>4. B[k + 1][m] = HashPair(B[k][2 * m], B[k][l])
      BY <2>7, <2>13, <2>16, <3>2
    <3>5. P[k + 1][m] = HashPair(P[k][2 * m], P[k][l])
      BY <2>14, <2>16
    <3>6. P[k + 1][m] # R[k + 1]
      BY <2>8, <3>3, <3>5 DEF HashPair
    <3>7. B[k + 1][m] = P[k + 1][m] <=> B[k][l] = P[k][l]
      BY <3>3, <3>4, <3>5 DEF HashPair
    <3> QED
      BY <2>9, <2>10, <3>1, <3>6, <3>7
  <2>17. /\ P[k + 1][m] = R[k + 1] <=> Even(k + 1)
         /\ B[k + 1][m] = P[k + 1][m] <=> Whole(k + 1)
    BY <2>5, <2>15, <2>16
  <2> QED
    BY <2>1, <2>2, <2>3, <2>11, <2>12, <2>17
<1>4. H \in T
  <2> HIDE DEF T
  <2>1. \A k \in 0..(H - 1) : k \in T => k + 1 \in T
    BY <1>3
  <2>2. 0..H \subseteq T
    BY <1>2, <2>1, UpTo
  <2> QED
    BY <2>2
<1> QED
  BY <1>4

(* Bitcoin's levels over a row, in terms of the last node of each.         *)
BitcoinLevels(B, leaves, last, H) ==
  /\ \A k \in 0..H : Shift(last, k) \in 0..(Pow2[H - k] - 1)
  /\ \A k \in 0..(H - 1) : \A i \in 0..Shift(last, k + 1) :
       B[k + 1][i] =
         HashPair(B[k][2 * i], IF 2 * i < Shift(last, k) THEN B[k][2 * i + 1] ELSE B[k][2 * i])
  /\ B[0] = leaves

(* The reference definition computes them.                                 *)
LEMMA BitcoinShape ==
  ASSUME NEW leaves, IsRow(leaves), NEW last \in Nat, Len0(leaves) = last + 1,
         NEW H, Log2Ceil(last + 1) = H
  PROVE  BitcoinLevels(BitcoinRows(leaves), leaves, last, H)
<1> DEFINE B == BitcoinRows(leaves)
<1>1. H \in Nat /\ last < Pow2[H]
  <2>1. Pow2[H] >= last + 1 /\ H \in Nat
    BY Log2CeilFacts
  <2> QED
    BY <2>1, Pow2Type
<1>2. \A k \in 0..H : B[k] = BitcoinRowOf(leaves, B, k)
  <2>1. Log2Ceil(Len0(leaves)) = H
    OBVIOUS
  <2>2. B = [k \in 0..H |-> BitcoinRowOf(leaves, B, k)]
    BY <1>1, <2>1, BitcoinRowsDef
  <2> HIDE DEF B
  <2> QED
    BY <2>2
<1> HIDE DEF B
<1>3. \A k \in 0..H : Shift(last, k) \in 0..(Pow2[H - k] - 1)
  BY <1>1, ShiftBound
<1>4. B[0] = leaves
  <2>1. 0 \in 0..H
    BY <1>1
  <2> QED
    BY <1>2, <2>1 DEF BitcoinRowOf
<1>5. ASSUME NEW k \in 0..(H - 1), DOMAIN B[k] = 0..Shift(last, k)
      PROVE  B[k + 1] = [i \in 0..Shift(last, k + 1) |->
                           HashPair(B[k][2 * i], IF 2 * i < Shift(last, k) THEN B[k][2 * i + 1]
                                                 ELSE B[k][2 * i])]
  <2>1. k + 1 \in 0..H /\ k + 1 # 0 /\ (k + 1) - 1 = k /\ k \in Nat
    BY <1>1
  <2>2. B[k + 1] = BitcoinParents(B[k])
    BY <1>2, <2>1 DEF BitcoinRowOf
  <2>3. PICK l \in Nat, m \in Nat : l = Shift(last, k) /\ m = Shift(last, k + 1) /\ m = l \div 2
    <3>1. Shift(last, k) \in Nat /\ Shift(last, k + 1) = Shift(last, k) \div 2
      BY <2>1, ShiftStep
    <3>2. k + 1 \in Nat
      BY <2>1
    <3>3. Shift(last, k + 1) \in Nat
      BY <3>2, ShiftStep
    <3> QED
      BY <3>1, <3>3
  <2>4. Len0(B[k]) = l + 1
    <3>1. Cardinality(0..l) = IF 0 > l THEN 0 ELSE l - 0 + 1
      BY FS_Interval
    <3> QED
      BY <1>5, <2>3, <3>1 DEF Len0
  <2>5. (l + 1 + 1) \div 2 - 1 = m
    BY <2>3
  <2> DEFINE row == B[k]
  <2> HIDE DEF row
  <2>6. BitcoinParents(row) =
          [i \in 0..((Len0(row) + 1) \div 2 - 1) |->
             HashPair(row[2 * i], row[IF 2 * i + 1 < Len0(row) THEN 2 * i + 1 ELSE 2 * i])]
    BY DEF BitcoinParents
  <2>7. BitcoinParents(row) =
          [i \in 0..m |-> HashPair(row[2 * i], row[IF 2 * i + 1 < l + 1 THEN 2 * i + 1 ELSE 2 * i])]
    BY <2>4, <2>5, <2>6 DEF row
  <2>8. \A i \in 0..m : row[IF 2 * i + 1 < l + 1 THEN 2 * i + 1 ELSE 2 * i] =
                          IF 2 * i < l THEN row[2 * i + 1] ELSE row[2 * i]
    BY <2>3
  <2>9. BitcoinParents(row) =
          [i \in 0..m |-> HashPair(row[2 * i], IF 2 * i < l THEN row[2 * i + 1] ELSE row[2 * i])]
    BY <2>7, <2>8
  <2> QED
    BY <2>2, <2>3, <2>9 DEF row
<1> DEFINE T == {k \in 0..H : DOMAIN B[k] = 0..Shift(last, k)}
<1>6. 0 \in T
  <2>1. DOMAIN leaves = 0..last
    BY RowLength
  <2>2. Shift(last, 0) = last /\ 0 \in 0..H
    BY <1>1, ShiftStep
  <2> QED
    BY <1>4, <2>1, <2>2
<1>7. ASSUME NEW k \in 0..(H - 1), k \in T PROVE k + 1 \in T
  <2>1. k + 1 \in 0..H
    BY <1>1
  <2>2. DOMAIN B[k] = 0..Shift(last, k)
    BY <1>7
  <2> QED
    BY <1>5, <2>1, <2>2
<1>8. 0..H \subseteq T
  <2> HIDE DEF T
  <2>1. \A k \in 0..(H - 1) : k \in T => k + 1 \in T
    BY <1>7
  <2> QED
    BY <1>1, <1>6, <2>1, UpTo
<1>9. \A k \in 0..H : DOMAIN B[k] = 0..Shift(last, k)
  BY <1>8
<1>10. ASSUME NEW k \in 0..(H - 1), NEW i \in 0..Shift(last, k + 1)
       PROVE  B[k + 1][i] = HashPair(B[k][2 * i], IF 2 * i < Shift(last, k) THEN B[k][2 * i + 1]
                                                  ELSE B[k][2 * i])
  <2>1. k \in 0..H
    BY <1>1
  <2>2. DOMAIN B[k] = 0..Shift(last, k)
    BY <1>9, <2>1
  <2> QED
    BY <1>5, <2>2
<1> QED
  BY <1>3, <1>4, <1>10 DEF B, BitcoinLevels

(* The root computed is Bitcoin's exactly when no level has an odd last    *)
(* node below a level whose last node is alone.                            *)
LEMMA BitcoinRootIff ==
  ASSUME NEW leaves, IsRow(leaves), Len0(leaves) > 1,
         \A i, j \in DOMAIN leaves : leaves[i] = leaves[j] => i = j,
         NEW last \in Nat, Len0(leaves) = last + 1,
         NEW H \in Nat \ {0}, Log2Ceil(last + 1) = H
  PROVE  MerkleRoot(leaves) = BitcoinRoot(leaves) <=>
           \A j \in 0..(H - 1) :
             Shift(last, j) % 2 = 1 \/ \A i \in 0..(j - 1) : Shift(last, i) % 2 = 0
<1> DEFINE L == [k \in 0..H |-> Shift(last, k)]
           P == PaddedRows(leaves)
           B == BitcoinRows(leaves)
<1>1. DOMAIN leaves = 0..last
  BY RowLength
<1>2. BitcoinLevels(B, leaves, last, H)
  BY BitcoinShape
<1>3. \A k \in 0..H : P[k] = RowOf(leaves, P, k)
  <2>1. P = [k \in 0..H |-> RowOf(leaves, P, k)]
    BY <1>1, PaddedRowsDef
  <2> HIDE DEF P
  <2> QED
    BY <2>1
<1> HIDE DEF P, B
<1>4. \A i \in 0..(Pow2[H] - 1) : P[0][i] = PadLeaf(leaves, i)
  <2>1. 0 \in 0..H /\ H - 0 = H
    BY <1>1
  <2>2. P[0] = RowOf(leaves, P, 0)
    BY <1>3, <2>1
  <2> QED
    BY <2>1, <2>2 DEF RowOf
<1>5. ASSUME NEW k \in 0..(H - 1), NEW i \in 0..(Pow2[H - (k + 1)] - 1)
      PROVE  P[k + 1][i] = HashPair(P[k][2 * i], P[k][2 * i + 1])
  <2>1. k + 1 \in 0..H /\ k + 1 # 0 /\ (k + 1) - 1 = k
    BY <1>1
  <2>2. P[k + 1] = RowOf(leaves, P, k + 1)
    BY <1>3, <2>1
  <2> QED
    BY <2>1, <2>2 DEF RowOf
<1>6. last \in 0..(Pow2[H] - 1) /\ Shift(last, 0) = last
  <2>1. 0 \in 0..H /\ H - 0 = H /\ Shift(last, 0) = last
    BY <1>1, ShiftStep
  <2>2. Shift(last, 0) \in 0..(Pow2[H - 0] - 1)
    BY <1>2, <2>1 DEF BitcoinLevels
  <2> QED
    BY <2>1, <2>2
<1>7. Pow2[H] \in Nat
  BY <1>1, Pow2Type
<1>8. \A i \in 0..last : P[0][i] = leaves[i]
  BY <1>1, <1>4, <1>6, <1>7 DEF PadLeaf
<1>9. \A i \in last..(Pow2[H] - 1) : P[0][i] = leaves[last]
  BY <1>1, <1>4, <1>7 DEF PadLeaf
<1>10. \A i \in 0..(last - 1) : P[0][i] # P[0][last]
  BY <1>1, <1>8
<1>11. /\ L[0] = last /\ L[H] = Shift(last, H)
       /\ \A k \in 0..H : L[k] = Shift(last, k)
  BY <1>1, <1>6
<1> HIDE DEF L
<1>12. \A k \in 0..H : L[k] \in 0..(Pow2[H - k] - 1)
  BY <1>2, <1>11 DEF BitcoinLevels
<1>13. ASSUME NEW k \in 0..(H - 1) PROVE L[k + 1] = L[k] \div 2
  <2>1. k \in 0..H /\ k + 1 \in 0..H /\ k \in Nat
    OBVIOUS
  <2>2. Shift(last, k + 1) = Shift(last, k) \div 2
    BY <2>1, ShiftStep
  <2> QED
    BY <1>11, <2>1, <2>2
<1>14. ASSUME NEW k \in 0..(H - 1)
       PROVE  \A i \in 0..L[k + 1] :
                B[k + 1][i] = HashPair(B[k][2 * i], IF 2 * i < L[k] THEN B[k][2 * i + 1]
                                                    ELSE B[k][2 * i])
  <2>1. k \in 0..H /\ k + 1 \in 0..H
    OBVIOUS
  <2>2. L[k] = Shift(last, k) /\ L[k + 1] = Shift(last, k + 1)
    BY <1>11, <2>1
  <2> QED
    BY <1>2, <2>2 DEF BitcoinLevels
<1>15. B[H][L[H]] = P[H][L[H]] <=>
         \A j \in 0..(H - 1) : L[j] % 2 = 1 \/ \A i \in 0..(j - 1) : L[i] % 2 = 0
  <2>1. H \in Nat
    BY <1>1
  <2>2. \A i \in 0..L[0] : B[0][i] = P[0][i]
    BY <1>2, <1>8, <1>11 DEF BitcoinLevels
  <2>3. \A i \in L[0]..(Pow2[H] - 1) : P[0][i] = P[0][L[0]]
    BY <1>1, <1>8, <1>9, <1>11
  <2>4. \A i \in 0..(L[0] - 1) : P[0][i] # P[0][L[0]]
    BY <1>10, <1>11
  <2>5. TwoTrees(H, L, P, B)
    BY ONLY <1>5, <1>12, <1>13, <1>14, <2>2, <2>3, <2>4 DEF TwoTrees
  <2> QED
    BY <2>1, <2>5, TwoPaddings
<1>16. L[H] = 0
  <2>1. H - H = 0 /\ Pow2[0] = 1 /\ H \in 0..H
    BY <1>1, Pow2Step
  <2> QED
    BY <1>12, <2>1
<1>17. BitcoinRoot(leaves) = B[H][0]
  BY <1>1 DEF BitcoinRoot, B
<1>18. MerkleRoot(leaves) = P[H][0]
  <2>1. MerkleRoot(leaves) = Node(leaves, Log2Ceil(Len0(leaves)), 0)
    BY RootNode
  <2>2. H \in 0..H /\ 0 \in 0..(Pow2[H - H] - 1)
    <3>1. H - H = 0 /\ Pow2[0] = 1
      BY Pow2Step
    <3> QED
      BY <3>1
  <2>3. PaddedLevel(leaves, H)[0] = Node(leaves, H, 0)
    BY <2>2, StoreIsPaddedTree
  <2> QED
    BY <2>1, <2>3 DEF PaddedLevel, P
<1>19. \A j \in 0..(H - 1) : L[j] = Shift(last, j) /\ \A i \in 0..(j - 1) : L[i] = Shift(last, i)
  BY <1>1, <1>11
<1> QED
  BY <1>15, <1>16, <1>17, <1>18, <1>19

-----------------------------------------------------------------------------
(* A block of subtrees, and what is computed from it: the leaf at a global *)
(* index, the stores, the roots, their proofs and the block's root.        *)
IsBlock(blk) ==
  /\ blk = [si \in Subtrees |-> [li \in LocalIdxs |-> blk[si][li]]]
  /\ \A si \in Subtrees, li \in LocalIdxs : blk[si][li] # ZeroHash

LeafAt(blk, g)   == blk[SubtreeOf(g)][LocalOf(g)]
StoresOf(blk)    == [si \in Subtrees |-> BuildMerkleStore(blk[si])]
RootsOf(blk)     == [si \in Subtrees |-> MerkleRoot(blk[si])]
TopProofsOf(blk) == GetAllProofs(RootsOf(blk)).proofs
BlockRootOf(blk) == MerkleRoot(RootsOf(blk))

(* The subtrees with an index in P, and the local indices in one of them.  *)
SpannedBy(P)    == {SubtreeOf(g) : g \in P}
LocalsOf(P, si) == {LocalOf(g) : g \in {o \in P : SubtreeOf(o) = si}}

(* Offsets si * HashesPerSubtree + li are offsets in the padded tree only  *)
(* for this; with other sizes BUMPs do not verify (TokenBumpOddSubtree).   *)
PowerOfTwoSubtrees == HashesPerSubtree = Pow2[SubtreeHeight]

-----------------------------------------------------------------------------
(* Offsets.                                                                *)

(* The heights of the subtrees and of the tree above them.                 *)
LEMMA Heights ==
  ASSUME PowerOfTwoSubtrees
  PROVE  /\ SubtreeHeight \in Nat \ {0} /\ TopTreeHeight \in Nat \ {0}
         /\ TotalHeight \in Nat \ {0} /\ TotalHeight = SubtreeHeight + TopTreeHeight
         /\ HashesPerSubtree \in Nat /\ HashesPerSubtree > 1
         /\ HashesPerSubtree = Pow2[SubtreeHeight]
         /\ NumSubtrees \in Nat /\ NumSubtrees > 1 /\ NumSubtrees <= Pow2[TopTreeHeight]
<1>1. HashesPerSubtree \in Nat /\ HashesPerSubtree > 1 /\ NumSubtrees \in Nat /\ NumSubtrees > 1
  BY ShapeAssumption
<1>2. SubtreeHeight \in Nat \ {0}
  BY <1>1, PaddedSize DEF SubtreeHeight
<1>3. TopTreeHeight \in Nat \ {0} /\ NumSubtrees <= Pow2[TopTreeHeight]
  BY <1>1, PaddedSize, Pow2Type DEF TopTreeHeight
<1> QED
  BY <1>1, <1>2, <1>3 DEF TotalHeight, PowerOfTwoSubtrees

(* The remainder by the quotient.                                          *)
LEMMA ModFacts ==
  ASSUME NEW x \in Nat, NEW b \in Nat \ {0}
  PROVE  x % b = x - b * (x \div b)
OBVIOUS

(* Quotient and remainder of an offset in blocks of q.                     *)
LEMMA Within ==
  ASSUME NEW q \in Nat \ {0}, NEW a \in Nat, NEW r \in 0..(q - 1)
  PROVE  /\ a * q + r \in Nat
         /\ (a * q + r) \div q = a
         /\ (a * q + r) % q = r
<1> DEFINE p == q * a
<1>1. p \in Nat /\ a * q = p /\ q * a = p /\ r \in Nat /\ r < q
  OBVIOUS
<1> HIDE DEF p
<1>2. p + r \in Nat /\ q * a <= p + r /\ p + r < q * a + q
  BY <1>1
<1>3. (p + r) \div q = a
  BY <1>2, DivUnique
<1>4. (p + r) % q = (p + r) - q * ((p + r) \div q)
  BY <1>2, ModFacts
<1>5. (p + r) % q = r
  BY <1>1, <1>3, <1>4
<1> QED
  BY <1>1, <1>2, <1>3, <1>5

(* A product of an offset below n by q, with a remainder, stays below n*q. *)
LEMMA WithinBound ==
  ASSUME NEW q \in Nat \ {0}, NEW n \in Nat, NEW a \in 0..(n - 1), NEW r \in 0..(q - 1)
  PROVE  a * q + r < n * q
<1>1. (n - 1 - a) * q >= 0
  OBVIOUS
<1>2. (n - 1 - a) * q = n * q - q - a * q
  OBVIOUS
<1>3. a * q \in Nat /\ n * q \in Nat
  OBVIOUS
<1> QED
  BY <1>1, <1>2, <1>3

(* An offset is its subtree's base and its local index.                    *)
LEMMA Located ==
  ASSUME NEW g \in Leafs
  PROVE  /\ SubtreeOf(g) \in Subtrees /\ LocalOf(g) \in LocalIdxs
         /\ g = GlobalIdx(SubtreeOf(g), LocalOf(g))
<1> DEFINE q == HashesPerSubtree
           a == g \div q
<1>1. q \in Nat \ {0} /\ NumSubtrees \in Nat \ {0} /\ g \in Nat /\ g < NumSubtrees * q
  BY ShapeAssumption DEF Leafs
<1>2. a \in Nat /\ q * a <= g /\ g < q * a + q /\ g % q = g - q * a
  BY <1>1
<1>3. a < NumSubtrees
  <2> SUFFICES ASSUME a >= NumSubtrees PROVE FALSE
    BY <1>1, <1>2
  <2>1. (a - NumSubtrees) * q >= 0
    BY <1>1, <1>2
  <2>2. (a - NumSubtrees) * q = q * a - NumSubtrees * q
    BY <1>1, <1>2
  <2>3. q * a \in Nat /\ NumSubtrees * q \in Nat
    BY <1>1, <1>2
  <2> QED
    BY <1>1, <1>2, <2>1, <2>2, <2>3
<1>4. q * a = a * q /\ a * q \in Nat
  BY <1>1, <1>2
<1>5. g % q \in 0..(q - 1) /\ g = a * q + (g % q)
  BY <1>1, <1>2, <1>4
<1> QED
  BY <1>1, <1>2, <1>3, <1>5 DEF SubtreeOf, LocalOf, GlobalIdx, Subtrees, LocalIdxs

(* And back.                                                               *)
LEMMA Global ==
  ASSUME NEW si \in Subtrees, NEW li \in LocalIdxs
  PROVE  /\ GlobalIdx(si, li) \in Leafs
         /\ SubtreeOf(GlobalIdx(si, li)) = si /\ LocalOf(GlobalIdx(si, li)) = li
<1>1. HashesPerSubtree \in Nat \ {0} /\ NumSubtrees \in Nat \ {0}
  BY ShapeAssumption
<1>2. si \in Nat /\ si \in 0..(NumSubtrees - 1) /\ li \in 0..(HashesPerSubtree - 1)
  BY <1>1 DEF Subtrees, LocalIdxs
<1>3. /\ si * HashesPerSubtree + li \in Nat
      /\ (si * HashesPerSubtree + li) \div HashesPerSubtree = si
      /\ (si * HashesPerSubtree + li) % HashesPerSubtree = li
  BY <1>1, <1>2, Within
<1>4. si * HashesPerSubtree + li < NumSubtrees * HashesPerSubtree
  BY <1>1, <1>2, WithinBound
<1>5. NumSubtrees * HashesPerSubtree \in Nat
  BY <1>1
<1> QED
  BY <1>3, <1>4, <1>5 DEF Leafs, GlobalIdx, SubtreeOf, LocalOf

(* Half of an offset in blocks of 2q.                                      *)
LEMMA HalfWithin ==
  ASSUME NEW q \in Nat, NEW a \in Nat, NEW r \in Nat
  PROVE  (a * (2 * q) + r) \div 2 = a * q + (r \div 2)
<1> DEFINE p == a * q
<1>1. p \in Nat /\ a * (2 * q) = 2 * p /\ a * q = p
  OBVIOUS
<1> HIDE DEF p
<1>2. (2 * p + r) \div 2 = p + (r \div 2)
  BY <1>1
<1> QED
  BY <1>1, <1>2

(* The ancestor of a leaf, k levels up inside its subtree, and its sibling *)
(* lie among the nodes of the subtree on that level.                       *)
LEMMA AncestorWithin ==
  ASSUME PowerOfTwoSubtrees, NEW si \in Subtrees, NEW li \in LocalIdxs
  PROVE  \A k \in 0..SubtreeHeight :
           /\ Shift(GlobalIdx(si, li), k) = si * Pow2[SubtreeHeight - k] + Shift(li, k)
           /\ Shift(li, k) \in 0..(Pow2[SubtreeHeight - k] - 1)
<1> DEFINE s == SubtreeHeight
           g == GlobalIdx(si, li)
           T == {k \in 0..s : Shift(g, k) = si * Pow2[s - k] + Shift(li, k)}
<1>1. /\ s \in Nat /\ li \in Nat /\ li < Pow2[s] /\ si \in Nat /\ g \in Nat
      /\ g = si * Pow2[s] + li
  BY Heights, Global DEF LocalIdxs, Subtrees, GlobalIdx, Leafs
<1> HIDE DEF g
<1>2. \A k \in 0..s : Shift(li, k) \in 0..(Pow2[s - k] - 1)
  BY <1>1, ShiftBound
<1>3. 0 \in T
  <2>1. Shift(g, 0) = g /\ Shift(li, 0) = li
    BY <1>1, ShiftStep
  <2>2. 0 \in 0..s /\ s - 0 = s
    BY <1>1
  <2> QED
    BY <1>1, <2>1, <2>2
<1>4. ASSUME NEW k \in 0..(s - 1), k \in T PROVE k + 1 \in T
  <2>1. s - (k + 1) \in Nat /\ s - k = (s - (k + 1)) + 1 /\ k \in Nat /\ k + 1 \in 0..s
    BY <1>1
  <2>2. Pow2[s - k] = 2 * Pow2[s - (k + 1)] /\ Pow2[s - (k + 1)] \in Nat
    BY <2>1, Pow2Step, Pow2Type
  <2>3. /\ Shift(g, k + 1) = Shift(g, k) \div 2
        /\ Shift(li, k) \in Nat /\ Shift(li, k + 1) = Shift(li, k) \div 2
    BY <1>1, <2>1, ShiftStep
  <2>4. Shift(g, k) = si * (2 * Pow2[s - (k + 1)]) + Shift(li, k)
    BY <1>4, <2>2
  <2> QED
    BY <1>1, <2>1, <2>2, <2>3, <2>4, HalfWithin
<1> HIDE DEF T
<1>5. 0..s \subseteq T
  BY <1>1, <1>3, <1>4, UpTo
<1> QED
  BY <1>2, <1>5 DEF T, g

(* Above the subtrees the ancestors are those of the subtree.              *)
LEMMA AncestorAbove ==
  ASSUME PowerOfTwoSubtrees, NEW g \in Leafs
  PROVE  \A k \in 0..TopTreeHeight :
           /\ Shift(g, SubtreeHeight + k) = Shift(SubtreeOf(g), k)
           /\ Shift(g, SubtreeHeight + k) \in 0..(Pow2[TopTreeHeight - k] - 1)
<1> DEFINE s == SubtreeHeight
           t == TopTreeHeight
           si == SubtreeOf(g)
           T == {k \in 0..t : Shift(g, s + k) = Shift(si, k)}
<1>1. /\ s \in Nat /\ t \in Nat /\ HashesPerSubtree = Pow2[s]
      /\ NumSubtrees \in Nat /\ NumSubtrees <= Pow2[t] /\ Pow2[t] \in Nat
  BY Heights, Pow2Type
<1>2. si \in Nat /\ si < Pow2[t]
  BY <1>1, Located DEF Subtrees
<1>3. g \in Nat
  BY DEF Leafs
<1>4. \A k \in 0..t : Shift(si, k) \in 0..(Pow2[t - k] - 1)
  BY <1>1, <1>2, ShiftBound
<1>5. 0 \in T
  <2>1. Shift(g, s) = si
    BY <1>1 DEF Shift, SubtreeOf
  <2>2. Shift(si, 0) = si /\ s + 0 = s /\ 0 \in 0..t
    BY <1>1, <1>2, ShiftStep
  <2> QED
    BY <2>1, <2>2
<1>6. ASSUME NEW k \in 0..(t - 1), k \in T PROVE k + 1 \in T
  <2>1. k \in Nat /\ s + k \in Nat /\ (s + k) + 1 = s + (k + 1) /\ k + 1 \in 0..t
    BY <1>1
  <2>2. Shift(g, (s + k) + 1) = Shift(g, s + k) \div 2
    BY <1>3, <2>1, ShiftStep
  <2>3. Shift(si, k + 1) = Shift(si, k) \div 2
    BY <1>2, <2>1, ShiftStep
  <2> QED
    BY <1>6, <2>1, <2>2, <2>3
<1> HIDE DEF T
<1>7. 0..t \subseteq T
  BY <1>1, <1>5, <1>6, UpTo
<1> QED
  BY <1>4, <1>7 DEF T

-----------------------------------------------------------------------------
(* The block's tree.                                                       *)

(* The rows of the trees: a subtree's leaves, and the roots.               *)
LEMMA Rows ==
  ASSUME NEW blk, IsBlock(blk)
  PROVE
  /\ \A si \in Subtrees :
       /\ IsRow(blk[si]) /\ Len0(blk[si]) = HashesPerSubtree
       /\ DOMAIN blk[si] = LocalIdxs
       /\ \A li \in LocalIdxs : blk[si][li] = LeafAt(blk, GlobalIdx(si, li))
       /\ StoresOf(blk)[si] = BuildMerkleStore(blk[si])
  /\ IsRow(RootsOf(blk)) /\ Len0(RootsOf(blk)) = NumSubtrees /\ DOMAIN RootsOf(blk) = Subtrees
  /\ \A si \in Subtrees : RootsOf(blk)[si] = MerkleRoot(blk[si])
<1>1. HashesPerSubtree \in Nat \ {0} /\ NumSubtrees \in Nat \ {0}
  BY ShapeAssumption
<1>2. ASSUME NEW m \in Nat \ {0}
      PROVE  Cardinality(0..(m - 1)) = m /\ IsFiniteSet(0..(m - 1))
  <2>1. 0 \in Int /\ m - 1 \in Int /\ ~(0 > m - 1)
    OBVIOUS
  <2>2. Cardinality(0..(m - 1)) = (m - 1) - 0 + 1 /\ IsFiniteSet(0..(m - 1))
    BY <2>1, FS_Interval
  <2> QED
    BY <2>2
<1>3. ASSUME NEW si \in Subtrees
      PROVE  /\ IsRow(blk[si]) /\ Len0(blk[si]) = HashesPerSubtree
             /\ DOMAIN blk[si] = LocalIdxs
             /\ \A li \in LocalIdxs : blk[si][li] = LeafAt(blk, GlobalIdx(si, li))
  <2> DEFINE row == blk[si]
  <2>1. row = [li \in 0..(HashesPerSubtree - 1) |-> blk[si][li]]
    BY IsBlock(blk) DEF IsBlock, LocalIdxs
  <2> HIDE DEF row
  <2>2. Len0(row) = HashesPerSubtree /\ IsFiniteSet(DOMAIN row)
    <3>1. DOMAIN row = 0..(HashesPerSubtree - 1)
      BY <2>1
    <3>2. Cardinality(DOMAIN row) = HashesPerSubtree /\ IsFiniteSet(DOMAIN row)
      BY <1>1, <1>2, <3>1
    <3> QED
      BY <3>2 DEF Len0
  <2>3. row = [li \in 0..(Len0(row) - 1) |-> row[li]]
    BY <2>1, <2>2
  <2>4. \A li \in LocalIdxs : blk[si][li] = LeafAt(blk, GlobalIdx(si, li))
    BY Global DEF LeafAt
  <2> QED
    BY <2>1, <2>2, <2>3, <2>4 DEF IsRow, row, LocalIdxs
<1>4. \A si \in Subtrees : StoresOf(blk)[si] = BuildMerkleStore(blk[si])
  BY DEF StoresOf
<1>5. /\ IsRow(RootsOf(blk)) /\ Len0(RootsOf(blk)) = NumSubtrees /\ DOMAIN RootsOf(blk) = Subtrees
      /\ \A si \in Subtrees : RootsOf(blk)[si] = MerkleRoot(blk[si])
  <2> DEFINE row == RootsOf(blk)
  <2>1. row = [si \in 0..(NumSubtrees - 1) |-> MerkleRoot(blk[si])]
    BY DEF RootsOf, Subtrees
  <2> HIDE DEF row
  <2>2. Len0(row) = NumSubtrees /\ IsFiniteSet(DOMAIN row)
    <3>1. DOMAIN row = 0..(NumSubtrees - 1)
      BY <2>1
    <3>2. Cardinality(DOMAIN row) = NumSubtrees /\ IsFiniteSet(DOMAIN row)
      BY <1>1, <1>2, <3>1
    <3> QED
      BY <3>2 DEF Len0
  <2>3. row = [si \in 0..(Len0(row) - 1) |-> row[si]]
    BY <2>1, <2>2
  <2> QED
    BY <2>1, <2>2, <2>3 DEF IsRow, row, Subtrees
<1> QED
  BY <1>3, <1>4, <1>5

(* The node of the block's tree at an offset of a level.                   *)
NodeAt(blk, h, off) ==
  IF h < SubtreeHeight
  THEN Node(blk[Shift(off, SubtreeHeight - h)], h, off % Pow2[SubtreeHeight - h])
  ELSE Node(RootsOf(blk), h - SubtreeHeight, off)

(* Offsets under the subtrees there are, below the top tree, and those of  *)
(* the padded top tree.                                                    *)
OffsetsAt(h) ==
  0..((IF h < SubtreeHeight THEN NumSubtrees * Pow2[SubtreeHeight - h]
                            ELSE Pow2[TotalHeight - h]) - 1)

(* A node of a subtree by its subtree and its position in there.           *)
LEMMA NodeInSubtree ==
  ASSUME PowerOfTwoSubtrees, NEW blk, IsBlock(blk),
         NEW si \in Subtrees, NEW k \in 0..(SubtreeHeight - 1),
         NEW r \in 0..(Pow2[SubtreeHeight - k] - 1)
  PROVE  /\ NodeAt(blk, k, si * Pow2[SubtreeHeight - k] + r) = Node(blk[si], k, r)
         /\ si * Pow2[SubtreeHeight - k] + r \in OffsetsAt(k)
<1> DEFINE q == Pow2[SubtreeHeight - k]
<1>1. SubtreeHeight - k \in Nat /\ k < SubtreeHeight /\ NumSubtrees \in Nat /\ si \in Nat
      /\ si \in 0..(NumSubtrees - 1)
  BY Heights DEF Subtrees
<1>2. q \in Nat \ {0}
  BY <1>1, Pow2Type
<1> HIDE DEF q
<1>3. r \in 0..(q - 1)
  BY DEF q
<1>4. si * q + r \in Nat /\ (si * q + r) \div q = si /\ (si * q + r) % q = r
  BY <1>1, <1>2, <1>3, Within
<1>5. Shift(si * q + r, SubtreeHeight - k) = si
  BY <1>4 DEF Shift, q
<1>6. NodeAt(blk, k, si * q + r) = Node(blk[si], k, r)
  <2>1. NodeAt(blk, k, si * q + r) =
          Node(blk[Shift(si * q + r, SubtreeHeight - k)], k, (si * q + r) % q)
    BY <1>1 DEF NodeAt, q
  <2> QED
    BY <1>4, <1>5, <2>1
<1>7. si * q + r < NumSubtrees * q /\ NumSubtrees * q \in Nat
  BY <1>1, <1>2, <1>3, WithinBound
<1>8. si * q + r \in OffsetsAt(k)
  BY <1>1, <1>4, <1>7 DEF OffsetsAt, q
<1> QED
  BY <1>6, <1>8 DEF q

(* An offset below the top tree is one of some subtree.                    *)
LEMMA OffsetInSubtree ==
  ASSUME PowerOfTwoSubtrees, NEW k \in 0..(SubtreeHeight - 1), NEW off \in OffsetsAt(k)
  PROVE  \E si \in Subtrees, r \in 0..(Pow2[SubtreeHeight - k] - 1) :
           off = si * Pow2[SubtreeHeight - k] + r
<1> DEFINE q == Pow2[SubtreeHeight - k]
           a == off \div q
<1>1. SubtreeHeight - k \in Nat /\ k < SubtreeHeight /\ NumSubtrees \in Nat
  BY Heights
<1>2. q \in Nat \ {0}
  BY <1>1, Pow2Type
<1>3. off \in Nat /\ off < NumSubtrees * q
  BY <1>1, <1>2 DEF OffsetsAt
<1> HIDE DEF q
<1>4. a \in Nat /\ q * a <= off /\ off < q * a + q
  BY <1>2, <1>3
<1> HIDE DEF a
<1>5. a < NumSubtrees
  <2> SUFFICES ASSUME a >= NumSubtrees PROVE FALSE
    BY <1>1, <1>4
  <2>1. (a - NumSubtrees) * q >= 0
    BY <1>1, <1>2, <1>4
  <2>2. (a - NumSubtrees) * q = q * a - NumSubtrees * q
    BY <1>1, <1>2, <1>4
  <2>3. q * a \in Nat /\ NumSubtrees * q \in Nat
    BY <1>1, <1>2, <1>4
  <2> QED
    BY <1>2, <1>3, <1>4, <2>1, <2>2, <2>3
<1>6. off = a * q + (off - q * a) /\ off - q * a \in 0..(q - 1)
  <2>1. q * a \in Nat /\ a * q = q * a
    BY <1>2, <1>4
  <2> QED
    BY <1>2, <1>3, <1>4, <2>1
<1>7. a \in Subtrees
  BY <1>1, <1>4, <1>5 DEF Subtrees
<1> QED
  BY <1>6, <1>7 DEF q

(* Every node above the leaves is the pair of its two children.            *)
LEMMA ParentAt ==
  ASSUME PowerOfTwoSubtrees, NEW blk, IsBlock(blk),
         NEW h \in 0..(TotalHeight - 1), NEW off \in Nat,
         2 * off \in OffsetsAt(h)
  PROVE  NodeAt(blk, h + 1, off) = HashPair(NodeAt(blk, h, 2 * off), NodeAt(blk, h, 2 * off + 1))
<1> DEFINE s == SubtreeHeight
           t == TopTreeHeight
<1>1. /\ s \in Nat \ {0} /\ t \in Nat \ {0} /\ TotalHeight = s + t /\ h \in Nat
      /\ HashesPerSubtree \in Nat /\ HashesPerSubtree > 1 /\ HashesPerSubtree = Pow2[s]
      /\ NumSubtrees \in Nat /\ NumSubtrees > 1
  BY Heights
<1>2. CASE h < s
  <2>1. h \in 0..(s - 1) /\ s - (h + 1) \in Nat /\ s - h = (s - (h + 1)) + 1
    BY <1>1, <1>2
  <2> DEFINE q == Pow2[s - (h + 1)]
  <2>2. q \in Nat \ {0} /\ Pow2[s - h] = 2 * q
    BY <2>1, Pow2Step, Pow2Type
  <2>3. PICK si \in Subtrees, r \in 0..(Pow2[s - h] - 1) : 2 * off = si * Pow2[s - h] + r
    BY <2>1, OffsetInSubtree
  <2> DEFINE x == r \div 2
  <2>4. si \in Nat /\ r \in Nat /\ r \in 0..(2 * q - 1)
    BY <1>1, <2>2, <2>3 DEF Subtrees
  <2>5. (2 * off) \div 2 = si * q + x
    <3>1. (si * (2 * q) + r) \div 2 = si * q + (r \div 2)
      BY <2>2, <2>4, HalfWithin
    <3> QED
      BY <2>2, <2>3, <3>1
  <2>6. off = si * q + x
    BY <2>5
  <2>7. r = 2 * x
    <3> DEFINE p == si * q
    <3>1. p \in Nat /\ si * (2 * q) = 2 * p
      BY <2>2, <2>4
    <3>2. 2 * off = 2 * p + r
      BY <2>2, <2>3, <3>1
    <3> HIDE DEF p
    <3> QED
      BY <3>1, <3>2, <2>4
  <2>8. x \in 0..(q - 1)
    BY <2>2, <2>4
  <2> HIDE DEF x, q
  <2>9. /\ IsRow(blk[si]) /\ Len0(blk[si]) = HashesPerSubtree
        /\ Len0(blk[si]) > 1 /\ Log2Ceil(Len0(blk[si])) = s
    BY <1>1, Rows DEF SubtreeHeight
  <2>10. Node(blk[si], h + 1, x) = HashPair(Node(blk[si], h, 2 * x), Node(blk[si], h, 2 * x + 1))
    BY <2>1, <2>8, <2>9, NodeParent DEF q
  <2>11. NodeAt(blk, h, 2 * off) = Node(blk[si], h, 2 * x)
    BY <2>1, <2>3, <2>7, NodeInSubtree
  <2>12. NodeAt(blk, h, 2 * off + 1) = Node(blk[si], h, 2 * x + 1)
    <3>1. 2 * x + 1 \in 0..(Pow2[s - h] - 1)
      BY <2>2, <2>8
    <3>2. NodeAt(blk, h, si * Pow2[s - h] + (2 * x + 1)) = Node(blk[si], h, 2 * x + 1)
      BY <2>1, <3>1, NodeInSubtree
    <3>3. si * Pow2[s - h] + (2 * x + 1) = 2 * off + 1
      <4>1. si * Pow2[s - h] \in Nat /\ x \in Nat
        BY <2>2, <2>4, <2>8
      <4> QED
        BY <2>3, <2>7, <4>1
    <3> QED
      BY <3>2, <3>3
  <2>13. NodeAt(blk, h + 1, off) = Node(blk[si], h + 1, x)
    <3>1. CASE h + 1 < s
      <4>1. h + 1 \in 0..(s - 1)
        BY <1>1, <3>1
      <4>2. NodeAt(blk, h + 1, si * q + x) = Node(blk[si], h + 1, x)
        BY <2>8, <4>1, NodeInSubtree DEF q
      <4> QED
        BY <2>6, <4>2
    <3>2. CASE ~(h + 1 < s)
      <4>1. h + 1 = s /\ s - (h + 1) = 0
        BY <1>1, <1>2, <3>2
      <4>2. q = 1
        BY <4>1, Pow2Step DEF q
      <4>3. x = 0 /\ off = si
        BY <2>4, <2>6, <2>8, <4>2
      <4>4. NodeAt(blk, h + 1, off) = PadLeaf(RootsOf(blk), si)
        BY <4>1, <4>3, <1>1 DEF NodeAt, Node
      <4>5. PadLeaf(RootsOf(blk), si) = RootsOf(blk)[si]
        BY <1>1, Rows DEF PadLeaf, Subtrees
      <4>6. RootsOf(blk)[si] = Node(blk[si], s, 0)
        BY <2>9, Rows, RootNode
      <4> QED
        BY <4>1, <4>3, <4>4, <4>5, <4>6
    <3> QED
      BY <3>1, <3>2
  <2> QED
    BY <2>7, <2>10, <2>11, <2>12, <2>13
<1>3. CASE ~(h < s)
  <2> DEFINE k == h - s
  <2>1. /\ k \in 0..(t - 1) /\ k \in Nat /\ ~(h + 1 < s) /\ (h + 1) - s = k + 1
        /\ t - (k + 1) \in Nat /\ t - k = (t - (k + 1)) + 1 /\ TotalHeight - h = t - k
    BY <1>1, <1>3
  <2>2. Pow2[t - k] = 2 * Pow2[t - (k + 1)] /\ Pow2[t - (k + 1)] \in Nat
    BY <2>1, Pow2Step, Pow2Type
  <2>3. 2 * off <= Pow2[t - k] - 1
    BY <1>3, <2>1 DEF OffsetsAt
  <2>4. off \in 0..(Pow2[t - (k + 1)] - 1)
    BY <2>2, <2>3
  <2>5. /\ IsRow(RootsOf(blk)) /\ Len0(RootsOf(blk)) = NumSubtrees
        /\ Len0(RootsOf(blk)) > 1 /\ Log2Ceil(Len0(RootsOf(blk))) = t
    BY <1>1, Rows DEF TopTreeHeight
  <2> HIDE DEF k
  <2>6. Node(RootsOf(blk), k + 1, off) =
          HashPair(Node(RootsOf(blk), k, 2 * off), Node(RootsOf(blk), k, 2 * off + 1))
    BY <2>1, <2>4, <2>5, NodeParent
  <2> QED
    BY <1>3, <2>1, <2>6 DEF NodeAt, k
<1> QED
  BY <1>2, <1>3

(* The levels below the top have an even number of offsets.                *)
LEMMA EvenLevels ==
  ASSUME PowerOfTwoSubtrees, NEW h \in 0..(TotalHeight - 1)
  PROVE  \E m \in Nat : OffsetsAt(h) = 0..(2 * m - 1)
<1> DEFINE s == SubtreeHeight
<1>1. s \in Nat /\ TotalHeight \in Nat /\ h \in Nat /\ NumSubtrees \in Nat
  BY Heights
<1>2. CASE h < s
  <2>1. s - (h + 1) \in Nat /\ s - h = (s - (h + 1)) + 1
    BY <1>1, <1>2
  <2> DEFINE q == Pow2[s - (h + 1)]
  <2>2. q \in Nat /\ Pow2[s - h] = 2 * q
    BY <2>1, Pow2Step, Pow2Type
  <2> HIDE DEF q
  <2>3. NumSubtrees * (2 * q) = 2 * (NumSubtrees * q) /\ NumSubtrees * q \in Nat
    BY <1>1, <2>2
  <2>4. OffsetsAt(h) = 0..(2 * (NumSubtrees * q) - 1)
    BY <1>2, <2>2, <2>3 DEF OffsetsAt
  <2> QED
    BY <2>3, <2>4
<1>3. CASE ~(h < s)
  <2>1. TotalHeight - (h + 1) \in Nat /\ TotalHeight - h = (TotalHeight - (h + 1)) + 1
    BY <1>1
  <2> DEFINE q == Pow2[TotalHeight - (h + 1)]
  <2>2. q \in Nat /\ Pow2[TotalHeight - h] = 2 * q
    BY <2>1, Pow2Step, Pow2Type
  <2> HIDE DEF q
  <2>3. OffsetsAt(h) = 0..(2 * q - 1)
    BY <1>3, <2>2 DEF OffsetsAt
  <2> QED
    BY <2>2, <2>3
<1> QED
  BY <1>2, <1>3

(* The ancestors of a leaf and their siblings are nodes of the levels.     *)
LEMMA AncestorAt ==
  ASSUME PowerOfTwoSubtrees, NEW g \in Leafs
  PROVE  /\ \A h \in 0..TotalHeight : Shift(g, h) \in OffsetsAt(h)
         /\ \A h \in 0..(TotalHeight - 1) : Sibling(Shift(g, h)) \in OffsetsAt(h)
<1> DEFINE s == SubtreeHeight
           t == TopTreeHeight
<1>1. s \in Nat /\ t \in Nat /\ TotalHeight = s + t
  BY Heights
<1>2. ASSUME NEW h \in 0..TotalHeight PROVE Shift(g, h) \in OffsetsAt(h)
  <2>1. CASE h < s
    <3>1. h \in 0..(s - 1) /\ h \in 0..s
      BY <1>1, <2>1
    <3>2. PICK si \in Subtrees, li \in LocalIdxs : g = GlobalIdx(si, li)
      BY Located
    <3>3. Shift(g, h) = si * Pow2[s - h] + Shift(li, h) /\ Shift(li, h) \in 0..(Pow2[s - h] - 1)
      BY <3>1, <3>2, AncestorWithin
    <3>4. NumSubtrees \in Nat /\ si \in 0..(NumSubtrees - 1) /\ s - h \in Nat
      BY <3>1, Heights DEF Subtrees
    <3> DEFINE q == Pow2[s - h]
               r == Shift(li, h)
    <3>5. q \in Nat \ {0} /\ r \in 0..(q - 1)
      BY <3>3, <3>4, Pow2Type
    <3> HIDE DEF q, r
    <3>6. si * q + r < NumSubtrees * q /\ si * q + r \in Nat /\ NumSubtrees * q \in Nat
      BY <3>4, <3>5, WithinBound
    <3> QED
      BY <2>1, <3>3, <3>6 DEF OffsetsAt, q, r
  <2>2. CASE ~(h < s)
    <3>1. h - s \in 0..t /\ s + (h - s) = h /\ t - (h - s) = TotalHeight - h
      BY <1>1, <2>2
    <3>2. Shift(g, s + (h - s)) \in 0..(Pow2[t - (h - s)] - 1)
      BY <3>1, AncestorAbove
    <3> QED
      BY <2>2, <3>1, <3>2 DEF OffsetsAt
  <2> QED
    BY <2>1, <2>2
<1>3. ASSUME NEW h \in 0..(TotalHeight - 1) PROVE Sibling(Shift(g, h)) \in OffsetsAt(h)
  <2>1. PICK m \in Nat : OffsetsAt(h) = 0..(2 * m - 1)
    BY EvenLevels
  <2>2. h \in 0..TotalHeight
    BY <1>1
  <2>3. Shift(g, h) \in 0..(2 * m - 1)
    BY <1>2, <2>1, <2>2
  <2>4. ASSUME NEW p \in 0..(2 * m - 1) PROVE Sibling(p) \in 0..(2 * m - 1)
    BY DEF Sibling
  <2> QED
    BY <2>1, <2>3, <2>4
<1> QED
  BY <1>2, <1>3

(* Climbing from a leaf: it is the node of level 0 at its offset, each     *)
(* ancestor is the pair of the one below and its sibling, and the last one *)
(* is the block's root.                                                    *)
LEMMA Climb ==
  ASSUME PowerOfTwoSubtrees, NEW blk, IsBlock(blk), NEW g \in Leafs
  PROVE  /\ NodeAt(blk, 0, g) = LeafAt(blk, g) /\ Shift(g, 0) = g
         /\ \A h \in 0..(TotalHeight - 1) :
              NodeAt(blk, h + 1, Shift(g, h + 1)) =
                IF Shift(g, h) % 2 = 0
                THEN HashPair(NodeAt(blk, h, Shift(g, h)), NodeAt(blk, h, Sibling(Shift(g, h))))
                ELSE HashPair(NodeAt(blk, h, Sibling(Shift(g, h))), NodeAt(blk, h, Shift(g, h)))
         /\ NodeAt(blk, TotalHeight, Shift(g, TotalHeight)) = BlockRootOf(blk)
<1> DEFINE s == SubtreeHeight
           t == TopTreeHeight
<1>1. s \in Nat \ {0} /\ t \in Nat \ {0} /\ TotalHeight = s + t /\ g \in Nat
  BY Heights DEF Leafs
<1>2. NodeAt(blk, 0, g) = LeafAt(blk, g) /\ Shift(g, 0) = g
  <2>1. PICK si \in Subtrees, li \in LocalIdxs : g = GlobalIdx(si, li)
    BY Located
  <2>2. 0 \in 0..s /\ 0 \in 0..(s - 1) /\ s - 0 = s
    BY <1>1
  <2>3. /\ Shift(g, 0) = si * Pow2[s - 0] + Shift(li, 0)
        /\ Shift(li, 0) \in 0..(Pow2[s - 0] - 1)
    BY <2>1, <2>2, AncestorWithin
  <2>4. Shift(g, 0) = g /\ Shift(li, 0) = li
    BY <1>1, ShiftStep DEF LocalIdxs
  <2>5. NodeAt(blk, 0, g) = Node(blk[si], 0, li)
    BY <2>2, <2>3, <2>4, NodeInSubtree
  <2>6. Node(blk[si], 0, li) = blk[si][li]
    BY Rows, Heights DEF Node, PadLeaf, LocalIdxs
  <2> QED
    BY <2>1, <2>4, <2>5, <2>6, Rows
<1>3. ASSUME NEW h \in 0..(TotalHeight - 1)
      PROVE  NodeAt(blk, h + 1, Shift(g, h + 1)) =
                IF Shift(g, h) % 2 = 0
                THEN HashPair(NodeAt(blk, h, Shift(g, h)), NodeAt(blk, h, Sibling(Shift(g, h))))
                ELSE HashPair(NodeAt(blk, h, Sibling(Shift(g, h))), NodeAt(blk, h, Shift(g, h)))
  <2> DEFINE p == Shift(g, h)
  <2>1. h \in Nat /\ p \in Nat /\ Shift(g, h + 1) = p \div 2
    <3>1. h \in Nat
      OBVIOUS
    <3> QED
      BY <1>1, <3>1, ShiftStep
  <2>2. p \in OffsetsAt(h) /\ Sibling(p) \in OffsetsAt(h)
    BY <1>1, AncestorAt
  <2> HIDE DEF p
  <2>3. 2 * (p \div 2) \in OffsetsAt(h)
    BY <2>1, <2>2, SiblingFacts
  <2>4. p \div 2 \in Nat
    BY <2>1
  <2>5. NodeAt(blk, h + 1, p \div 2) =
          HashPair(NodeAt(blk, h, 2 * (p \div 2)), NodeAt(blk, h, 2 * (p \div 2) + 1))
    BY <2>3, <2>4, ParentAt
  <2> QED
    BY <2>1, <2>5, SiblingFacts DEF p
<1>4. NodeAt(blk, TotalHeight, Shift(g, TotalHeight)) = BlockRootOf(blk)
  <2>1. t \in 0..t /\ t - t = 0 /\ ~(TotalHeight < s) /\ TotalHeight - s = t
    BY <1>1
  <2>2. Shift(g, s + t) \in 0..(Pow2[t - t] - 1)
    BY <2>1, AncestorAbove
  <2>3. Shift(g, TotalHeight) = 0
    BY <1>1, <2>1, <2>2, Pow2Step
  <2>4. IsRow(RootsOf(blk)) /\ Len0(RootsOf(blk)) > 1 /\ Log2Ceil(Len0(RootsOf(blk))) = t
    BY Rows, Heights DEF TopTreeHeight
  <2> QED
    BY <2>1, <2>3, <2>4, RootNode DEF NodeAt, BlockRootOf
<1> QED
  BY <1>2, <1>3, <1>4

(* No node has the hash that stands for "not found".                       *)
LEMMA NodeNotZero ==
  ASSUME PowerOfTwoSubtrees, NEW blk, IsBlock(blk),
         NEW h \in 0..(TotalHeight - 1), NEW off \in OffsetsAt(h)
  PROVE  NodeAt(blk, h, off) # ZeroHash
<1> DEFINE s == SubtreeHeight
           t == TopTreeHeight
<1>1. s \in Nat \ {0} /\ t \in Nat \ {0} /\ TotalHeight = s + t /\ h \in Nat
  BY Heights
<1>2. \A l, r : HashPair(l, r) # ZeroHash
  BY DEF HashPair, ZeroHash
<1>3. ASSUME NEW leaves, IsRow(leaves), Len0(leaves) > 1,
             \A i \in DOMAIN leaves : leaves[i] # ZeroHash,
             NEW k \in 0..Log2Ceil(Len0(leaves)),
             NEW i \in 0..(Pow2[Log2Ceil(Len0(leaves)) - k] - 1)
      PROVE  Node(leaves, k, i) # ZeroHash
  <2>1. Len0(leaves) \in Nat /\ DOMAIN leaves = 0..(Len0(leaves) - 1)
    BY <1>3, RowLength
  <2>2. i \in Nat /\ k \in Nat /\ Log2Ceil(Len0(leaves)) \in Nat
    BY <1>3, <2>1, PaddedSize
  <2>3. CASE k = 0
    BY <1>3, <2>1, <2>2, <2>3 DEF Node, PadLeaf
  <2>4. CASE k # 0
    <3>1. k - 1 \in 0..(Log2Ceil(Len0(leaves)) - 1) /\ (k - 1) + 1 = k
      BY <2>2, <2>4
    <3> DEFINE j == k - 1
    <3>2. i \in 0..(Pow2[Log2Ceil(Len0(leaves)) - (j + 1)] - 1)
      BY <3>1
    <3> HIDE DEF j
    <3>3. Node(leaves, j + 1, i) = HashPair(Node(leaves, j, 2 * i), Node(leaves, j, 2 * i + 1))
      BY <1>3, <3>1, <3>2, NodeParent DEF j
    <3> QED
      BY <1>2, <3>1, <3>3 DEF j
  <2> QED
    BY <2>3, <2>4
<1>4. ASSUME NEW si \in Subtrees
      PROVE  /\ IsRow(blk[si]) /\ Len0(blk[si]) > 1 /\ Log2Ceil(Len0(blk[si])) = s
             /\ \A i \in DOMAIN blk[si] : blk[si][i] # ZeroHash
  BY Rows, Heights DEF SubtreeHeight, IsBlock
<1>5. CASE h < s
  <2>1. h \in 0..(s - 1) /\ h \in 0..s
    BY <1>1, <1>5
  <2>2. PICK si \in Subtrees, r \in 0..(Pow2[s - h] - 1) : off = si * Pow2[s - h] + r
    BY <2>1, OffsetInSubtree
  <2>3. NodeAt(blk, h, off) = Node(blk[si], h, r)
    BY <2>1, <2>2, NodeInSubtree
  <2> QED
    BY <1>3, <1>4, <2>1, <2>3
<1>6. CASE ~(h < s)
  <2>1. h - s \in 0..t /\ t - (h - s) = TotalHeight - h
    BY <1>1, <1>6
  <2>2. /\ IsRow(RootsOf(blk)) /\ Len0(RootsOf(blk)) > 1
        /\ Log2Ceil(Len0(RootsOf(blk))) = t /\ DOMAIN RootsOf(blk) = Subtrees
    BY Rows, Heights DEF TopTreeHeight
  <2>3. ASSUME NEW si \in Subtrees PROVE RootsOf(blk)[si] # ZeroHash
    <3>1. s \in 0..s /\ s - s = 0 /\ 0 \in 0..(Pow2[0] - 1)
      BY <1>1, Pow2Step
    <3>2. RootsOf(blk)[si] = Node(blk[si], s, 0)
      BY <1>4, Rows, RootNode
    <3>3. 0 \in 0..(Pow2[s - s] - 1)
      BY <3>1
    <3> QED
      BY <1>3, <1>4, <3>1, <3>2, <3>3
  <2>4. off \in 0..(Pow2[t - (h - s)] - 1)
    BY <1>6, <2>1 DEF OffsetsAt
  <2>5. Node(RootsOf(blk), h - s, off) # ZeroHash
    BY <1>3, <2>1, <2>2, <2>3, <2>4
  <2> QED
    BY <1>6, <2>5 DEF NodeAt
<1> QED
  BY <1>5, <1>6

-----------------------------------------------------------------------------
(* The entries put on the levels.                                          *)

(* bitsetCheck keeps an index of every key.                                *)
LEMMA FirstCovers ==
  ASSUME NEW idxs \in SUBSET Nat, NEW key, NEW i \in idxs
  PROVE  \E j \in FirstOf(idxs, key) : key[j] = key[i]
<1> DEFINE S == {j \in idxs : key[j] = key[i]}
<1>1. S \in SUBSET Nat /\ S # {}
  OBVIOUS
<1> HIDE DEF S
<1>2. PICK j \in S : \A m \in S : j <= m
  BY <1>1, LeastNat
<1>3. j \in FirstOf(idxs, key) /\ key[j] = key[i]
  BY <1>2 DEF S, FirstOf
<1> QED
  BY <1>3

(* The entries of level h for the txids at the offsets P: at level 0 the   *)
(* txids and one sibling for each pair, above it the siblings of their     *)
(* ancestors.                                                              *)
Level(blk, P, h) ==
  IF h = 0
  THEN {Entry(g, LeafAt(blk, g), TRUE) : g \in P}
       \cup {Entry(Sibling(g), NodeAt(blk, 0, Sibling(g)), FALSE)
               : g \in FirstOf(P, [g \in P |-> Shift(g, 1)])}
  ELSE {Entry(Sibling(Shift(g, h)), NodeAt(blk, h, Sibling(Shift(g, h))), FALSE) : g \in P}

(* The sibling of an ancestor inside the subtree.                          *)
LEMMA SiblingWithin ==
  ASSUME PowerOfTwoSubtrees, NEW blk, IsBlock(blk),
         NEW si \in Subtrees, NEW li \in LocalIdxs,
         NEW k \in 0..(SubtreeHeight - 1)
  PROVE  /\ Sibling(Shift(li, k)) \in 0..(Pow2[SubtreeHeight - k] - 1)
         /\ Sibling(Shift(GlobalIdx(si, li), k)) =
              si * Pow2[SubtreeHeight - k] + Sibling(Shift(li, k))
         /\ NodeAt(blk, k, Sibling(Shift(GlobalIdx(si, li), k))) =
              Node(blk[si], k, Sibling(Shift(li, k)))
<1> DEFINE s == SubtreeHeight
           q == Pow2[s - (k + 1)]
           x == Shift(li, k)
<1>1. k \in 0..s /\ s - (k + 1) \in Nat /\ s - k = (s - (k + 1)) + 1 /\ si \in Nat
  BY Heights DEF Subtrees
<1>2. q \in Nat \ {0} /\ Pow2[s - k] = 2 * q
  BY <1>1, Pow2Step, Pow2Type
<1>3. Shift(GlobalIdx(si, li), k) = si * (2 * q) + x /\ x \in 0..(2 * q - 1)
  BY <1>1, <1>2, AncestorWithin
<1> HIDE DEF q, x
<1> DEFINE p == si * q
<1>4. p \in Nat /\ si * (2 * q) = 2 * p
  BY <1>1, <1>2
<1> HIDE DEF p
<1>5. Sibling(x) \in 0..(2 * q - 1)
  BY <1>2, <1>3 DEF Sibling
<1>6. Sibling(2 * p + x) = 2 * p + Sibling(x)
  BY <1>3, <1>4 DEF Sibling
<1>7. Sibling(x) \in 0..(Pow2[s - k] - 1)
  BY <1>2, <1>5
<1>8. Sibling(Shift(GlobalIdx(si, li), k)) = si * Pow2[s - k] + Sibling(x)
  BY <1>2, <1>3, <1>4, <1>6
<1>9. NodeAt(blk, k, si * Pow2[s - k] + Sibling(x)) = Node(blk[si], k, Sibling(x))
  BY <1>7, NodeInSubtree
<1> QED
  BY <1>7, <1>8, <1>9 DEF x

(* Two leaves of one pair are in one subtree, a pair there and in the same *)
(* order.                                                                  *)
LEMMA PairWithin ==
  ASSUME PowerOfTwoSubtrees, NEW si \in Subtrees, NEW sj \in Subtrees,
         NEW li \in LocalIdxs, NEW lj \in LocalIdxs
  PROVE  /\ Shift(GlobalIdx(si, li), 1) = Shift(GlobalIdx(sj, lj), 1)
              <=> si = sj /\ Shift(li, 1) = Shift(lj, 1)
         /\ GlobalIdx(si, li) <= GlobalIdx(si, lj) <=> li <= lj
<1> DEFINE s == SubtreeHeight
           q == Pow2[s - 1]
<1>1. 1 \in 0..s /\ s - 1 \in Nat /\ si \in Nat /\ sj \in Nat
  BY Heights DEF Subtrees
<1>2. q \in Nat \ {0}
  BY <1>1, Pow2Type
<1>3. /\ Shift(GlobalIdx(si, li), 1) = si * q + Shift(li, 1)
      /\ Shift(li, 1) \in 0..(q - 1)
      /\ Shift(GlobalIdx(sj, lj), 1) = sj * q + Shift(lj, 1)
      /\ Shift(lj, 1) \in 0..(q - 1)
  BY <1>1, AncestorWithin
<1> HIDE DEF q
<1>4. /\ (si * q + Shift(li, 1)) \div q = si /\ (si * q + Shift(li, 1)) % q = Shift(li, 1)
      /\ (sj * q + Shift(lj, 1)) \div q = sj /\ (sj * q + Shift(lj, 1)) % q = Shift(lj, 1)
  BY <1>1, <1>2, <1>3, Within
<1>5. Shift(GlobalIdx(si, li), 1) = Shift(GlobalIdx(sj, lj), 1)
        <=> si = sj /\ Shift(li, 1) = Shift(lj, 1)
  BY <1>3, <1>4
<1>6. GlobalIdx(si, li) <= GlobalIdx(si, lj) <=> li <= lj
  <2>1. si * HashesPerSubtree \in Nat /\ li \in Nat /\ lj \in Nat
    BY <1>1, ShapeAssumption DEF LocalIdxs
  <2> QED
    BY <2>1 DEF GlobalIdx
<1> QED
  BY <1>5, <1>6

(* What is read for the sibling of an ancestor inside the subtree.         *)
LEMMA SiblingRead ==
  ASSUME PowerOfTwoSubtrees, NEW blk, IsBlock(blk),
         NEW si \in Subtrees, NEW li \in LocalIdxs,
         NEW size, size = Len0(blk[si])
  PROVE  /\ blk[si][IF Sibling(li) >= size THEN li ELSE Sibling(li)] =
              NodeAt(blk, 0, Sibling(GlobalIdx(si, li)))
         /\ \A k \in 1..(SubtreeHeight - 1) :
              /\ SibPos(NextPowerOfTwo(size), li, k) = Sibling(Shift(li, k))
              /\ StoresOf(blk)[si][LevelOffset(NextPowerOfTwo(size), k) + Sibling(Shift(li, k))] =
                   NodeAt(blk, k, Sibling(Shift(GlobalIdx(si, li), k)))
<1> DEFINE s == SubtreeHeight
           G == GlobalIdx(si, li)
<1>1. /\ s \in Nat \ {0} /\ HashesPerSubtree \in Nat /\ HashesPerSubtree > 1
      /\ HashesPerSubtree = Pow2[s] /\ size = HashesPerSubtree
      /\ StoresOf(blk)[si] = BuildMerkleStore(blk[si])
      /\ Log2Ceil(HashesPerSubtree) = s
  BY Heights, Rows DEF SubtreeHeight
<1>2. blk[si][IF Sibling(li) >= size THEN li ELSE Sibling(li)] = NodeAt(blk, 0, Sibling(G))
  <2>1. 0 \in 0..(s - 1) /\ s - 0 = s /\ li \in Nat
    BY <1>1 DEF LocalIdxs
  <2>2. Shift(li, 0) = li /\ Shift(G, 0) = G
    BY <2>1, Global, ShiftStep DEF Leafs
  <2>3. /\ Sibling(Shift(li, 0)) \in 0..(Pow2[s - 0] - 1)
        /\ NodeAt(blk, 0, Sibling(Shift(G, 0))) = Node(blk[si], 0, Sibling(Shift(li, 0)))
    BY <2>1, SiblingWithin
  <2>4. Sibling(li) \in 0..(HashesPerSubtree - 1)
    BY <1>1, <2>1, <2>2, <2>3
  <2>5. Node(blk[si], 0, Sibling(li)) = blk[si][Sibling(li)]
    BY <1>1, <2>4 DEF Node, PadLeaf
  <2> QED
    BY <1>1, <2>2, <2>3, <2>4, <2>5
<1>3. ASSUME NEW k \in 1..(s - 1)
      PROVE  /\ SibPos(NextPowerOfTwo(size), li, k) = Sibling(Shift(li, k))
             /\ StoresOf(blk)[si][LevelOffset(NextPowerOfTwo(size), k) + Sibling(Shift(li, k))] =
                  NodeAt(blk, k, Sibling(Shift(G, k)))
  <2>1. k \in 0..Log2Ceil(HashesPerSubtree) /\ k # 0 /\ k \in 0..(s - 1)
    BY <1>1
  <2>2. LevelSize(NextPowerOfTwo(size), k) = Pow2[s - k] /\ Pow2[s - k] \in Nat
    BY <1>1, <2>1, LevelFacts
  <2>3. /\ Sibling(Shift(li, k)) \in 0..(Pow2[s - k] - 1)
        /\ NodeAt(blk, k, Sibling(Shift(G, k))) = Node(blk[si], k, Sibling(Shift(li, k)))
    BY <2>1, SiblingWithin
  <2>4. SibPos(NextPowerOfTwo(size), li, k) = Sibling(Shift(li, k))
    BY <2>2, <2>3 DEF SibPos
  <2>5. StoresOf(blk)[si][LevelOffset(NextPowerOfTwo(size), k) + Sibling(Shift(li, k))] =
          Node(blk[si], k, Sibling(Shift(li, k)))
    BY <1>1, <2>1 DEF Node
  <2> QED
    BY <2>3, <2>4, <2>5
<1> QED
  BY <1>2, <1>3

(* A fragment holds, on each level of its subtree, the entries of the      *)
(* txids it was extracted for.                                             *)
LEMMA FragmentIsLevel ==
  ASSUME PowerOfTwoSubtrees, NEW blk, IsBlock(blk),
         NEW si \in Subtrees, NEW idxs \in SUBSET LocalIdxs,
         NEW k \in 0..(SubtreeHeight - 1)
  PROVE  ExtractSubtreeFragment(blk[si], StoresOf(blk)[si], idxs, si)[k] =
           Level(blk, {GlobalIdx(si, li) : li \in idxs}, k)
<1> DEFINE s == SubtreeHeight
           P == {GlobalIdx(si, li) : li \in idxs}
           G(li) == GlobalIdx(si, li)
<1>1. /\ s \in Nat \ {0} /\ k \in Nat /\ HashesPerSubtree \in Nat /\ HashesPerSubtree > 1
      /\ HashesPerSubtree = Pow2[s] /\ Len0(blk[si]) = HashesPerSubtree
      /\ StoresOf(blk)[si] = BuildMerkleStore(blk[si])
      /\ Log2Ceil(HashesPerSubtree) = s /\ NextPowerOfTwo(HashesPerSubtree) = Pow2[s]
  BY Heights, Rows, PaddedSize DEF SubtreeHeight
<1>2. idxs \in SUBSET Nat
  BY DEF LocalIdxs
<1>3. CASE k = 0
  <2> DEFINE pair == [li \in idxs |-> Shift(li, 1)]
             above == [g \in P |-> Shift(g, 1)]
             sibLeaf(li) == IF Sibling(li) >= HashesPerSubtree THEN li ELSE Sibling(li)
  <2>1. ExtractSubtreeFragment(blk[si], StoresOf(blk)[si], idxs, si)[0] =
          {Entry(G(li), blk[si][li], TRUE) : li \in idxs}
          \cup {Entry(Sibling(G(li)), blk[si][sibLeaf(li)], FALSE) : li \in FirstOf(idxs, pair)}
    <3>1. 0 \in 0..(SubtreeHeight - 1)
      BY <1>1
    <3>2. ExtractSubtreeFragment(blk[si], StoresOf(blk)[si], idxs, si)[0] =
            {Entry(G(li), blk[si][li], TRUE) : li \in idxs}
            \cup {Entry(Sibling(G(li)),
                        blk[si][IF Sibling(li) >= Len0(blk[si]) THEN li ELSE Sibling(li)],
                        FALSE) : li \in FirstOf(idxs, pair)}
      BY ONLY <3>1 DEF ExtractSubtreeFragment
    <3> QED
      BY <1>1, <3>2
  <2>2. ASSUME NEW li \in idxs PROVE blk[si][li] = LeafAt(blk, G(li))
    BY Rows
  <2>3. ASSUME NEW li \in idxs
        PROVE  blk[si][sibLeaf(li)] = NodeAt(blk, 0, Sibling(G(li)))
    BY <1>1, SiblingRead
  <2>4. FirstOf(P, above) = {G(li) : li \in FirstOf(idxs, pair)}
    <3>1. ASSUME NEW li \in idxs, NEW lj \in idxs
          PROVE  /\ above[G(li)] = above[G(lj)] <=> pair[li] = pair[lj]
                 /\ G(li) <= G(lj) <=> li <= lj
      <4>1. above[G(li)] = Shift(G(li), 1) /\ above[G(lj)] = Shift(G(lj), 1)
        OBVIOUS
      <4>2. Shift(G(li), 1) = Shift(G(lj), 1) <=> Shift(li, 1) = Shift(lj, 1)
        BY PairWithin
      <4>3. G(li) <= G(lj) <=> li <= lj
        BY PairWithin
      <4> QED
        BY <4>1, <4>2, <4>3
    <3> HIDE DEF above, pair, G
    <3>2. P = {G(li) : li \in idxs}
      BY DEF G
    <3> HIDE DEF P
    <3> QED
      BY <3>1, <3>2 DEF FirstOf
  <2> HIDE DEF above, pair, sibLeaf
  <2>5. Level(blk, P, 0) =
          {Entry(g, LeafAt(blk, g), TRUE) : g \in P}
          \cup {Entry(Sibling(g), NodeAt(blk, 0, Sibling(g)), FALSE) : g \in FirstOf(P, above)}
    BY DEF Level, above
  <2>6. {Entry(g, LeafAt(blk, g), TRUE) : g \in P} = {Entry(G(li), blk[si][li], TRUE) : li \in idxs}
    BY <2>2
  <2>7. {Entry(Sibling(g), NodeAt(blk, 0, Sibling(g)), FALSE) : g \in FirstOf(P, above)} =
          {Entry(Sibling(G(li)), blk[si][sibLeaf(li)], FALSE) : li \in FirstOf(idxs, pair)}
    <3>1. FirstOf(idxs, pair) \subseteq idxs
      BY DEF FirstOf
    <3> HIDE DEF G
    <3> QED
      BY <2>3, <2>4, <3>1
  <2> QED
    BY <1>3, <2>1, <2>5, <2>6, <2>7
<1>4. CASE k # 0
  <2> DEFINE pad == NextPowerOfTwo(HashesPerSubtree)
             pos == [li \in idxs |-> SibPos(pad, li, k)]
             Ent(li) == Entry(Sibling(Shift(G(li), k)),
                              NodeAt(blk, k, Sibling(Shift(G(li), k))), FALSE)
  <2>1. ExtractSubtreeFragment(blk[si], StoresOf(blk)[si], idxs, si)[k] =
          {Entry(Sibling(Shift(G(li), k)), StoresOf(blk)[si][LevelOffset(pad, k) + pos[li]], FALSE)
             : li \in FirstOf(idxs, pos)}
    BY <1>1, <1>4 DEF ExtractSubtreeFragment
  <2>2. ASSUME NEW li \in idxs
        PROVE  /\ pos[li] = Sibling(Shift(li, k))
               /\ StoresOf(blk)[si][LevelOffset(pad, k) + pos[li]] =
                    NodeAt(blk, k, Sibling(Shift(G(li), k)))
               /\ Sibling(Shift(G(li), k)) = si * Pow2[s - k] + pos[li]
    <3>1. k \in 1..(s - 1)
      BY <1>1, <1>4
    <3>2. /\ SibPos(pad, li, k) = Sibling(Shift(li, k))
          /\ StoresOf(blk)[si][LevelOffset(pad, k) + Sibling(Shift(li, k))] =
               NodeAt(blk, k, Sibling(Shift(G(li), k)))
      BY <1>1, <3>1, SiblingRead
    <3> QED
      BY <3>2, SiblingWithin
  <2> HIDE DEF pos, pad
  <2>3. FirstOf(idxs, pos) \subseteq idxs
    BY DEF FirstOf
  <2>4. \A li \in idxs : \E lj \in FirstOf(idxs, pos) : pos[lj] = pos[li]
    BY <1>2, FirstCovers
  <2>5. \A li, lj \in idxs : pos[lj] = pos[li] => Ent(lj) = Ent(li)
    BY <2>2
  <2>6. ExtractSubtreeFragment(blk[si], StoresOf(blk)[si], idxs, si)[k] =
          {Ent(li) : li \in FirstOf(idxs, pos)}
    BY <2>1, <2>2, <2>3
  <2>7. Level(blk, P, k) = {Ent(li) : li \in idxs}
    BY <1>4 DEF Level
  <2> HIDE DEF Ent
  <2>8. {Ent(li) : li \in FirstOf(idxs, pos)} = {Ent(li) : li \in idxs}
    BY <2>3, <2>4, <2>5
  <2> QED
    BY <2>6, <2>7, <2>8
<1> QED
  BY <1>3, <1>4

(* What the proof of a subtree in the top tree holds.                      *)
LEMMA TopRead ==
  ASSUME PowerOfTwoSubtrees, NEW blk, IsBlock(blk),
         NEW g \in Leafs, NEW k \in 0..(TopTreeHeight - 1)
  PROVE  TopProofsOf(blk)[SubtreeOf(g)][k] =
           NodeAt(blk, SubtreeHeight + k, Sibling(Shift(g, SubtreeHeight + k)))
<1> DEFINE s == SubtreeHeight
           t == TopTreeHeight
           si == SubtreeOf(g)
           row == RootsOf(blk)
<1>1. s \in Nat /\ t \in Nat /\ k \in 0..t /\ ~(s + k < s) /\ (s + k) - s = k
  BY Heights
<1>2. /\ IsRow(row) /\ Len0(row) > 1 /\ Log2Ceil(Len0(row)) = t
      /\ DOMAIN row = Subtrees /\ si \in Subtrees
  BY Rows, Heights, Located DEF TopTreeHeight
<1>3. TopProofsOf(blk)[si] = ProofFromStore(row, BuildMerkleStore(row), si, Log2Ceil(Len0(row)))
  BY <1>2 DEF TopProofsOf, GetAllProofs
<1> HIDE DEF si
<1>4. TopProofsOf(blk)[si] =
        [j \in 0..(Log2Ceil(Len0(row)) - 1) |-> Node(row, j, Sibling(Shift(si, j)))]
  BY <1>2, <1>3, ProofIsSiblings
<1>5. TopProofsOf(blk)[si][k] = Node(row, k, Sibling(Shift(si, k)))
  BY <1>2, <1>4
<1>6. Shift(g, s + k) = Shift(si, k)
  BY <1>1, AncestorAbove DEF si
<1> QED
  BY <1>1, <1>5, <1>6 DEF NodeAt, si

(* The levels of the top tree, in whatever order the txids are met.        *)
LEMMA TopIsLevel ==
  ASSUME PowerOfTwoSubtrees, NEW blk, IsBlock(blk),
         NEW P \in SUBSET Leafs, NEW rank \in [P -> Nat],
         NEW k \in 0..(TopTreeHeight - 1)
  PROVE  TopLevel(k, P, rank, TopProofsOf(blk)) = Level(blk, P, SubtreeHeight + k)
<1> DEFINE h == SubtreeHeight + k
           off == [g \in P |-> Sibling(Shift(g, h))]
           First == {g \in P : \A o \in P : off[o] = off[g] => rank[g] <= rank[o]}
           Ent(g) == Entry(off[g], NodeAt(blk, h, off[g]), FALSE)
<1>1. h # 0
  BY Heights
<1>2. \A g \in P : off[g] = Sibling(Shift(g, h))
  OBVIOUS
<1>3. TopLevel(k, P, rank, TopProofsOf(blk)) =
        {Entry(off[g], TopProofsOf(blk)[SubtreeOf(g)][k], FALSE) : g \in First}
  BY DEF TopLevel
<1>4. \A g \in P : TopProofsOf(blk)[SubtreeOf(g)][k] = NodeAt(blk, h, off[g])
  BY TopRead
<1>5. TopLevel(k, P, rank, TopProofsOf(blk)) = {Ent(g) : g \in First}
  BY <1>3, <1>4
<1>6. Level(blk, P, h) = {Ent(g) : g \in P}
  BY <1>1 DEF Level
<1> HIDE DEF off
<1>7. ASSUME NEW g \in P PROVE \E o \in First : off[o] = off[g]
  <2> DEFINE S == {rank[o] : o \in {x \in P : off[x] = off[g]}}
  <2>1. S \in SUBSET Nat /\ S # {}
    OBVIOUS
  <2>2. PICK m \in S : \A x \in S : m <= x
    <3> HIDE DEF S
    <3> QED
      BY <2>1, LeastNat
  <2>3. PICK o \in P : off[o] = off[g] /\ rank[o] = m
    BY <2>2
  <2>4. \A x \in P : off[x] = off[o] => rank[o] <= rank[x]
    BY <2>2, <2>3
  <2> QED
    BY <2>3, <2>4
<1>8. {Ent(g) : g \in First} = {Ent(g) : g \in P}
  <2>1. First \subseteq P
    OBVIOUS
  <2>2. \A g, o : off[o] = off[g] => Ent(o) = Ent(g)
    OBVIOUS
  <2> HIDE DEF First, Ent
  <2> QED
    BY <1>7, <2>1, <2>2
<1> QED
  BY <1>5, <1>6, <1>8

(* The entries of a level below the top tree, subtree by subtree.          *)
LEMMA LevelBySubtree ==
  ASSUME PowerOfTwoSubtrees, NEW blk, IsBlock(blk),
         NEW P \in SUBSET Leafs, NEW k \in 0..(SubtreeHeight - 1)
  PROVE  Level(blk, P, k) =
           UNION {Level(blk, {g \in P : SubtreeOf(g) = si}, k) : si \in {SubtreeOf(g) : g \in P}}
<1> DEFINE Q(si) == {g \in P : SubtreeOf(g) = si}
           S == {SubtreeOf(g) : g \in P}
<1>1. CASE k = 0
  <2> DEFINE above == [g \in P |-> Shift(g, 1)]
             aboveIn(si) == [g \in Q(si) |-> Shift(g, 1)]
             Tx(g) == Entry(g, LeafAt(blk, g), TRUE)
             Sib(g) == Entry(Sibling(g), NodeAt(blk, 0, Sibling(g)), FALSE)
  <2>1. ASSUME NEW g \in P, NEW o \in P, Shift(g, 1) = Shift(o, 1)
        PROVE  SubtreeOf(g) = SubtreeOf(o)
    <3>1. /\ SubtreeOf(g) \in Subtrees /\ LocalOf(g) \in LocalIdxs
          /\ g = GlobalIdx(SubtreeOf(g), LocalOf(g))
          /\ SubtreeOf(o) \in Subtrees /\ LocalOf(o) \in LocalIdxs
          /\ o = GlobalIdx(SubtreeOf(o), LocalOf(o))
      BY Located
    <3> QED
      BY <2>1, <3>1, PairWithin
  <2>2. ASSUME NEW g \in P
        PROVE  g \in FirstOf(P, above) <=> g \in FirstOf(Q(SubtreeOf(g)), aboveIn(SubtreeOf(g)))
    <3>1. \A o \in P : above[o] = above[g] <=>
            o \in Q(SubtreeOf(g)) /\ aboveIn(SubtreeOf(g))[o] = aboveIn(SubtreeOf(g))[g]
      BY <2>1
    <3>2. g \in Q(SubtreeOf(g)) /\ Q(SubtreeOf(g)) \subseteq P
      OBVIOUS
    <3> HIDE DEF above, aboveIn, Q
    <3> QED
      BY <3>1, <3>2 DEF FirstOf
  <2>3. \A si : FirstOf(Q(si), aboveIn(si)) \subseteq Q(si)
    BY DEF FirstOf
  <2>4. FirstOf(P, above) \subseteq P
    BY DEF FirstOf
  <2>5. FirstOf(P, above) = UNION {FirstOf(Q(si), aboveIn(si)) : si \in S}
    <3>1. ASSUME NEW g \in FirstOf(P, above)
          PROVE  \E si \in S : g \in FirstOf(Q(si), aboveIn(si))
      <4>1. g \in P /\ SubtreeOf(g) \in S
        BY <2>4
      <4> HIDE DEF above, aboveIn, Q, S
      <4> QED
        BY <2>2, <3>1, <4>1
    <3>2. ASSUME NEW si \in S, NEW g \in FirstOf(Q(si), aboveIn(si))
          PROVE  g \in FirstOf(P, above)
      <4>1. g \in P /\ SubtreeOf(g) = si
        BY <2>3
      <4> HIDE DEF above, aboveIn, Q, S
      <4> QED
        BY <2>2, <3>2, <4>1
    <3> HIDE DEF above, aboveIn, Q, S
    <3> QED
      BY <3>1, <3>2
  <2>6. P = UNION {Q(si) : si \in S}
    OBVIOUS
  <2>7. Level(blk, P, 0) = {Tx(g) : g \in P} \cup {Sib(g) : g \in FirstOf(P, above)}
    BY DEF Level
  <2>8. \A si : Level(blk, Q(si), 0) =
                 {Tx(g) : g \in Q(si)} \cup {Sib(g) : g \in FirstOf(Q(si), aboveIn(si))}
    BY DEF Level
  <2> HIDE DEF above, aboveIn, Q, S, Tx, Sib
  <2>9. Level(blk, P, 0) = UNION {Level(blk, Q(si), 0) : si \in S}
    BY <2>5, <2>6, <2>7, <2>8
  <2> QED
    BY <1>1, <2>9 DEF Q, S
<1>2. CASE k # 0
  <2> DEFINE Ent(g) == Entry(Sibling(Shift(g, k)), NodeAt(blk, k, Sibling(Shift(g, k))), FALSE)
  <2>1. /\ Level(blk, P, k) = {Ent(g) : g \in P}
        /\ \A si : Level(blk, Q(si), k) = {Ent(g) : g \in Q(si)}
    BY <1>2 DEF Level
  <2> HIDE DEF Ent
  <2>2. {Ent(g) : g \in P} = UNION {{Ent(g) : g \in Q(si)} : si \in S}
    OBVIOUS
  <2> HIDE DEF Q, S
  <2>3. Level(blk, P, k) = UNION {Level(blk, Q(si), k) : si \in S}
    BY <2>1, <2>2
  <2> QED
    BY <2>3 DEF Q, S
<1> QED
  BY <1>1, <1>2

-----------------------------------------------------------------------------
(* The ways to assemble a BUMP.                                            *)

(* What every way but buildCompoundBUMP assembles for the txids at P.      *)
BumpOf(blk, P) == Prune([h \in 0..(TotalHeight - 1) |-> Level(blk, P, h)])

(* The token's txids in a subtree, by local and by global index.           *)
LEMMA OwnInSubtree ==
  ASSUME NEW P \in SUBSET Leafs, NEW si \in Subtrees
  PROVE  /\ LocalsOf(P, si) \in SUBSET LocalIdxs
         /\ {GlobalIdx(si, li) : li \in LocalsOf(P, si)} = {g \in P : SubtreeOf(g) = si}
<1>1. LocalsOf(P, si) = {LocalOf(g) : g \in {o \in P : SubtreeOf(o) = si}}
  BY DEF LocalsOf
<1>2. \A g \in P : LocalOf(g) \in LocalIdxs /\ g = GlobalIdx(SubtreeOf(g), LocalOf(g))
  BY Located
<1> QED
  BY <1>1, <1>2

(* The levels below the top tree, from the fragments.                      *)
LEMMA LowLevels ==
  ASSUME PowerOfTwoSubtrees, NEW blk, IsBlock(blk),
         NEW P \in SUBSET Leafs, NEW k \in 0..(SubtreeHeight - 1),
         NEW part, DOMAIN part = SpannedBy(P),
         \A si \in SpannedBy(P) :
           part[si] = ExtractSubtreeFragment(blk[si], StoresOf(blk)[si], LocalsOf(P, si), si)
  PROVE  UNION {part[si][k] : si \in DOMAIN part} = Level(blk, P, k)
<1>1. ASSUME NEW si \in SpannedBy(P)
      PROVE  part[si][k] = Level(blk, {g \in P : SubtreeOf(g) = si}, k)
  <2>1. si \in Subtrees
    BY Located DEF SpannedBy
  <2>2. /\ LocalsOf(P, si) \in SUBSET LocalIdxs
        /\ {GlobalIdx(si, li) : li \in LocalsOf(P, si)} = {g \in P : SubtreeOf(g) = si}
    BY <2>1, OwnInSubtree
  <2>3. ExtractSubtreeFragment(blk[si], StoresOf(blk)[si], LocalsOf(P, si), si)[k] =
          Level(blk, {GlobalIdx(si, li) : li \in LocalsOf(P, si)}, k)
    BY <2>1, <2>2, FragmentIsLevel
  <2> QED
    BY <2>2, <2>3
<1>2. UNION {part[si][k] : si \in SpannedBy(P)} =
        UNION {Level(blk, {g \in P : SubtreeOf(g) = si}, k) : si \in SpannedBy(P)}
  <2> DEFINE In(si) == Level(blk, {g \in P : SubtreeOf(g) = si}, k)
  <2>1. \A si \in SpannedBy(P) : part[si][k] = In(si)
    BY <1>1
  <2> HIDE DEF In
  <2>2. {part[si][k] : si \in SpannedBy(P)} = {In(si) : si \in SpannedBy(P)}
    BY <2>1
  <2> QED
    BY <2>2 DEF In
<1>3. Level(blk, P, k) = UNION {Level(blk, {g \in P : SubtreeOf(g) = si}, k) : si \in SpannedBy(P)}
  BY LevelBySubtree DEF SpannedBy
<1> QED
  BY <1>2, <1>3

(* The levels of the top tree by their height in the block.                *)
LEMMA TopLevels ==
  ASSUME PowerOfTwoSubtrees, NEW blk, IsBlock(blk),
         NEW P \in SUBSET Leafs, NEW rank \in [P -> Nat],
         NEW h \in 0..(TotalHeight - 1), ~(h < SubtreeHeight)
  PROVE  TopLevel(h - SubtreeHeight, P, rank, TopProofsOf(blk)) = Level(blk, P, h)
<1> DEFINE k == h - SubtreeHeight
<1>1. k \in 0..(TopTreeHeight - 1) /\ SubtreeHeight + k = h
  BY Heights
<1> HIDE DEF k
<1>2. TopLevel(k, P, rank, TopProofsOf(blk)) = Level(blk, P, SubtreeHeight + k)
  BY <1>1, TopIsLevel
<1> QED
  BY <1>1, <1>2 DEF k

(* The flagged entries of level 0 are those of the txids.                  *)
LEMMA FlaggedOfLevel ==
  ASSUME NEW blk, NEW P
  PROVE  /\ {e \in Level(blk, P, 0) : e.txid} = {Entry(g, LeafAt(blk, g), TRUE) : g \in P}
         /\ {e.offset : e \in {x \in Level(blk, P, 0) : x.txid}} = P
<1> DEFINE Tx(g) == Entry(g, LeafAt(blk, g), TRUE)
           Sib(g) == Entry(Sibling(g), NodeAt(blk, 0, Sibling(g)), FALSE)
           F == FirstOf(P, [g \in P |-> Shift(g, 1)])
<1>1. Level(blk, P, 0) = {Tx(g) : g \in P} \cup {Sib(g) : g \in F}
  BY DEF Level
<1>2. \A g : Tx(g).txid = TRUE /\ Tx(g).offset = g /\ Sib(g).txid = FALSE
  BY DEF Entry
<1> HIDE DEF Tx, Sib, F
<1>3. ASSUME NEW e PROVE e \in Level(blk, P, 0) /\ e.txid <=> \E g \in P : e = Tx(g)
  BY <1>1, <1>2
<1>4. {e \in Level(blk, P, 0) : e.txid} = {Tx(g) : g \in P}
  BY <1>3
<1>5. {e.offset : e \in {Tx(g) : g \in P}} = P
  BY <1>2
<1> QED
  BY <1>4, <1>5 DEF Tx

(* assembleTokenBUMPFromFragments, from the fragments of all the subtrees  *)
(* spanned, in any order: the flagged entries of level 0 are the token's   *)
(* txids again.                                                            *)
LEMMA FragmentsIsBump ==
  ASSUME PowerOfTwoSubtrees, NEW blk, IsBlock(blk),
         NEW P \in SUBSET Leafs, NEW parts,
         DOMAIN parts = SpannedBy(P),
         \A si \in SpannedBy(P) :
           parts[si] = ExtractSubtreeFragment(blk[si], StoresOf(blk)[si], LocalsOf(P, si), si),
         NEW position, \A si \in SpannedBy(P) : position[si] \in Nat
  PROVE  AssembleTokenBUMPFromFragments(parts, position, TopProofsOf(blk)) = BumpOf(blk, P)
<1> DEFINE low == [k \in 0..(SubtreeHeight - 1) |-> UNION {parts[si][k] : si \in DOMAIN parts}]
           globals == {e.offset : e \in {x \in low[0] : x.txid}}
           rank == [g \in globals |-> position[SubtreeOf(g)] * NumSubtrees * HashesPerSubtree + g]
           levels == [h \in 0..(TotalHeight - 1) |->
                        IF h < SubtreeHeight THEN low[h]
                        ELSE TopLevel(h - SubtreeHeight, globals, rank, TopProofsOf(blk))]
<1>1. AssembleTokenBUMPFromFragments(parts, position, TopProofsOf(blk)) = Prune(levels)
  BY DEF AssembleTokenBUMPFromFragments
<1>2. ASSUME NEW k \in 0..(SubtreeHeight - 1) PROVE low[k] = Level(blk, P, k)
  BY LowLevels
<1>3. 0 \in 0..(SubtreeHeight - 1)
  BY Heights
<1> HIDE DEF low
<1>4. globals = P
  <2>1. low[0] = Level(blk, P, 0)
    BY <1>2, <1>3
  <2>2. {e.offset : e \in {x \in Level(blk, P, 0) : x.txid}} = P
    BY ONLY FlaggedOfLevel
  <2> QED
    BY <2>1, <2>2
<1>5. rank \in [P -> Nat]
  <2>1. ASSUME NEW g \in P
        PROVE  position[SubtreeOf(g)] * NumSubtrees * HashesPerSubtree + g \in Nat
    <3>1. position[SubtreeOf(g)] \in Nat
      BY DEF SpannedBy
    <3>2. g \in Nat /\ NumSubtrees \in Nat /\ HashesPerSubtree \in Nat
      BY ShapeAssumption DEF Leafs
    <3> QED
      BY <3>1, <3>2
  <2> QED
    BY <1>4, <2>1
<1> HIDE DEF globals, rank
<1>6. ASSUME NEW h \in 0..(TotalHeight - 1) PROVE levels[h] = Level(blk, P, h)
  <2>1. CASE h < SubtreeHeight
    <3>1. h \in 0..(SubtreeHeight - 1)
      BY <2>1, Heights
    <3> QED
      BY <1>2, <2>1, <3>1
  <2>2. CASE ~(h < SubtreeHeight)
    <3>1. TopLevel(h - SubtreeHeight, P, rank, TopProofsOf(blk)) = Level(blk, P, h)
      BY <1>5, <2>2, TopLevels
    <3> QED
      BY <1>4, <2>2, <3>1
  <2> QED
    BY <2>1, <2>2
<1>7. levels = [h \in 0..(TotalHeight - 1) |-> levels[h]]
  OBVIOUS
<1> HIDE DEF levels
<1>8. levels = [h \in 0..(TotalHeight - 1) |-> Level(blk, P, h)]
  BY <1>6, <1>7
<1> QED
  BY <1>1, <1>8 DEF BumpOf

-----------------------------------------------------------------------------
(* What levels have in common that were filled in one of these ways.       *)

(* Entries are nodes of the tree, the siblings of all the ancestors of the *)
(* token's txids are there, and nothing but they and the txids.            *)
TrueLevels(blk, P, levels) ==
  /\ DOMAIN levels = 0..(TotalHeight - 1)
  /\ \A h \in 0..(TotalHeight - 1) :
       /\ \A e \in levels[h] : e.hash = NodeAt(blk, h, e.offset)
       /\ Offsets(levels[h]) =
            {Sibling(Shift(g, h)) : g \in P} \cup (IF h = 0 THEN P ELSE {})

(* Those of the ways that share BumpOf are such levels.                    *)
LEMMA BumpLevels ==
  ASSUME PowerOfTwoSubtrees, NEW blk, IsBlock(blk), NEW P \in SUBSET Leafs
  PROVE  TrueLevels(blk, P, [h \in 0..(TotalHeight - 1) |-> Level(blk, P, h)])
<1>1. ASSUME NEW h \in 0..(TotalHeight - 1), h # 0
      PROVE  /\ \A e \in Level(blk, P, h) : e.hash = NodeAt(blk, h, e.offset)
             /\ Offsets(Level(blk, P, h)) = {Sibling(Shift(g, h)) : g \in P}
  <2> DEFINE off(g) == Sibling(Shift(g, h))
             Ent(g) == Entry(off(g), NodeAt(blk, h, off(g)), FALSE)
  <2>1. Level(blk, P, h) = {Ent(g) : g \in P}
    BY <1>1 DEF Level
  <2>2. \A g : Ent(g).offset = off(g) /\ Ent(g).hash = NodeAt(blk, h, off(g))
    BY DEF Entry
  <2> HIDE DEF Ent, off
  <2>3. \A e \in Level(blk, P, h) : e.hash = NodeAt(blk, h, e.offset)
    BY <2>1, <2>2
  <2>4. Offsets(Level(blk, P, h)) = {off(g) : g \in P}
    BY <2>1, <2>2 DEF Offsets
  <2> QED
    BY <2>3, <2>4 DEF off
<1>2. /\ \A e \in Level(blk, P, 0) : e.hash = NodeAt(blk, 0, e.offset)
      /\ Offsets(Level(blk, P, 0)) = {Sibling(Shift(g, 0)) : g \in P} \cup P
  <2> DEFINE above == [g \in P |-> Shift(g, 1)]
             First == FirstOf(P, above)
             Tx(g) == Entry(g, LeafAt(blk, g), TRUE)
             Sib(g) == Entry(Sibling(g), NodeAt(blk, 0, Sibling(g)), FALSE)
  <2>1. Level(blk, P, 0) = {Tx(g) : g \in P} \cup {Sib(g) : g \in First}
    BY DEF Level
  <2>2. \A g : /\ Tx(g).offset = g /\ Tx(g).hash = LeafAt(blk, g)
               /\ Sib(g).offset = Sibling(g) /\ Sib(g).hash = NodeAt(blk, 0, Sibling(g))
    BY DEF Entry
  <2>3. \A g \in P : NodeAt(blk, 0, g) = LeafAt(blk, g) /\ Shift(g, 0) = g
    BY Climb
  <2>4. First \subseteq P
    BY DEF FirstOf
  <2>5. ASSUME NEW g \in P PROVE g \in First \/ Sibling(g) \in P
    <3>1. P \in SUBSET Nat
      BY DEF Leafs
    <3>2. PICK o \in First : above[o] = above[g]
      <4> HIDE DEF above
      <4> QED
        BY <3>1, FirstCovers
    <3>3. o \in P /\ Shift(o, 1) = Shift(g, 1) /\ o \in Nat /\ g \in Nat
      BY <2>4, <3>1, <3>2
    <3>4. Shift(o, 1) = o \div 2 /\ Shift(g, 1) = g \div 2
      <4>1. Pow2[1] = 2
        <5>1. Pow2[0 + 1] = 2 * Pow2[0]
          BY Pow2Step
        <5> QED
          BY <5>1, Pow2Step
      <4> QED
        BY <4>1 DEF Shift
    <3>5. o = g \/ o = Sibling(g)
      BY <3>3, <3>4 DEF Sibling
    <3> QED
      BY <3>2, <3>3, <3>5
  <2> HIDE DEF Tx, Sib, First
  <2>6. \A e \in Level(blk, P, 0) : e.hash = NodeAt(blk, 0, e.offset)
    BY <2>1, <2>2, <2>3
  <2>7. Offsets(Level(blk, P, 0)) = {Sibling(g) : g \in First} \cup P
    BY <2>1, <2>2 DEF Offsets
  <2>8. {Sibling(g) : g \in First} \cup P = {Sibling(g) : g \in P} \cup P
    BY <2>4, <2>5
  <2>9. {Sibling(g) : g \in P} = {Sibling(Shift(g, 0)) : g \in P}
    BY <2>3
  <2> QED
    BY <2>6, <2>7, <2>8, <2>9
<1> DEFINE levels == [h \in 0..(TotalHeight - 1) |-> Level(blk, P, h)]
<1>3. /\ DOMAIN levels = 0..(TotalHeight - 1)
      /\ \A h \in 0..(TotalHeight - 1) : levels[h] = Level(blk, P, h)
  OBVIOUS
<1> HIDE DEF levels
<1>4. TrueLevels(blk, P, levels)
  BY <1>1, <1>2, <1>3 DEF TrueLevels
<1> QED
  BY <1>4 DEF levels

-----------------------------------------------------------------------------
(* The verifier.                                                           *)

(* The node of the tree at an offset, as EntriesAreNodes writes it.        *)
LEMMA NodeIsPadded ==
  ASSUME PowerOfTwoSubtrees, NEW blk, IsBlock(blk),
         NEW h \in 0..(TotalHeight - 1), NEW off \in OffsetsAt(h)
  PROVE  NodeAt(blk, h, off) =
           IF h < SubtreeHeight
           THEN PaddedLevel(blk[Shift(off, SubtreeHeight - h)], h)[off % Pow2[SubtreeHeight - h]]
           ELSE PaddedLevel(RootsOf(blk), h - SubtreeHeight)[off]
<1> DEFINE s == SubtreeHeight
           q == Pow2[s - h]
<1>1. /\ s \in Nat \ {0} /\ TopTreeHeight \in Nat \ {0} /\ TotalHeight = s + TopTreeHeight
      /\ HashesPerSubtree > 1 /\ HashesPerSubtree = Pow2[s] /\ NumSubtrees > 1
      /\ s = Log2Ceil(HashesPerSubtree) /\ TopTreeHeight = Log2Ceil(NumSubtrees)
  BY Heights DEF SubtreeHeight, TopTreeHeight
<1>2. CASE h < s
  <2>1. h \in 0..(s - 1)
    BY <1>1, <1>2
  <2>2. PICK si \in Subtrees, r \in 0..(q - 1) : off = si * q + r
    BY <2>1, OffsetInSubtree
  <2>3. s - h \in Nat /\ q \in Nat \ {0} /\ si \in Nat
    BY <1>1, <2>1, Pow2Type DEF Subtrees
  <2> HIDE DEF q
  <2>4. off \div q = si /\ off % q = r
    BY <2>2, <2>3, Within
  <2>5. /\ IsRow(blk[si]) /\ Len0(blk[si]) = HashesPerSubtree
    BY Rows
  <2>6. PaddedLevel(blk[si], h)[r] = Node(blk[si], h, r)
    <3> DEFINE row == blk[si]
    <3>1. IsRow(row) /\ Len0(row) > 1 /\ s = Log2Ceil(Len0(row))
      BY <1>1, <2>5
    <3>2. h \in 0..Log2Ceil(Len0(row)) /\ r \in 0..(Pow2[Log2Ceil(Len0(row)) - h] - 1)
      BY <1>1, <2>1, <2>2, <3>1 DEF q
    <3> HIDE DEF row
    <3>3. PaddedLevel(row, h)[r] = Node(row, h, r)
      BY <3>1, <3>2, StoreIsPaddedTree
    <3> QED
      BY <3>3 DEF row
  <2>7. Shift(off, s - h) = si
    BY <2>4 DEF Shift, q
  <2> QED
    BY <1>2, <2>4, <2>6, <2>7 DEF NodeAt, q
<1>3. CASE ~(h < s)
  <2> DEFINE k == h - s
             row == RootsOf(blk)
  <2>1. k \in 0..(TopTreeHeight - 1) /\ TotalHeight - h = TopTreeHeight - k
    BY <1>1, <1>3
  <2>2. off \in 0..(Pow2[TopTreeHeight - k] - 1)
    BY <1>3, <2>1 DEF OffsetsAt
  <2>3. IsRow(row) /\ Len0(row) > 1 /\ TopTreeHeight = Log2Ceil(Len0(row))
    BY <1>1, Rows
  <2>4. k \in 0..Log2Ceil(Len0(row)) /\ off \in 0..(Pow2[Log2Ceil(Len0(row)) - k] - 1)
    BY <1>1, <2>1, <2>2, <2>3
  <2> HIDE DEF row, k
  <2>5. PaddedLevel(row, k)[off] = Node(row, k, off)
    BY <2>3, <2>4, StoreIsPaddedTree
  <2> QED
    BY <1>3, <2>5 DEF NodeAt, row, k
<1> QED
  BY <1>2, <1>3

(* The ancestors of a leaf and their siblings, within the padded block.    *)
LEMMA AncestorBound ==
  ASSUME PowerOfTwoSubtrees, NEW g \in Leafs, NEW h \in 0..(TotalHeight - 1)
  PROVE  /\ Shift(g, h) \in 0..(Pow2[TotalHeight - h] - 1)
         /\ Sibling(Shift(g, h)) \in 0..(Pow2[TotalHeight - h] - 1)
<1> DEFINE t == TotalHeight
<1>1. /\ t \in Nat \ {0} /\ g \in Nat /\ TopTreeHeight \in Nat /\ SubtreeHeight \in Nat
      /\ t = SubtreeHeight + TopTreeHeight
  BY Heights DEF Leafs
<1>2. Shift(g, t) = 0
  <2>1. Shift(g, SubtreeHeight + TopTreeHeight) \in 0..(Pow2[TopTreeHeight - TopTreeHeight] - 1)
    BY <1>1, AncestorAbove
  <2>2. TopTreeHeight - TopTreeHeight = 0 /\ Pow2[0] = 1
    BY <1>1, Pow2Step
  <2>3. Shift(g, t) \in 0..0
    BY <1>1, <2>1, <2>2
  <2> QED
    BY <2>3
<1>3. g < Pow2[t]
  <2> DEFINE p == Pow2[t]
  <2>1. p \in Nat \ {0}
    BY <1>1, Pow2Type
  <2>2. g \div p = 0
    BY <1>2 DEF Shift
  <2> HIDE DEF p
  <2>3. g < p * (g \div p) + p
    BY <1>1, <2>1, DivFacts
  <2>4. g < p
    BY <1>1, <2>1, <2>2, <2>3
  <2> QED
    BY <2>4 DEF p
<1> HIDE DEF t
<1>4. Shift(g, h) \in 0..(Pow2[t - h] - 1)
  <2>1. h \in 0..t
    BY <1>1 DEF t
  <2> QED
    BY <1>1, <1>3, <2>1, ShiftBound
<1>5. PICK x \in Nat : x = Pow2[t - h - 1] /\ Pow2[t - h] = 2 * x
  <2>1. t - h - 1 \in Nat /\ (t - h - 1) + 1 = t - h
    BY <1>1 DEF t
  <2> QED
    BY <2>1, Pow2Step, Pow2Type
<1>6. Sibling(Shift(g, h)) \in 0..(Pow2[t - h] - 1)
  <2> DEFINE p == Shift(g, h)
  <2>1. p \in 0..(2 * x - 1)
    BY <1>4, <1>5
  <2> HIDE DEF p
  <2>2. Sibling(p) \in 0..(2 * x - 1)
    BY <2>1 DEF Sibling
  <2> QED
    BY <1>5, <2>2 DEF p
<1> QED
  BY <1>4, <1>6 DEF t

(* A row of the verifier's nodes from the row below.                       *)
NodesAbove(bump, below, h) ==
  [off \in 0..(Pow2[TotalHeight - h] - 1) |->
     IF {e \in bump[h] : e.offset = off} # {}
     THEN (CHOOSE e \in {e \in bump[h] : e.offset = off} : TRUE).hash
     ELSE IF h = 0 THEN ZeroHash
     ELSE IF below[2 * off] = ZeroHash \/ below[2 * off + 1] = ZeroHash THEN ZeroHash
     ELSE HashPair(below[2 * off], below[2 * off + 1])]

NodesOf(bump, g, h) == NodesAbove(bump, g[h - 1], h)

(* The recursion of the verifier's nodes has a solution.                   *)
LEMMA NodeHashDef ==
  ASSUME NEW bump, NEW top \in Nat, DOMAIN bump = 0..top
  PROVE  \A h \in 0..top : NodeHash(bump)[h] = NodesOf(bump, NodeHash(bump), h)
<1> DEFINE Upto(g, m) == g = [h \in 0..m |-> NodesOf(bump, g, h)]
           T == {m \in 0..top : \E g : Upto(g, m)}
<1>1. 0 \in T
  <2> DEFINE g == [h \in 0..0 |-> NodesOf(bump, << >>, h)]
  <2>1. \A h \in 0..0 : g[h] = NodesOf(bump, g, h)
    BY DEF NodesOf, NodesAbove
  <2>2. g = [h \in 0..0 |-> g[h]]
    OBVIOUS
  <2> HIDE DEF g
  <2>3. g = [h \in 0..0 |-> NodesOf(bump, g, h)]
    BY <2>1, <2>2
  <2> QED
    BY <2>3
<1>2. ASSUME NEW m \in 0..(top - 1), m \in T PROVE m + 1 \in T
  <2>1. PICK g : Upto(g, m)
    BY <1>2
  <2> DEFINE f == [h \in 0..(m + 1) |-> NodesOf(bump, g, h)]
  <2>2. \A h \in 0..m : g[h] = NodesOf(bump, g, h)
    BY <2>1
  <2>3. \A h \in 0..m : f[h] = g[h]
    BY <2>2
  <2>4. ASSUME NEW h \in 0..(m + 1)
        PROVE  f[h] = NodesOf(bump, f, h)
    <3>1. f[h] = NodesOf(bump, g, h)
      OBVIOUS
    <3>2. h # 0 => h - 1 \in 0..m
      OBVIOUS
    <3> HIDE DEF f
    <3>3. h # 0 => f[h - 1] = g[h - 1]
      BY <2>3, <3>2
    <3>4. NodesOf(bump, g, h) = NodesOf(bump, f, h)
      <4>1. CASE h = 0
        BY <4>1 DEF NodesOf, NodesAbove
      <4>2. CASE h # 0
        <5>1. f[h - 1] = g[h - 1]
          BY <3>3, <4>2
        <5> QED
          BY <5>1 DEF NodesOf
      <4> QED
        BY <4>1, <4>2
    <3> QED
      BY <3>1, <3>4
  <2>5. f = [h \in 0..(m + 1) |-> f[h]]
    OBVIOUS
  <2> HIDE DEF f
  <2>6. f = [h \in 0..(m + 1) |-> NodesOf(bump, f, h)]
    BY <2>4, <2>5
  <2>7. m + 1 \in 0..top
    OBVIOUS
  <2> QED
    BY <2>6, <2>7
<1> HIDE DEF T
<1>3. top \in T
  BY ONLY top \in Nat, <1>1, <1>2, UpTo
<1>4. \E g : g = [h \in DOMAIN bump |-> NodesOf(bump, g, h)]
  <2>1. PICK g : g = [h \in 0..top |-> NodesOf(bump, g, h)]
    BY <1>3 DEF T
  <2>2. g = [h \in DOMAIN bump |-> NodesOf(bump, g, h)]
    BY <2>1
  <2> QED
    BY <2>2
<1> DEFINE u == CHOOSE g : g = [h \in DOMAIN bump |-> NodesOf(bump, g, h)]
<1>5. u = [h \in DOMAIN bump |-> NodesOf(bump, u, h)]
  BY <1>4
<1>6. NodeHash(bump) = u
  BY DEF NodeHash, NodesOf, NodesAbove
<1> HIDE DEF u
<1>7. \A h \in 0..top : u[h] = NodesOf(bump, u, h)
  BY <1>5
<1> QED
  BY <1>6, <1>7

(* What pruning keeps: an entry goes only when its children are entries.   *)
LEMMA PrunedFacts ==
  ASSUME PowerOfTwoSubtrees, NEW blk, IsBlock(blk), NEW P,
         NEW levels, TrueLevels(blk, P, levels), NEW bump, bump = Prune(levels)
  PROVE  /\ DOMAIN bump = 0..(TotalHeight - 1)
         /\ bump[0] = levels[0]
         /\ \A h \in 0..(TotalHeight - 1) :
              /\ \A e \in bump[h] :
                   e.hash = NodeAt(blk, h, e.offset) /\ e.offset \in Offsets(levels[h])
              /\ \A off \in Offsets(levels[h]) :
                   \/ off \in Offsets(bump[h])
                   \/ /\ h # 0
                      /\ 2 * off \in Offsets(levels[h - 1])
                      /\ 2 * off + 1 \in Offsets(levels[h - 1])
<1>1. DOMAIN levels = 0..(TotalHeight - 1)
  BY DEF TrueLevels
<1>2. /\ DOMAIN bump = 0..(TotalHeight - 1)
      /\ \A h \in 0..(TotalHeight - 1) :
           bump[h] = IF h = 0 THEN levels[h]
                     ELSE {e \in levels[h] :
                             ~({2 * e.offset, 2 * e.offset + 1} \subseteq Offsets(levels[h - 1]))}
  BY <1>1 DEF Prune
<1>3. bump[0] = levels[0]
  <2>1. 0 \in 0..(TotalHeight - 1)
    BY Heights
  <2> QED
    BY <1>2, <2>1
<1>4. ASSUME NEW h \in 0..(TotalHeight - 1)
      PROVE  \A e \in bump[h] : e.hash = NodeAt(blk, h, e.offset) /\ e.offset \in Offsets(levels[h])
  <2>1. \A e \in bump[h] : e \in levels[h]
    BY <1>2
  <2>2. \A e \in levels[h] : e.hash = NodeAt(blk, h, e.offset)
    BY DEF TrueLevels
  <2> QED
    BY <2>1, <2>2 DEF Offsets
<1>5. ASSUME NEW h \in 0..(TotalHeight - 1), NEW off \in Offsets(levels[h]),
             off \notin Offsets(bump[h])
      PROVE  /\ h # 0
             /\ 2 * off \in Offsets(levels[h - 1])
             /\ 2 * off + 1 \in Offsets(levels[h - 1])
  <2>1. PICK e \in levels[h] : e.offset = off
    BY DEF Offsets
  <2>2. e \notin bump[h]
    BY <1>5, <2>1 DEF Offsets
  <2> QED
    BY <1>2, <2>1, <2>2
<1> QED
  BY <1>2, <1>3, <1>4, <1>5

(* Every offset filled before pruning is a node the verifier finds, among  *)
(* the entries or by hashing their children, and it is the node of the     *)
(* tree.                                                                   *)
LEMMA VerifierNodes ==
  ASSUME PowerOfTwoSubtrees, NEW blk, IsBlock(blk), NEW P \in SUBSET Leafs,
         NEW levels, TrueLevels(blk, P, levels), NEW bump, bump = Prune(levels)
  PROVE  \A h \in 0..(TotalHeight - 1) : \A off \in Offsets(levels[h]) :
           NodeHash(bump)[h][off] = NodeAt(blk, h, off)
<1> DEFINE top == TotalHeight - 1
           node == NodeHash(bump)
<1>1. top \in Nat /\ TotalHeight \in Nat \ {0}
  BY Heights
<1>2. DOMAIN bump = 0..top
  BY PrunedFacts
<1>3. \A h \in 0..top : node[h] = NodesOf(bump, node, h)
  <2> HIDE DEF top, node
  <2>1. \A h \in 0..top : NodeHash(bump)[h] = NodesOf(bump, NodeHash(bump), h)
    BY <1>1, <1>2, NodeHashDef
  <2> QED
    BY <2>1 DEF node
<1> HIDE DEF node
<1>4. ASSUME NEW h \in 0..top, NEW off \in Offsets(levels[h])
      PROVE  /\ off \in OffsetsAt(h) /\ off \in Nat
             /\ off \in 0..(Pow2[TotalHeight - h] - 1)
  <2>1. off \in {Sibling(Shift(g, h)) : g \in P} \cup (IF h = 0 THEN P ELSE {})
    BY DEF TrueLevels
  <2>2. PICK g \in P : off = Sibling(Shift(g, h)) \/ (h = 0 /\ off = g)
    BY <2>1
  <2>3. g \in Leafs /\ h \in 0..(TotalHeight - 1) /\ h \in 0..TotalHeight
    BY <1>1
  <2>4. h = 0 => Shift(g, h) = g
    BY <2>3, Climb
  <2>5. Shift(g, h) \in OffsetsAt(h) /\ Sibling(Shift(g, h)) \in OffsetsAt(h)
    BY <2>3, AncestorAt
  <2>6. /\ Shift(g, h) \in 0..(Pow2[TotalHeight - h] - 1)
        /\ Sibling(Shift(g, h)) \in 0..(Pow2[TotalHeight - h] - 1)
    BY <2>3, AncestorBound
  <2> QED
    BY <2>2, <2>4, <2>5, <2>6
<1>5. ASSUME NEW h \in 0..top, NEW off \in Offsets(bump[h]), off \in Offsets(levels[h])
      PROVE  node[h][off] = NodeAt(blk, h, off)
  <2> DEFINE E == {e \in bump[h] : e.offset = off}
  <2>1. E # {}
    BY DEF Offsets
  <2>2. \A e \in E : e.hash = NodeAt(blk, h, off)
    BY PrunedFacts
  <2>3. off \in 0..(Pow2[TotalHeight - h] - 1)
    BY <1>4, <1>5
  <2>4. node[h] = NodesAbove(bump, node[h - 1], h)
    BY <1>3 DEF NodesOf
  <2>5. node[h][off] = (CHOOSE e \in E : TRUE).hash
    BY <2>1, <2>3, <2>4 DEF NodesAbove
  <2> HIDE DEF E
  <2>6. (CHOOSE e \in E : TRUE) \in E
    BY <2>1
  <2> QED
    BY <2>2, <2>5, <2>6
<1> DEFINE T == {h \in 0..top : \A off \in Offsets(levels[h]) : node[h][off] = NodeAt(blk, h, off)}
<1>6. 0 \in T
  <2>1. 0 \in 0..top
    BY <1>1
  <2>2. \A off \in Offsets(levels[0]) : off \in Offsets(bump[0])
    BY PrunedFacts
  <2> QED
    BY <1>5, <2>1, <2>2
<1>7. ASSUME NEW k \in 0..(top - 1), k \in T PROVE k + 1 \in T
  <2> DEFINE h == k + 1
  <2>1. h \in 0..top /\ k \in 0..top /\ h - 1 = k /\ h # 0
    BY <1>1
  <2>2. \A off \in Offsets(levels[k]) : node[k][off] = NodeAt(blk, k, off)
    BY <1>7
  <2> HIDE DEF h, T
  <2>3. ASSUME NEW off \in Offsets(levels[h])
        PROVE  node[h][off] = NodeAt(blk, h, off)
    <3>1. CASE off \in Offsets(bump[h])
      BY <1>5, <2>1, <3>1
    <3>2. CASE off \notin Offsets(bump[h])
      <4>1. 2 * off \in Offsets(levels[k]) /\ 2 * off + 1 \in Offsets(levels[k])
        BY <2>1, <3>2, PrunedFacts
      <4>2. /\ node[k][2 * off] = NodeAt(blk, k, 2 * off)
            /\ node[k][2 * off + 1] = NodeAt(blk, k, 2 * off + 1)
        BY <2>2, <4>1
      <4>3. /\ 2 * off \in OffsetsAt(k) /\ 2 * off + 1 \in OffsetsAt(k)
            /\ off \in Nat /\ off \in 0..(Pow2[TotalHeight - h] - 1)
        BY <1>4, <2>1, <4>1
      <4>4. NodeAt(blk, k, 2 * off) # ZeroHash /\ NodeAt(blk, k, 2 * off + 1) # ZeroHash
        BY <2>1, <4>3, NodeNotZero
      <4>5. {e \in bump[h] : e.offset = off} = {}
        BY <3>2 DEF Offsets
      <4>6. node[h] = NodesAbove(bump, node[k], h)
        BY <1>3, <2>1 DEF NodesOf
      <4>7. node[h][off] = HashPair(NodeAt(blk, k, 2 * off), NodeAt(blk, k, 2 * off + 1))
        BY <2>1, <4>2, <4>3, <4>4, <4>5, <4>6 DEF NodesAbove
      <4>8. NodeAt(blk, k + 1, off) = HashPair(NodeAt(blk, k, 2 * off), NodeAt(blk, k, 2 * off + 1))
        BY <2>1, <4>3, ParentAt
      <4> QED
        BY <4>7, <4>8 DEF h
    <3> QED
      BY <3>1, <3>2
  <2>4. h \in T
    BY <2>1, <2>3 DEF T
  <2> QED
    BY <2>4 DEF h
<1>8. 0..top \subseteq T
  <2> HIDE DEF T, top
  <2>1. \A k \in 0..(top - 1) : k \in T => k + 1 \in T
    BY <1>7
  <2> QED
    BY <1>1, <1>6, <2>1, UpTo
<1> QED
  BY <1>8 DEF node

(* The verifier reaches the block's root from every txid of the token.     *)
LEMMA TrueLevelsVerify ==
  ASSUME PowerOfTwoSubtrees, NEW blk, IsBlock(blk), NEW P \in SUBSET Leafs,
         NEW levels, TrueLevels(blk, P, levels), NEW bump, bump = Prune(levels),
         NEW g \in P
  PROVE  ComputeRoot(bump, g, LeafAt(blk, g)) = BlockRootOf(blk)
<1> DEFINE t == TotalHeight
           sibs == [h \in DOMAIN bump |-> NodeHash(bump)[h][Sibling(Shift(g, h))]]
<1>1. t \in Nat \ {0} /\ g \in Leafs
  BY Heights
<1>2. DOMAIN bump = 0..(t - 1)
  BY PrunedFacts
<1>3. ASSUME NEW h \in 0..(t - 1)
      PROVE  sibs[h] = NodeAt(blk, h, Sibling(Shift(g, h))) /\ sibs[h] # ZeroHash
  <2>1. Sibling(Shift(g, h)) \in Offsets(levels[h])
    BY DEF TrueLevels
  <2>2. NodeHash(bump)[h][Sibling(Shift(g, h))] = NodeAt(blk, h, Sibling(Shift(g, h)))
    <3>1. \A k \in 0..(TotalHeight - 1) : \A off \in Offsets(levels[k]) :
            NodeHash(bump)[k][off] = NodeAt(blk, k, off)
      BY VerifierNodes
    <3> QED
      BY <2>1, <3>1
  <2>3. sibs[h] = NodeAt(blk, h, Sibling(Shift(g, h)))
    BY <1>2, <2>2
  <2>4. Sibling(Shift(g, h)) \in OffsetsAt(h)
    BY <1>1, AncestorAt
  <2>5. NodeAt(blk, h, Sibling(Shift(g, h))) # ZeroHash
    BY <2>4, NodeNotZero
  <2> QED
    BY <2>3, <2>5
<1>4. DOMAIN sibs = 0..(t - 1)
  BY <1>2
<1>5. Len0(sibs) = t
  <2>1. 0 \in Int /\ t - 1 \in Int
    BY <1>1
  <2>2. Cardinality(0..(t - 1)) = IF 0 > t - 1 THEN 0 ELSE (t - 1) - 0 + 1
    BY <2>1, FS_Interval
  <2> HIDE DEF sibs
  <2> QED
    BY <1>1, <1>4, <2>2 DEF Len0
<1>6. ComputeRoot(bump, g, LeafAt(blk, g)) = RootFromPath(LeafAt(blk, g), g, sibs)
  <2>1. \A h \in DOMAIN bump : sibs[h] # ZeroHash
    BY <1>2, <1>3
  <2> QED
    BY <2>1 DEF ComputeRoot
<1> HIDE DEF sibs
<1> DEFINE leaf == LeafAt(blk, g)
<1>7. PICK up : /\ \A k \in 0..t : up[k] = UpOf(leaf, g, sibs, up, k)
                /\ RootFromPath(leaf, g, sibs) = up[t]
  <2> HIDE DEF leaf
  <2>1. Len0(sibs) \in Nat
    BY <1>1, <1>5
  <2>2. \E up : /\ \A k \in 0..Len0(sibs) : up[k] = UpOf(leaf, g, sibs, up, k)
                /\ RootFromPath(leaf, g, sibs) = up[Len0(sibs)]
    BY <2>1, RootFromPathDef
  <2> QED
    BY <1>5, <2>2
<1> DEFINE T == {k \in 0..t : up[k] = NodeAt(blk, k, Shift(g, k))}
<1>8. 0 \in T
  <2>1. 0 \in 0..t
    BY <1>1
  <2>2. up[0] = leaf
    BY <1>7, <2>1 DEF UpOf
  <2> QED
    BY <1>1, <2>1, <2>2, Climb
<1>9. ASSUME NEW k \in 0..(t - 1), k \in T PROVE k + 1 \in T
  <2>1. k + 1 \in 0..t /\ k + 1 # 0 /\ (k + 1) - 1 = k
    BY <1>1
  <2>2. up[k + 1] = IF Shift(g, k) % 2 = 0 THEN HashPair(up[k], sibs[k])
                    ELSE HashPair(sibs[k], up[k])
    BY <1>7, <2>1 DEF UpOf
  <2>3. up[k] = NodeAt(blk, k, Shift(g, k)) /\ sibs[k] = NodeAt(blk, k, Sibling(Shift(g, k)))
    BY <1>3, <1>9
  <2>4. NodeAt(blk, k + 1, Shift(g, k + 1)) =
          IF Shift(g, k) % 2 = 0
          THEN HashPair(NodeAt(blk, k, Shift(g, k)), NodeAt(blk, k, Sibling(Shift(g, k))))
          ELSE HashPair(NodeAt(blk, k, Sibling(Shift(g, k))), NodeAt(blk, k, Shift(g, k)))
    BY <1>1, Climb
  <2>5. up[k + 1] = NodeAt(blk, k + 1, Shift(g, k + 1))
    BY <2>2, <2>3, <2>4
  <2> QED
    BY <2>1, <2>5
<1>10. 0..t \subseteq T
  <2> HIDE DEF T, t
  <2>1. \A k \in 0..(t - 1) : k \in T => k + 1 \in T
    BY <1>9
  <2> QED
    BY <1>1, <1>8, <2>1, UpTo
<1>11. up[t] = NodeAt(blk, t, Shift(g, t))
  BY <1>1, <1>10
<1>12. NodeAt(blk, t, Shift(g, t)) = BlockRootOf(blk)
  BY <1>1, Climb
<1> QED
  BY <1>6, <1>7, <1>11, <1>12

(* Every entry is the node of the padded rows at its offset, as            *)
(* EntriesAreNodes of TokenBump says of its block.                         *)
NodesTrue(blk, bump) ==
  \A h \in DOMAIN bump : \A e \in bump[h] :
    e.hash = IF h < SubtreeHeight
             THEN PaddedLevel(blk[Shift(e.offset, SubtreeHeight - h)], h)
                    [e.offset % Pow2[SubtreeHeight - h]]
             ELSE PaddedLevel(RootsOf(blk), h - SubtreeHeight)[e.offset]

(* So it is for the entries that pruning keeps.                            *)
LEMMA TrueLevelsAreNodes ==
  ASSUME PowerOfTwoSubtrees, NEW blk, IsBlock(blk), NEW P \in SUBSET Leafs,
         NEW levels, TrueLevels(blk, P, levels), NEW bump, bump = Prune(levels)
  PROVE  NodesTrue(blk, bump)
<1> SUFFICES ASSUME NEW h \in DOMAIN bump, NEW e \in bump[h]
             PROVE  e.hash = IF h < SubtreeHeight
                             THEN PaddedLevel(blk[Shift(e.offset, SubtreeHeight - h)], h)
                                    [e.offset % Pow2[SubtreeHeight - h]]
                             ELSE PaddedLevel(RootsOf(blk), h - SubtreeHeight)[e.offset]
  BY DEF NodesTrue
<1> DEFINE off == e.offset
<1>1. h \in 0..(TotalHeight - 1)
  BY PrunedFacts
<1>2. e.hash = NodeAt(blk, h, off) /\ off \in Offsets(levels[h])
  BY <1>1, PrunedFacts
<1>3. off \in {Sibling(Shift(g, h)) : g \in P} \cup (IF h = 0 THEN P ELSE {})
  BY <1>1, <1>2 DEF TrueLevels
<1> HIDE DEF off
<1>4. off \in OffsetsAt(h)
  <2>1. PICK g \in P : off = Sibling(Shift(g, h)) \/ (h = 0 /\ off = g)
    BY <1>3
  <2>2. g \in Leafs /\ h \in 0..TotalHeight
    BY <1>1, Heights
  <2>3. h = 0 => Shift(g, h) = g
    BY <2>2, Climb
  <2>4. Shift(g, h) \in OffsetsAt(h) /\ Sibling(Shift(g, h)) \in OffsetsAt(h)
    BY <1>1, <2>2, AncestorAt
  <2> QED
    BY <2>1, <2>3, <2>4
<1>5. NodeAt(blk, h, off) =
        IF h < SubtreeHeight
        THEN PaddedLevel(blk[Shift(off, SubtreeHeight - h)], h)[off % Pow2[SubtreeHeight - h]]
        ELSE PaddedLevel(RootsOf(blk), h - SubtreeHeight)[off]
  BY <1>1, <1>4, NodeIsPadded
<1> QED
  BY <1>2, <1>5 DEF off
=============================================================================
