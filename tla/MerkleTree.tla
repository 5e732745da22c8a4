----------------------------- MODULE MerkleTree -----------------------------
(***************************************************************************)
(* The pure part of internal/subtree/subtree.go: the flat merkle store and  *)
(* the proofs read from it.                                                *)
(*                                                                         *)
(* A Go slice of hashes is a function on 0..n-1.  SHA256d is taken to be   *)
(* free of collisions: a leaf hash is a one-element tuple, the zero value  *)
(* of chainhash.Hash is the empty tuple and HashPair builds a pair, so two *)
(* hashes are equal only when they were computed from the same leaves in   *)
(* the same shape.                                                         *)
(***************************************************************************)
EXTENDS Integers, FiniteSets

ZeroHash == << >>

HashPair(l, r) == <<l, r>>

Len0(slice) == Cardinality(DOMAIN slice)

IsRow(slice) == IsFiniteSet(DOMAIN slice) /\ slice = [i \in 0..(Len0(slice) - 1) |-> slice[i]]

(* i ^ 1, the other element of the pair that holds i.                      *)
Sibling(i) == IF i % 2 = 0 THEN i + 1 ELSE i - 1

(* 1 << k, as a recursive function: proofs can unfold it, as they cannot    *)
(* unfold 2^k.                                                             *)
Pow2[k \in Nat] == IF k = 0 THEN 1 ELSE 2 * Pow2[k - 1]

(* i >> k *)
Shift(i, k) == i \div Pow2[k]

Log2Ceil(n) == CHOOSE h \in 0..n : Pow2[h] >= n /\ \A k \in 0..(h - 1) : Pow2[k] < n

NextPowerOfTwo(n) == Pow2[Log2Ceil(n)]

(* A mutant of PadLeaf: the row is repeated from its start.                *)
PadLeaf_Wrap(leaves, i) == leaves[i % Len0(leaves)]

PadLeaf(leaves, i) == LET n == Len0(leaves) IN leaves[IF i >= n THEN n - 1 ELSE i]

-----------------------------------------------------------------------------
(* BuildMerkleStore, as a definition of every slot.  With pad slots at leaf *)
(* level, slots 0..pad/2-1 hold level 1; slot j beyond them is the parent  *)
(* of slots 2(j - pad/2) and 2(j - pad/2) + 1.  Module MerkleBuild runs    *)
(* the loops and the goroutines that fill the slots.                       *)
StoreSlots(leaves, half) ==
  LET slot[j \in 0..(2 * half - 2)] ==
        IF j < half
        THEN HashPair(PadLeaf(leaves, 2 * j), PadLeaf(leaves, 2 * j + 1))
        ELSE HashPair(slot[2 * (j - half)], slot[2 * (j - half) + 1])
  IN slot

BuildMerkleStore(leaves) ==
  IF Len0(leaves) <= 1 THEN leaves
  ELSE StoreSlots(leaves, NextPowerOfTwo(Len0(leaves)) \div 2)

MerkleRoot(leaves) ==
  LET store == BuildMerkleStore(leaves) IN store[Len0(store) - 1]

(* Where level k >= 1 starts in a store of pad - 1 slots, and how many     *)
(* nodes it has: the running values of offset and size in the code.        *)
LevelOffset(pad, k) == pad - 2 * Shift(pad, k)
LevelSize(pad, k)   == Shift(pad, k)

(* A mutant of ProofFromStore: the store position is never shifted for the *)
(* level, the slip "sibPos := index ^ 1".                                  *)
ProofFromStore_NoShift(leaves, store, index, height) ==
  LET n   == Len0(leaves)
      pad == NextPowerOfTwo(n)
  IN [k \in 0..(height - 1) |->
        IF k = 0
        THEN leaves[IF Sibling(index) >= n THEN index ELSE Sibling(index)]
        ELSE LET pos == Sibling(index)
             IN  store[LevelOffset(pad, k) +
                       (IF pos >= LevelSize(pad, k) THEN LevelSize(pad, k) - 1 ELSE pos)]]

(* proofFromStore.  The code writes proof[0] unconditionally: with height 0 *)
(* that write is out of range, which ProofPanics records.                  *)
ProofFromStore(leaves, store, index, height) ==
  LET n   == Len0(leaves)
      pad == NextPowerOfTwo(n)
  IN [k \in 0..(height - 1) |->
        IF k = 0
        THEN leaves[IF Sibling(index) >= n THEN index ELSE Sibling(index)]
        ELSE LET pos == Sibling(Shift(index, k))
             IN  store[LevelOffset(pad, k) +
                       (IF pos >= LevelSize(pad, k) THEN LevelSize(pad, k) - 1 ELSE pos)]]

ProofPanics(height) == height = 0

(* GetMerkleProof for an index in range: a one-leaf tree has an empty path. *)
GetMerkleProof(leaves, index) ==
  IF Len0(leaves) = 1
  THEN [panic |-> FALSE, proof |-> << >>]
  ELSE LET height == Log2Ceil(Len0(leaves))
       IN [panic |-> ProofPanics(height),
           proof |-> ProofFromStore(leaves, BuildMerkleStore(leaves), index, height)]

(* GetProofFromStore for an index in range: no special case for one leaf.  *)
GetProofFromStore(leaves, store, index) ==
  LET height == Log2Ceil(Len0(leaves))
  IN [panic |-> ProofPanics(height),
      proof |-> ProofFromStore(leaves, store, index, height)]

(* A mutant of GetAllProofs: the height of the padded tree is taken to be  *)
(* that of half the leaves.                                                *)
GetAllProofs_ShortHeight(leaves) ==
  LET height == Log2Ceil((Len0(leaves) + 1) \div 2)
      store  == BuildMerkleStore(leaves)
  IN [panic  |-> Len0(leaves) > 0 /\ ProofPanics(height),
      proofs |-> [i \in DOMAIN leaves |-> ProofFromStore(leaves, store, i, height)]]

GetAllProofs(leaves) ==
  LET height == Log2Ceil(Len0(leaves))
      store  == BuildMerkleStore(leaves)
  IN [panic  |-> Len0(leaves) > 0 /\ ProofPanics(height),
      proofs |-> [i \in DOMAIN leaves |-> ProofFromStore(leaves, store, i, height)]]

-----------------------------------------------------------------------------
(* Reference definitions: not translated from the code, they say what the  *)
(* operators above are for.                                                *)

(* The levels of a merkle tree whose leaf row is extended to a power of    *)
(* two by repeating its last leaf, from the leaves (0) to the root.        *)
PaddedRows(leaves) ==
  LET height == Log2Ceil(Len0(leaves))
      row[h \in 0..height] ==
        [i \in 0..(Pow2[height - h] - 1) |->
           IF h = 0 THEN PadLeaf(leaves, i)
           ELSE HashPair(row[h - 1][2 * i], row[h - 1][2 * i + 1])]
  IN row

PaddedLevel(leaves, k) == PaddedRows(leaves)[k]

(* The Bitcoin rule: at every level of odd length the last NODE is paired  *)
(* with itself.                                                            *)
BitcoinParents(below) ==
  LET n == Len0(below)
  IN [i \in 0..((n + 1) \div 2 - 1) |->
        HashPair(below[2 * i], below[IF 2 * i + 1 < n THEN 2 * i + 1 ELSE 2 * i])]

BitcoinRows(leaves) ==
  LET row[h \in 0..Log2Ceil(Len0(leaves))] ==
        IF h = 0 THEN leaves ELSE BitcoinParents(row[h - 1])
  IN row

BitcoinRoot(leaves) == BitcoinRows(leaves)[Log2Ceil(Len0(leaves))][0]

(* What a verifier computes: hash upwards from a leaf, on the side its     *)
(* index says.                                                             *)
RootFromPath(leaf, index, path) ==
  LET up[k \in 0..Len0(path)] ==
        IF k = 0 THEN leaf
        ELSE IF Shift(index, k - 1) % 2 = 0
             THEN HashPair(up[k - 1], path[k - 1])
             ELSE HashPair(path[k - 1], up[k - 1])
  IN up[Len0(path)]
=============================================================================
