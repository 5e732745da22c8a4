-------------------------- MODULE MerkleBuildProofs -------------------------
(***************************************************************************)
(* Proofs about MerkleBuild and MerkleProofs: for every row of leaves,     *)
(* every number of CPUs and every threshold the goroutines fill the store  *)
(* with the padded merkle tree, whatever their interleaving, and the three *)
(* ways to ask for a path answer alike and with a path to the root.        *)
(*                                                                         *)
(* BuildInv is the inductive invariant.  While a level is hashed the slots *)
(* below it are final, and so are those its goroutines have passed.  A     *)
(* pair is hashed from final slots only (PairIsSlot), so that writing it   *)
(* never spoils a final slot and leaves its own slot final.                *)
(*                                                                         *)
(* NumSubtrees and HashesPerSubtree come with MerkleTreeProofs, of which   *)
(* only the part about MerkleTree is used here: nothing depends on them.   *)
(***************************************************************************)
EXTENDS MerkleProofs, MerkleTreeProofs

Building == pc \in {"level", "serial", "parallel"}

(* Slot j holds what it will hold at the end.                              *)
Final(j) == store[j] = BuildMerkleStore(leaves)[j]

(* The leaves, or a level of 2^k nodes, k > 0, that ends 2^k slots before  *)
(* the end of the store's padded size.                                     *)
LevelOK ==
  IF atLeaves THEN offset = 0 /\ size = pad \div 2
  ELSE \E k \in 1..(Log2Ceil(n) - 1) : size = Pow2[k] /\ offset = pad - 2 * Pow2[k]

BuildInv ==
  /\ leaves \in LeafRows
  /\ pc \in {"start", "level", "serial", "parallel", "done"}
  /\ cursor \in [Workers -> Nat]
  /\ atLeaves \in BOOLEAN
  /\ pc = "start" => atLeaves = TRUE /\ offset = 0
  /\ Building => /\ n > 1
                 /\ LevelOK
                 /\ store = [j \in 0..(pad - 2) |-> store[j]]
                 /\ \A j \in 0..(Dst(0) - 1) : Final(j)
  /\ pc = "serial" => /\ cursor[0] <= NumPairs
                      /\ \A j \in 0..(cursor[0] - 1) : Final(Dst(j))
  /\ pc = "parallel" => \A w \in Spawned : /\ cursor[w] \in Lo(w)..Hi(w)
                                           /\ \A j \in Lo(w)..(cursor[w] - 1) : Final(Dst(j))
  /\ pc = "done" => store = BuildMerkleStore(leaves)

(* Every row is a slice of finite length.                                  *)
LEMMA LeavesAreRow ==
  ASSUME leaves \in LeafRows
  PROVE  IsRow(leaves) /\ n \in Nat
<1>1. IsRow(leaves)
  BY BuildAssumption
<1> QED
  BY <1>1, RowLength DEF n

(* The size of the tree, as the steps below use it.                        *)
LEMMA TreeSize ==
  ASSUME leaves \in LeafRows, n > 1
  PROVE  /\ Log2Ceil(n) \in Nat \ {0}
         /\ pad = 2 * Pow2[Log2Ceil(n) - 1]
         /\ pad \div 2 = Pow2[Log2Ceil(n) - 1]
         /\ Pow2[Log2Ceil(n) - 1] \in Nat \ {0}
         /\ BuildMerkleStore(leaves) = [j \in 0..(pad - 2) |-> BuildMerkleStore(leaves)[j]]
<1>1. IsRow(leaves) /\ n \in Nat
  BY LeavesAreRow
<1>2. /\ Log2Ceil(n) \in Nat \ {0}
      /\ pad = 2 * Pow2[Log2Ceil(n) - 1]
      /\ pad \div 2 = Pow2[Log2Ceil(n) - 1]
      /\ Pow2[Log2Ceil(n) - 1] \in Nat \ {0}
  BY <1>1, PaddedSize DEF pad
<1> DEFINE half == Pow2[Log2Ceil(n) - 1]
           full == BuildMerkleStore(leaves)
<1>3. full = [j \in 0..(2 * half - 2) |-> SlotOf(leaves, half, full, j)]
  BY <1>1, StoreFacts DEF n
<1> HIDE DEF full
<1>4. full = [j \in 0..(pad - 2) |-> full[j]]
  BY <1>2, <1>3
<1> QED
  BY <1>2, <1>4 DEF full

(* Where the level being hashed lies: its sources end where its results    *)
(* begin, and its results end inside the store.                            *)
LEMMA LevelBounds ==
  ASSUME BuildInv, Building
  PROVE  /\ offset \in Nat /\ size \in Nat /\ pad \in Nat /\ NumPairs \in Nat \ {0}
         /\ \A j \in 0..(NumPairs - 1) : Dst(j) = Dst(0) + j /\ Dst(j) \in 0..(pad - 2)
         /\ Dst(0) + NumPairs <= pad - 1
         /\ atLeaves => NumPairs = pad \div 2 /\ Dst(0) = 0
         /\ ~atLeaves => /\ size = 2 * NumPairs
                         /\ offset = pad - 2 * size
                         /\ Dst(0) = pad - size
                         /\ size <= pad \div 2
<1>1. leaves \in LeafRows /\ n > 1 /\ LevelOK /\ atLeaves \in BOOLEAN
  BY DEF BuildInv
<1> DEFINE h == Log2Ceil(n)
           half == Pow2[h - 1]
<1>2. h \in Nat \ {0} /\ pad = 2 * half /\ pad \div 2 = half /\ half \in Nat \ {0}
  BY <1>1, TreeSize
<1>3. CASE atLeaves
  <2>1. offset = 0 /\ size = half /\ NumPairs = half
    BY <1>1, <1>2, <1>3 DEF LevelOK, NumPairs
  <2>2. \A j : Dst(j) = j
    BY <1>3 DEF Dst
  <2> HIDE DEF half
  <2> QED
    BY <1>2, <1>3, <2>1, <2>2
<1>4. CASE ~atLeaves
  <2>1. PICK k \in 1..(h - 1) : size = Pow2[k] /\ offset = pad - 2 * Pow2[k]
    BY <1>1, <1>4 DEF LevelOK
  <2>2. k - 1 \in Nat /\ k \in Nat /\ h - 1 \in Nat /\ k <= h - 1 /\ (k - 1) + 1 = k
    BY <1>2, <2>1
  <2>3. Pow2[k] = 2 * Pow2[k - 1] /\ Pow2[k - 1] \in Nat \ {0}
    BY <2>2, Pow2Step, Pow2Type
  <2>4. Pow2[k] <= half
    BY <2>2, Pow2Mono
  <2>5. NumPairs = size \div 2
    BY <1>4 DEF NumPairs
  <2>6. \A j : Dst(j) = offset + size + j
    BY <1>4 DEF Dst
  <2> HIDE DEF half
  <2>7. NumPairs = Pow2[k - 1] /\ size = 2 * NumPairs
    BY <2>1, <2>3, <2>5
  <2> QED
    BY <1>2, <1>4, <2>1, <2>3, <2>4, <2>6, <2>7
<1> QED
  BY <1>1, <1>3, <1>4

(* A pair of the level is hashed from final slots, or from leaves, and     *)
(* gives what its slot holds at the end.                                   *)
LEMMA PairIsSlot ==
  ASSUME BuildInv, Building, NEW j \in 0..(NumPairs - 1)
  PROVE  HashPair(Src(2 * j), Src(2 * j + 1)) = BuildMerkleStore(leaves)[Dst(j)]
<1> DEFINE half == Pow2[Log2Ceil(n) - 1]
           full == BuildMerkleStore(leaves)
<1>1. leaves \in LeafRows /\ n > 1 /\ \A i \in 0..(Dst(0) - 1) : Final(i)
  BY DEF BuildInv
<1>2. half \in Nat \ {0} /\ pad = 2 * half /\ pad \div 2 = half
  BY <1>1, TreeSize
<1>3. full = [i \in 0..(2 * half - 2) |-> SlotOf(leaves, half, full, i)]
  BY <1>1, LeavesAreRow, StoreFacts DEF n
<1>4. /\ offset \in Nat /\ size \in Nat /\ NumPairs \in Nat
      /\ Dst(j) = Dst(0) + j /\ Dst(j) \in 0..(pad - 2)
      /\ atLeaves => NumPairs = pad \div 2 /\ Dst(0) = 0
      /\ ~atLeaves => /\ size = 2 * NumPairs
                      /\ offset = pad - 2 * size
                      /\ Dst(0) = pad - size
                      /\ size <= pad \div 2
  BY LevelBounds
<1>5. full[Dst(j)] = SlotOf(leaves, half, full, Dst(j))
  <2> HIDE DEF full, half
  <2> QED
    BY <1>2, <1>3, <1>4
<1>6. CASE atLeaves
  <2>1. Dst(j) = j /\ j < half
    BY <1>2, <1>4, <1>6
  <2>2. Src(2 * j) = PadLeaf(leaves, 2 * j) /\ Src(2 * j + 1) = PadLeaf(leaves, 2 * j + 1)
    BY <1>6 DEF Src
  <2> HIDE DEF full, half
  <2>3. SlotOf(leaves, half, full, j) = HashPair(PadLeaf(leaves, 2 * j), PadLeaf(leaves, 2 * j + 1))
    BY <2>1 DEF SlotOf
  <2> QED
    BY <1>5, <2>1, <2>2, <2>3 DEF full
<1>7. CASE ~atLeaves
  <2> DEFINE child == offset + 2 * j
             dst == Dst(j)
  <2>1. ~(dst < half) /\ 2 * (dst - half) = child
    <3>1. dst = 2 * half - size + j /\ offset = 2 * half - 2 * size /\ size <= half
      BY <1>2, <1>4, <1>7
    <3>2. j \in Nat /\ size \in Nat /\ half \in Nat
      BY <1>2, <1>4
    <3> HIDE DEF half, dst
    <3> QED
      BY <3>1, <3>2
  <2>2. child \in 0..(Dst(0) - 1) /\ child + 1 \in 0..(Dst(0) - 1)
    BY <1>2, <1>4, <1>7
  <2>3. store[child] = full[child] /\ store[child + 1] = full[child + 1]
    BY <1>1, <2>2 DEF Final
  <2>4. offset + (2 * j + 1) = child + 1
    BY <1>4
  <2>5. Src(2 * j) = store[child] /\ Src(2 * j + 1) = store[child + 1]
    BY <1>7, <2>4 DEF Src
  <2>7. full[dst] = SlotOf(leaves, half, full, dst)
    BY <1>5
  <2> HIDE DEF half, child, dst, full
  <2>6. SlotOf(leaves, half, full, dst) = HashPair(full[child], full[child + 1])
    BY <2>1 DEF SlotOf
  <2>8. HashPair(Src(2 * j), Src(2 * j + 1)) = full[dst]
    BY <2>3, <2>5, <2>6, <2>7
  <2> QED
    BY <2>8 DEF dst, full
<1> QED
  BY <1>4, <1>6, <1>7 DEF BuildInv

(* Hashing a pair makes its slot final and keeps the others as they are.   *)
LEMMA HashOneKeeps ==
  ASSUME BuildInv, Building, NEW j \in 0..(NumPairs - 1), HashOne(j)
  PROVE  /\ store' = [i \in 0..(pad - 2) |-> store'[i]]
         /\ store'[Dst(j)] = BuildMerkleStore(leaves)[Dst(j)]
         /\ \A i \in 0..(pad - 2) : Final(i) => store'[i] = BuildMerkleStore(leaves)[i]
<1>1. store = [i \in 0..(pad - 2) |-> store[i]]
  BY DEF BuildInv
<1>2. Dst(j) \in 0..(pad - 2)
  BY LevelBounds
<1>3. HashPair(Src(2 * j), Src(2 * j + 1)) = BuildMerkleStore(leaves)[Dst(j)]
  BY PairIsSlot
<1>4. store' = [store EXCEPT ![Dst(j)] = BuildMerkleStore(leaves)[Dst(j)]]
  BY <1>3 DEF HashOne
<1>5. DOMAIN store = 0..(pad - 2)
  BY <1>1
<1> QED
  BY <1>2, <1>4, <1>5 DEF Final
(* The chunks of the spawned goroutines cover the level.                   *)
LEMMA ChunksCover ==
  ASSUME NumPairs \in Nat \ {0}, NEW j \in 0..(NumPairs - 1)
  PROVE  \E w \in Spawned : j \in Lo(w)..(Hi(w) - 1)
<1> DEFINE c == Chunk
           w == j \div c
<1>1. NumCPU \in Nat \ {0}
  BY BuildAssumption
<1>2. c \in Nat \ {0} /\ NumPairs <= NumCPU * c
  <2> DEFINE a == NumPairs + NumCPU - 1
  <2>1. a \in Nat /\ a >= NumCPU
    BY <1>1
  <2>2. a \div NumCPU \in Nat /\ a < NumCPU * (a \div NumCPU) + NumCPU
    BY <1>1, <2>1, DivFacts
  <2>3. c = a \div NumCPU
    BY DEF Chunk
  <2> HIDE DEF a
  <2>4. c \in Nat /\ a < NumCPU * c + NumCPU
    BY <2>2, <2>3
  <2>5. c # 0
    BY <1>1, <2>1, <2>4
  <2>6. NumPairs = a - NumCPU + 1
    BY <1>1 DEF a
  <2>7. NumCPU * c \in Nat
    BY <1>1, <2>4
  <2> QED
    BY <1>1, <2>1, <2>4, <2>5, <2>6, <2>7
<1> HIDE DEF c
<1>3. w \in Nat /\ c * w <= j /\ j < c * w + c
  BY <1>2, DivFacts
<1> HIDE DEF w
<1>4. w < NumCPU
  BY <1>1, <1>2, <1>3
<1>5. w \in Workers
  BY <1>1, <1>3, <1>4 DEF Workers
<1>6. Lo(w) = w * c /\ w * c = c * w
  BY <1>2, <1>3 DEF Lo, c
<1>7. Hi(w) = IF w * c + c > NumPairs THEN NumPairs ELSE w * c + c
  BY <1>6 DEF Hi, c
<1>8. j \in Lo(w)..(Hi(w) - 1)
  BY <1>2, <1>3, <1>6, <1>7
<1>9. w \in Spawned
  BY <1>2, <1>3, <1>5, <1>6, <1>7, <1>8 DEF Spawned
<1> QED
  BY <1>8, <1>9

(* A spawned goroutine's chunk is a part of the level.                     *)
LEMMA ChunkInLevel ==
  ASSUME NumPairs \in Nat \ {0}, NEW w \in Spawned
  PROVE  Lo(w) \in Nat /\ Hi(w) \in Nat /\ Lo(w) < Hi(w) /\ Hi(w) <= NumPairs
<1> DEFINE c == Chunk
<1>1. NumCPU \in Nat \ {0} /\ w \in Nat
  BY BuildAssumption DEF Spawned, Workers
<1>2. c \in Nat
  <2>1. NumPairs + NumCPU - 1 \in Nat
    BY <1>1
  <2> QED
    BY <1>1, <2>1, DivFacts DEF Chunk
<1> HIDE DEF c
<1>3. Lo(w) = w * c /\ w * c \in Nat
  BY <1>1, <1>2 DEF Lo, c
<1>4. Hi(w) = IF w * c + c > NumPairs THEN NumPairs ELSE w * c + c
  BY <1>3 DEF Hi, c
<1> QED
  BY <1>2, <1>3, <1>4 DEF Spawned

(* Once the level is hashed all slots up to its end are final.             *)
LEMMA LevelIsFinal ==
  ASSUME BuildInv, LevelHashed
  PROVE  Building /\ \A j \in 0..(Dst(0) + NumPairs - 1) : Final(j)
<1>1. Building
  BY DEF LevelHashed, Building
<1>2. /\ NumPairs \in Nat \ {0} /\ Dst(0) \in Nat
      /\ \A j \in 0..(NumPairs - 1) : Dst(j) = Dst(0) + j
  <2>1. 0 \in 0..(NumPairs - 1) /\ NumPairs \in Nat \ {0} /\ pad \in Nat
    BY <1>1, LevelBounds
  <2> QED
    BY <1>1, <2>1, LevelBounds
<1>3. ASSUME NEW j \in 0..(NumPairs - 1) PROVE Final(Dst(j))
  <2>1. CASE pc = "serial"
    BY <1>2, <2>1 DEF BuildInv, LevelHashed
  <2>2. CASE pc = "parallel"
    <3>1. PICK w \in Spawned : j \in Lo(w)..(Hi(w) - 1)
      BY <1>2, ChunksCover
    <3>2. cursor[w] = Hi(w) /\ \A i \in Lo(w)..(cursor[w] - 1) : Final(Dst(i))
      BY <2>2 DEF BuildInv, LevelHashed
    <3> QED
      BY <3>1, <3>2
  <2> QED
    BY <2>1, <2>2 DEF LevelHashed
<1>4. ASSUME NEW j \in 0..(Dst(0) + NumPairs - 1) PROVE Final(j)
  <2>1. CASE j < Dst(0)
    BY <1>1, <1>2, <2>1 DEF BuildInv
  <2>2. CASE j >= Dst(0)
    <3>1. j - Dst(0) \in 0..(NumPairs - 1) /\ Dst(0) + (j - Dst(0)) = j
      BY <1>2, <2>2
    <3>2. Final(Dst(j - Dst(0))) /\ Dst(j - Dst(0)) = j
      BY <1>2, <1>3, <3>1
    <3> QED
      BY <3>2
  <2> QED
    BY <1>2, <2>1, <2>2
<1> QED
  BY <1>1, <1>4
(* What does not change while a level is hashed.                           *)
LEMMA LevelFrame ==
  ASSUME UNCHANGED <<leaves, atLeaves, offset, size>>
  PROVE  /\ n' = n /\ pad' = pad /\ NumPairs' = NumPairs /\ LevelOK' = LevelOK
         /\ \A j : Dst(j)' = Dst(j)
         /\ \A w : Lo(w)' = Lo(w) /\ Hi(w)' = Hi(w)
         /\ Spawned' = Spawned
<1>1. n' = n
  BY DEF n
<1>2. pad' = pad
  BY <1>1 DEF pad
<1>3. NumPairs' = NumPairs
  BY <1>2 DEF NumPairs
<1>4. LevelOK' = LevelOK
  BY <1>1, <1>2 DEF LevelOK
<1>5. \A j : Dst(j)' = Dst(j)
  BY DEF Dst
<1>6. Chunk' = Chunk
  BY <1>3 DEF Chunk
<1>7. \A w : Lo(w)' = Lo(w)
  BY <1>6 DEF Lo
<1>8. \A w : Hi(w)' = Hi(w)
  BY <1>3, <1>6, <1>7 DEF Hi
<1>9. Spawned' = Spawned
  BY <1>7, <1>8 DEF Spawned
<1> QED
  BY <1>1, <1>2, <1>3, <1>4, <1>5, <1>7, <1>8, <1>9

(* Nothing is built yet at the start.                                      *)
LEMMA InitInv == Init => BuildInv
<1>1. cursor = [w \in Workers |-> 0] => cursor \in [Workers -> Nat]
  OBVIOUS
<1> QED
  BY <1>1 DEF Init, BuildInv, Building

(* No leaf or one leaf: the store is the row itself.                       *)
LEMMA ReturnSmallInv == BuildInv /\ ReturnSmall => BuildInv'
<1> SUFFICES ASSUME BuildInv, ReturnSmall PROVE BuildInv'
  OBVIOUS
<1>1. store' = BuildMerkleStore(leaves) /\ UNCHANGED <<leaves, atLeaves, cursor>> /\ pc' = "done"
  BY DEF ReturnSmall, BuildMerkleStore, n
<1> QED
  BY <1>1 DEF BuildInv, Building

(* The store is allocated with the leaves in its first slots, which are    *)
(* final.                                                                  *)
LEMMA AllocateInv == BuildInv /\ Allocate => BuildInv'
<1> SUFFICES ASSUME BuildInv, Allocate PROVE BuildInv'
  OBVIOUS
<1>1. /\ leaves' = leaves /\ atLeaves' = TRUE /\ offset' = 0 /\ cursor' = cursor
      /\ pc' = "level" /\ n > 1
      /\ leaves \in LeafRows /\ cursor \in [Workers -> Nat]
  BY DEF BuildInv, Allocate
<1>2. n' = n /\ pad' = pad
  BY <1>1 DEF n, pad
<1>3. LevelOK'
  BY <1>1, <1>2 DEF Allocate, LevelOK
<1>4. store' = [j \in 0..(pad' - 2) |-> store'[j]]
  <2>1. store' = [j \in 0..(pad - 2) |-> ZeroHash]
    BY DEF Allocate
  <2> QED
    BY <1>2, <2>1
<1>5. Dst(0)' = 0
  BY <1>1 DEF Dst
<1>6. \A j \in 0..(Dst(0)' - 1) : Final(j)'
  BY <1>5
<1> QED
  BY <1>1, <1>2, <1>3, <1>4, <1>6 DEF BuildInv, Building

(* Each goroutine starts at the first pair of its chunk: it has passed     *)
(* none.                                                                   *)
LEMMA StartParallelInv == BuildInv /\ StartParallel => BuildInv'
<1> SUFFICES ASSUME BuildInv, StartParallel PROVE BuildInv'
  OBVIOUS
<1>1. /\ UNCHANGED <<leaves, store, atLeaves, offset, size>>
      /\ pc = "level" /\ pc' = "parallel" /\ cursor' = [w \in Workers |-> Lo(w)]
  BY DEF StartParallel
<1>2. Building /\ Building'
  BY <1>1 DEF Building
<1>3. NumPairs \in Nat \ {0}
  BY <1>2, LevelBounds
<1>4. /\ n' = n /\ pad' = pad /\ LevelOK' = LevelOK /\ Dst(0)' = Dst(0)
      /\ \A w : Lo(w)' = Lo(w) /\ Hi(w)' = Hi(w)
      /\ Spawned' = Spawned
  BY <1>1, LevelFrame
<1>5. \A j : Final(j)' = Final(j)
  BY <1>1 DEF Final
<1>6. cursor' \in [Workers -> Nat]
  <2>1. \A w \in Workers : Lo(w) \in Nat
    <3> SUFFICES ASSUME NEW w \in Workers PROVE Lo(w) \in Nat
      OBVIOUS
    <3>1. NumCPU \in Nat \ {0} /\ w \in Nat
      BY BuildAssumption DEF Workers
    <3>2. NumPairs + NumCPU - 1 \in Nat
      BY <1>3, <3>1
    <3>3. Chunk \in Nat
      BY <3>1, <3>2, DivFacts DEF Chunk
    <3> QED
      BY <3>1, <3>3 DEF Lo
  <2> QED
    BY <1>1, <2>1
<1>7. ASSUME NEW w \in Spawned
      PROVE  cursor'[w] \in Lo(w)..Hi(w) /\ \A j \in Lo(w)..(cursor'[w] - 1) : Final(Dst(j))'
  <2>1. w \in Workers /\ cursor'[w] = Lo(w)
    BY <1>1 DEF Spawned
  <2>2. Lo(w) \in Nat /\ Hi(w) \in Nat /\ Lo(w) < Hi(w)
    BY <1>3, ChunkInLevel
  <2> QED
    BY <2>1, <2>2
<1>8. \A w \in Spawned' : /\ cursor'[w] \in Lo(w)'..Hi(w)'
                          /\ \A j \in Lo(w)'..(cursor'[w] - 1) : Final(Dst(j))'
  BY <1>4, <1>7
<1> QED
  BY <1>1, <1>2, <1>4, <1>5, <1>6, <1>8 DEF BuildInv

(* A level hashed by the main goroutine starts at pair 0.                  *)
LEMMA StartSerialInv == BuildInv /\ StartSerial => BuildInv'
<1> SUFFICES ASSUME BuildInv, StartSerial PROVE BuildInv'
  OBVIOUS
<1>1. /\ UNCHANGED <<leaves, store, atLeaves, offset, size>>
      /\ pc = "level" /\ pc' = "serial" /\ cursor' = [cursor EXCEPT ![0] = 0]
  BY DEF StartSerial
<1>2. Building /\ Building'
  BY <1>1 DEF Building
<1>3. NumPairs \in Nat \ {0}
  BY <1>2, LevelBounds
<1>4. n' = n /\ pad' = pad /\ LevelOK' = LevelOK /\ Dst(0)' = Dst(0) /\ NumPairs' = NumPairs
  BY <1>1, LevelFrame
<1>5. \A j : Final(j)' = Final(j)
  BY <1>1 DEF Final
<1>6. cursor' \in [Workers -> Nat] /\ cursor'[0] = 0
  <2>1. 0 \in Workers /\ cursor \in [Workers -> Nat]
    BY BuildAssumption DEF Workers, BuildInv
  <2> QED
    BY <1>1, <2>1
<1>7. cursor'[0] <= NumPairs' /\ \A j \in 0..(cursor'[0] - 1) : Final(Dst(j))'
  BY <1>3, <1>4, <1>6
<1> QED
  BY <1>1, <1>2, <1>4, <1>5, <1>6, <1>7 DEF BuildInv
(* What hashing one pair leaves of the invariant, whoever hashes it.       *)
LEMMA HashFrame ==
  ASSUME BuildInv, Building, NEW j \in 0..(NumPairs - 1), HashOne(j),
         UNCHANGED <<leaves, pc, atLeaves, offset, size>>
  PROVE  /\ leaves' \in LeafRows /\ atLeaves' \in BOOLEAN /\ Building' /\ pc' = pc
         /\ n' > 1 /\ LevelOK'
         /\ store' = [i \in 0..(pad' - 2) |-> store'[i]]
         /\ \A i \in 0..(Dst(0)' - 1) : Final(i)'
         /\ \A i \in 0..(NumPairs - 1) : Final(Dst(i)) => Final(Dst(i))'
         /\ Final(Dst(j))'
<1>1. /\ n' = n /\ pad' = pad /\ LevelOK' = LevelOK
      /\ \A i : Dst(i)' = Dst(i)
  BY LevelFrame
<1>2. /\ store' = [i \in 0..(pad - 2) |-> store'[i]]
      /\ store'[Dst(j)] = BuildMerkleStore(leaves)[Dst(j)]
      /\ \A i \in 0..(pad - 2) : Final(i) => store'[i] = BuildMerkleStore(leaves)[i]
  BY HashOneKeeps
<1>3. /\ pad \in Nat /\ NumPairs \in Nat \ {0}
      /\ \A i \in 0..(NumPairs - 1) : Dst(i) = Dst(0) + i /\ Dst(i) \in 0..(pad - 2)
      /\ Dst(0) + NumPairs <= pad - 1
  BY LevelBounds
<1>4. Dst(0) \in Nat /\ \A i \in 0..(Dst(0) - 1) : i \in 0..(pad - 2)
  BY <1>3
<1>5. \A i \in 0..(pad - 2) : Final(i) => Final(i)'
  BY <1>2 DEF Final
<1>6. \A i \in 0..(Dst(0) - 1) : Final(i)
  BY DEF BuildInv
<1>7. \A i \in 0..(Dst(0)' - 1) : Final(i)'
  BY <1>1, <1>4, <1>5, <1>6
<1>8. \A i \in 0..(NumPairs - 1) : Final(Dst(i)) => Final(Dst(i))'
  BY <1>1, <1>2, <1>3 DEF Final
<1>9. Final(Dst(j))'
  BY <1>1, <1>2 DEF Final
<1>10. leaves' \in LeafRows /\ atLeaves' \in BOOLEAN /\ n > 1 /\ LevelOK
  BY DEF BuildInv
<1> QED
  BY <1>1, <1>2, <1>7, <1>8, <1>9, <1>10 DEF Building

(* The caller hashes the next pair of a level.                             *)
LEMMA SerialHashInv == BuildInv /\ SerialHash => BuildInv'
<1> SUFFICES ASSUME BuildInv, SerialHash PROVE BuildInv'
  OBVIOUS
<1>0. 0 \in Workers /\ cursor \in [Workers -> Nat]
  BY BuildAssumption DEF Workers, BuildInv
<1> PICK c \in Nat : c = cursor[0]
  BY <1>0
<1>1. /\ pc = "serial" /\ UNCHANGED <<leaves, pc, atLeaves, offset, size>>
      /\ c < NumPairs /\ HashOne(c) /\ cursor' = [cursor EXCEPT ![0] = c + 1]
  BY DEF SerialHash
<1>2. Building
  BY <1>1 DEF Building
<1>3. NumPairs \in Nat \ {0}
  BY <1>2, LevelBounds
<1>5. c \in 0..(NumPairs - 1)
  BY <1>1, <1>3
<1>6. /\ leaves' \in LeafRows /\ atLeaves' \in BOOLEAN /\ Building' /\ pc' = pc
      /\ n' > 1 /\ LevelOK'
      /\ store' = [i \in 0..(pad' - 2) |-> store'[i]]
      /\ \A i \in 0..(Dst(0)' - 1) : Final(i)'
      /\ \A i \in 0..(NumPairs - 1) : Final(Dst(i)) => Final(Dst(i))'
      /\ Final(Dst(c))'
  BY <1>1, <1>2, <1>5, HashFrame
<1>7. cursor' \in [Workers -> Nat] /\ cursor'[0] = c + 1
  BY <1>0, <1>1
<1>8. \A i \in 0..(c - 1) : Final(Dst(i))
  BY <1>1 DEF BuildInv
<1>9. NumPairs' = NumPairs
  BY <1>1, LevelFrame
<1>10. cursor'[0] <= NumPairs' /\ \A i \in 0..(cursor'[0] - 1) : Final(Dst(i))'
  <2> SUFFICES ASSUME NEW i \in 0..c PROVE Final(Dst(i))'
    BY <1>1, <1>3, <1>5, <1>7, <1>9
  <2>1. CASE i = c
    BY <1>6, <2>1
  <2>2. CASE i # c
    <3>1. i \in 0..(c - 1) /\ i \in 0..(NumPairs - 1)
      BY <1>3, <1>5, <2>2
    <3> QED
      BY <1>6, <1>8, <3>1
  <2> QED
    BY <2>1, <2>2
<1> QED
  BY <1>1, <1>6, <1>7, <1>10 DEF BuildInv

(* A goroutine hashes the next pair of its chunk, whatever the others do.  *)
LEMMA WorkerHashInv == ASSUME BuildInv, NEW w \in Workers, WorkerHash(w) PROVE BuildInv'
<1>0. cursor \in [Workers -> Nat]
  BY DEF BuildInv
<1> PICK c \in Nat : c = cursor[w]
  BY <1>0
<1>1. /\ pc = "parallel" /\ UNCHANGED <<leaves, pc, atLeaves, offset, size>>
      /\ w \in Spawned /\ c < Hi(w) /\ HashOne(c) /\ cursor' = [cursor EXCEPT ![w] = c + 1]
  BY DEF WorkerHash
<1>2. Building
  BY <1>1 DEF Building
<1>3. NumPairs \in Nat \ {0}
  BY <1>2, LevelBounds
<1>4. Lo(w) \in Nat /\ Hi(w) \in Nat /\ Hi(w) <= NumPairs
  BY <1>1, <1>3, ChunkInLevel
<1>5. \A v \in Spawned : /\ cursor[v] \in Lo(v)..Hi(v)
                         /\ \A i \in Lo(v)..(cursor[v] - 1) : Final(Dst(i))
  BY <1>1 DEF BuildInv
<1>6. c \in 0..(NumPairs - 1) /\ c \in Lo(w)..Hi(w)
  BY <1>1, <1>3, <1>4, <1>5
<1>7. /\ leaves' \in LeafRows /\ atLeaves' \in BOOLEAN /\ Building' /\ pc' = pc
      /\ n' > 1 /\ LevelOK'
      /\ store' = [i \in 0..(pad' - 2) |-> store'[i]]
      /\ \A i \in 0..(Dst(0)' - 1) : Final(i)'
      /\ \A i \in 0..(NumPairs - 1) : Final(Dst(i)) => Final(Dst(i))'
      /\ Final(Dst(c))'
  BY <1>1, <1>2, <1>6, HashFrame
<1>8. /\ cursor' \in [Workers -> Nat] /\ cursor'[w] = c + 1
      /\ \A v \in Workers : v # w => cursor'[v] = cursor[v]
  BY <1>0, <1>1
<1>9. /\ Spawned' = Spawned
      /\ \A v : Lo(v)' = Lo(v) /\ Hi(v)' = Hi(v)
  BY <1>1, LevelFrame
<1>10. ASSUME NEW v \in Spawned
       PROVE  cursor'[v] \in Lo(v)..Hi(v) /\ \A i \in Lo(v)..(cursor'[v] - 1) : Final(Dst(i))'
  <2>1. CASE v = w
    <3>1. cursor'[v] \in Lo(v)..Hi(v)
      BY <1>1, <1>4, <1>6, <1>8, <2>1
    <3>2. ASSUME NEW i \in Lo(v)..(cursor'[v] - 1) PROVE Final(Dst(i))'
      <4>1. i \in Lo(w)..c /\ i \in 0..(NumPairs - 1)
        <5>1. i \in Lo(w)..((c + 1) - 1)
          BY <1>8, <2>1
        <5> QED
          BY <1>3, <1>4, <1>6, <5>1
      <4>2. CASE i = c
        BY <1>7, <4>2
      <4>3. CASE i # c
        <5>1. i \in Lo(w)..(c - 1)
          BY <1>4, <1>6, <4>1, <4>3
        <5>2. Final(Dst(i))
          BY <1>1, <1>5, <5>1
        <5> QED
          BY <1>7, <4>1, <5>2
      <4> QED
        BY <4>2, <4>3
    <3> QED
      BY <3>1, <3>2
  <2>2. CASE v # w
    <3>1. v \in Workers
      BY DEF Spawned
    <3>2. cursor'[v] = cursor[v]
      BY <1>8, <2>2, <3>1
    <3>3. Lo(v) \in Nat /\ Hi(v) \in Nat /\ Hi(v) <= NumPairs
      BY <1>3, ChunkInLevel
    <3>4. cursor[v] \in Lo(v)..Hi(v) /\ \A i \in Lo(v)..(cursor[v] - 1) : Final(Dst(i))
      BY <1>5
    <3>5. \A i \in Lo(v)..(cursor[v] - 1) : i \in 0..(NumPairs - 1)
      BY <1>3, <3>3, <3>4
    <3> QED
      BY <1>7, <3>2, <3>4, <3>5
  <2> QED
    BY <2>1, <2>2
<1>11. \A v \in Spawned' : /\ cursor'[v] \in Lo(v)'..Hi(v)'
                           /\ \A i \in Lo(v)'..(cursor'[v] - 1) : Final(Dst(i))'
  BY <1>9, <1>10
<1> QED
  BY <1>1, <1>7, <1>8, <1>11 DEF BuildInv
(* The level is hashed: its nodes are the next level's sources, or the     *)
(* store is complete.                                                      *)
LEMMA NextLevelInv == BuildInv /\ NextLevel => BuildInv'
<1> SUFFICES ASSUME BuildInv, NextLevel PROVE BuildInv'
  OBVIOUS
<1> DEFINE h == Log2Ceil(n)
           next == IF atLeaves THEN size ELSE size \div 2
<1>1. /\ LevelHashed /\ UNCHANGED <<leaves, store, cursor>> /\ atLeaves' = FALSE
      /\ size' = next /\ offset' = IF atLeaves THEN 0 ELSE offset + size
      /\ pc' = IF next > 1 THEN "level" ELSE "done"
  BY DEF NextLevel
<1>2. Building /\ \A j \in 0..(Dst(0) + NumPairs - 1) : Final(j)
  BY <1>1, LevelIsFinal
<1>3. /\ leaves \in LeafRows /\ cursor \in [Workers -> Nat] /\ n > 1 /\ LevelOK
      /\ atLeaves \in BOOLEAN
      /\ store = [j \in 0..(pad - 2) |-> store[j]]
  BY <1>2 DEF BuildInv
<1>4. n' = n /\ pad' = pad
  BY <1>1 DEF n, pad
<1>5. /\ h \in Nat \ {0}
      /\ pad = 2 * Pow2[h - 1] /\ pad \div 2 = Pow2[h - 1] /\ Pow2[h - 1] \in Nat \ {0}
      /\ BuildMerkleStore(leaves) = [j \in 0..(pad - 2) |-> BuildMerkleStore(leaves)[j]]
  BY <1>3, TreeSize
<1>6. /\ offset \in Nat /\ size \in Nat /\ pad \in Nat /\ NumPairs \in Nat \ {0}
      /\ atLeaves => NumPairs = pad \div 2 /\ Dst(0) = 0
      /\ ~atLeaves => size = 2 * NumPairs /\ offset = pad - 2 * size /\ Dst(0) = pad - size
  BY <1>2, LevelBounds
<1>7. next = NumPairs /\ offset' = pad - 2 * NumPairs /\ Dst(0) + NumPairs = pad - next
  <2>1. CASE atLeaves
    <3>1. size = pad \div 2 /\ pad = 2 * (pad \div 2)
      BY <1>3, <1>5, <2>1 DEF LevelOK
    <3> QED
      BY <1>1, <1>6, <2>1, <3>1
  <2>2. CASE ~atLeaves
    BY <1>1, <1>6, <2>2
  <2> QED
    BY <2>1, <2>2
<1>8. \E k \in 0..(h - 1) : NumPairs = Pow2[k]
  <2>1. CASE atLeaves
    <3>1. NumPairs = Pow2[h - 1] /\ h - 1 \in 0..(h - 1)
      BY <1>5, <1>6, <2>1
    <3> QED
      BY <3>1
  <2>2. CASE ~atLeaves
    <3>1. PICK k \in 1..(h - 1) : size = Pow2[k]
      BY <1>3, <2>2 DEF LevelOK
    <3>2. k - 1 \in Nat /\ (k - 1) + 1 = k /\ k - 1 \in 0..(h - 1)
      BY <1>5, <3>1
    <3>3. Pow2[k] = 2 * Pow2[k - 1] /\ Pow2[k - 1] \in Nat
      BY <3>2, Pow2Step, Pow2Type
    <3>4. NumPairs \in Nat /\ 2 * NumPairs = Pow2[k]
      BY <1>6, <2>2, <3>1
    <3>5. NumPairs = Pow2[k - 1]
      BY ONLY <3>3, <3>4
    <3> QED
      BY <3>2, <3>5
  <2> QED
    BY <2>1, <2>2
<1>9. \A j \in 0..(pad - NumPairs - 1) : Final(j)
  <2>1. Dst(0) + NumPairs - 1 = pad - NumPairs - 1
    <3>1. Dst(0) + NumPairs = pad - NumPairs
      BY <1>7
    <3> QED
      BY <1>6, <3>1
  <2> QED
    BY <1>2, <2>1
<1>10. CASE NumPairs > 1
  <2>1. pc' = "level"
    BY <1>1, <1>7, <1>10
  <2>2. LevelOK'
    <3>1. PICK k \in 0..(h - 1) : NumPairs = Pow2[k]
      BY <1>8
    <3>2. k \in 1..(h - 1)
      BY <1>5, <1>10, <3>1, Pow2Step
    <3>3. size' = Pow2[k] /\ offset' = pad - 2 * Pow2[k]
      BY <1>1, <1>7, <3>1
    <3>4. k \in 1..(Log2Ceil(n') - 1) /\ offset' = pad' - 2 * Pow2[k]
      BY <1>4, <3>2, <3>3
    <3> QED
      BY <1>1, <3>3, <3>4 DEF LevelOK
  <2>3. Dst(0)' = pad - NumPairs
    <3>1. Dst(0)' = offset' + size' + 0
      BY <1>1 DEF Dst
    <3>2. size' = NumPairs
      BY <1>1, <1>7
    <3> HIDE DEF next
    <3> QED
      BY <1>6, <1>7, <3>1, <3>2
  <2>4. \A j \in 0..(Dst(0)' - 1) : Final(j)'
    BY <1>1, <1>9, <2>3 DEF Final
  <2>5. store' = [j \in 0..(pad' - 2) |-> store'[j]]
    BY <1>1, <1>3, <1>4
  <2>6. n' > 1 /\ leaves' \in LeafRows /\ cursor' \in [Workers -> Nat] /\ atLeaves' \in BOOLEAN
    BY <1>1, <1>3, <1>4
  <2> QED
    BY <2>1, <2>2, <2>4, <2>5, <2>6 DEF BuildInv, Building
<1>11. CASE ~(NumPairs > 1)
  <2>1. pc' = "done" /\ NumPairs = 1
    BY <1>1, <1>6, <1>7, <1>11
  <2>2. \A j \in 0..(pad - 2) : store[j] = BuildMerkleStore(leaves)[j]
    BY <1>6, <1>9, <2>1 DEF Final
  <2>3. store = BuildMerkleStore(leaves)
    <3> DEFINE full == BuildMerkleStore(leaves)
    <3>1. full = [j \in 0..(pad - 2) |-> full[j]]
      BY <1>5
    <3> HIDE DEF full
    <3> QED
      BY <1>3, <2>2, <3>1 DEF full
  <2>4. leaves' \in LeafRows /\ cursor' \in [Workers -> Nat] /\ atLeaves' \in BOOLEAN
    BY <1>1, <1>3
  <2>5. store' = BuildMerkleStore(leaves')
    BY <1>1, <2>3
  <2> QED
    BY <2>1, <2>4, <2>5 DEF BuildInv, Building
<1> QED
  BY <1>10, <1>11

(* A step outside the build leaves the invariant alone.                    *)
LEMMA BuildStutter == BuildInv /\ UNCHANGED vars => BuildInv'
<1> SUFFICES ASSUME BuildInv, UNCHANGED vars PROVE BuildInv'
  OBVIOUS
<1>1. UNCHANGED <<leaves, pc, store, atLeaves, offset, size, cursor>>
  BY DEF vars
<1>2. /\ n' = n /\ pad' = pad /\ NumPairs' = NumPairs /\ LevelOK' = LevelOK
      /\ \A j : Dst(j)' = Dst(j)
      /\ \A w : Lo(w)' = Lo(w) /\ Hi(w)' = Hi(w)
      /\ Spawned' = Spawned
  BY <1>1, LevelFrame
<1>3. \A j : Final(j)' = Final(j)
  BY <1>1 DEF Final
<1>4. \A j : Final(Dst(j))' = Final(Dst(j))
  BY <1>1, <1>2 DEF Final
<1>5. Building' = Building
  BY <1>1 DEF Building
<1> QED
  BY <1>1, <1>2, <1>3, <1>4, <1>5 DEF BuildInv

(* Every step keeps the invariant.                                         *)
LEMMA BuildStep == BuildInv /\ [Next]_vars => BuildInv'
<1> SUFFICES ASSUME BuildInv, [Next]_vars PROVE BuildInv'
  OBVIOUS
<1>1. CASE ReturnSmall
  BY <1>1, ReturnSmallInv
<1>2. CASE Allocate
  BY <1>2, AllocateInv
<1>3. CASE StartParallel
  BY <1>3, StartParallelInv
<1>4. CASE StartSerial
  BY <1>4, StartSerialInv
<1>5. CASE SerialHash
  BY <1>5, SerialHashInv
<1>6. CASE \E w \in Workers : WorkerHash(w)
  BY <1>6, WorkerHashInv
<1>7. CASE NextLevel
  BY <1>7, NextLevelInv
<1>8. CASE UNCHANGED vars
  BY <1>8, BuildStutter
<1> QED
  BY <1>1, <1>2, <1>3, <1>4, <1>5, <1>6, <1>7, <1>8 DEF Next

(* BuildMerkleStore: what lies below the level being hashed is final, so   *)
(* are the slots its goroutines have passed, and the store returned is the *)
(* padded tree.                                                            *)
THEOREM BuildInvariant == Spec => []BuildInv
<1> QED
  BY InitInv, BuildStep, PTL DEF Spec

(* A tree of one leaf: no level above the leaf, which is also the store.   *)
LEMMA OneLeaf ==
  ASSUME leaves \in LeafRows, n = 1
  PROVE  /\ Log2Ceil(n) = 0
         /\ BuildMerkleStore(leaves) = leaves
         /\ DOMAIN leaves = {0}
         /\ PaddedLevel(leaves, 0)[0] = leaves[0]
<1>1. IsRow(leaves) /\ DOMAIN leaves = 0..(n - 1)
  BY LeavesAreRow, RowLength DEF n
<1>2. Log2Ceil(n) = 0
  <2>1. Log2Ceil(1) \in Nat /\ \A k \in 0..(Log2Ceil(1) - 1) : Pow2[k] < 1
    BY Log2CeilFacts
  <2>2. Log2Ceil(1) > 0 => Pow2[0] < 1
    BY <2>1
  <2> QED
    BY <2>1, <2>2, Pow2Step
<1>3. BuildMerkleStore(leaves) = leaves
  BY DEF BuildMerkleStore, n
<1>4. DOMAIN leaves = {0}
  BY <1>1
<1>5. PaddedLevel(leaves, 0)[0] = leaves[0]
  <2>1. Log2Ceil(Len0(leaves)) = 0
    BY <1>2 DEF n
  <2>2. PaddedRows(leaves)[0] = RowOf(leaves, PaddedRows(leaves), 0)
    BY <2>1, PaddedRowsDef
  <2>3. PaddedLevel(leaves, 0)[0] = PadLeaf(leaves, 0)
    BY <2>1, <2>2, Pow2Step DEF PaddedLevel, RowOf
  <2>4. PadLeaf(leaves, 0) = leaves[0]
    BY DEF PadLeaf, n
  <2> QED
    BY <2>3, <2>4
<1> QED
  BY <1>2, <1>3, <1>4, <1>5

(* The root is the last slot of the store, for every row that has a leaf.  *)
LEMMA RootIsTop ==
  ASSUME leaves \in LeafRows, n > 0, store = BuildMerkleStore(leaves)
  PROVE  /\ store[Len0(store) - 1] = MerkleRoot(leaves)
         /\ MerkleRoot(leaves) = PaddedLevel(leaves, Log2Ceil(n))[0]
<1>1. store[Len0(store) - 1] = MerkleRoot(leaves)
  BY DEF MerkleRoot
<1>2. IsRow(leaves) /\ n \in Nat
  BY LeavesAreRow
<1>3. CASE n = 1
  <2>1. MerkleRoot(leaves) = leaves[n - 1]
    BY <1>3, OneLeaf DEF MerkleRoot, n
  <2> QED
    BY <1>1, <1>3, <2>1, OneLeaf
<1>4. CASE n > 1
  <2> DEFINE h == Log2Ceil(n)
  <2>1. h \in Nat \ {0} /\ MerkleRoot(leaves) = Node(leaves, h, 0)
    BY <1>2, <1>4, TreeSize, RootNode DEF n
  <2>2. h \in 0..h /\ h - h = 0 /\ 0 \in 0..(Pow2[h - h] - 1)
    BY <2>1, Pow2Step
  <2>3. PaddedLevel(leaves, h)[0] = Node(leaves, h, 0)
    BY <1>2, <1>4, <2>2, StoreIsPaddedTree DEF n
  <2> QED
    BY <1>1, <2>1, <2>3
<1> QED
  BY <1>2, <1>3, <1>4

(* The invariant is what CompleteStore needs.                              *)
LEMMA InvCompleteStore == BuildInv => CompleteStore
<1> SUFFICES ASSUME BuildInv, pc = "done"
             PROVE  /\ store = BuildMerkleStore(leaves)
                    /\ n > 0 => store[Len0(store) - 1] = PaddedLevel(leaves, Log2Ceil(n))[0]
  BY DEF CompleteStore
<1>1. leaves \in LeafRows /\ store = BuildMerkleStore(leaves)
  BY DEF BuildInv
<1> QED
  BY <1>1, RootIsTop

(* "The root is always store[len(store)-1]" (subtree.go), of a store that  *)
(* is complete: for every row, every number of CPUs and every threshold,   *)
(* and every interleaving of the goroutines that fill a level.             *)
THEOREM CompleteStoreHolds == Spec => []CompleteStore
<1> QED
  BY BuildInvariant, InvCompleteStore, PTL

-----------------------------------------------------------------------------

(* A call is made once the store is built, for a leaf of the row, and its  *)
(* answer is the function's value: the row and the store stay as they are. *)
AnswerInv ==
  /\ op \in {"none", "single", "fromStore", "all"}
  /\ op # "none" => pc = "done" /\ index \in DOMAIN leaves
  /\ op = "single" => answer = GetMerkleProof(leaves, index)
  /\ op = "fromStore" => answer = GetProofFromStore(leaves, store, index)
  /\ op = "all" =>
       answer = [panic |-> GetAllProofs(leaves).panic,
                 proof |-> IF GetAllProofs(leaves).panic THEN << >>
                           ELSE GetAllProofs(leaves).proofs[index]]

(* Once a call has been made no step of the build is possible.             *)
LEMMA DoneStays == ASSUME pc = "done", Next PROVE FALSE
BY DEF Next, ReturnSmall, Allocate, StartParallel, StartSerial, SerialHash, WorkerHash,
   NextLevel, LevelHashed

(* What was asked last stays answered from the store that was built.       *)
LEMMA AnswerStep ==
  AnswerInv /\ [ProofsNext]_<<vars, asked>> => AnswerInv'
<1> SUFFICES ASSUME AnswerInv, [ProofsNext]_<<vars, asked>> PROVE AnswerInv'
  OBVIOUS
<1>1. CASE Next /\ UNCHANGED asked
  <2>1. op = "none"
    BY <1>1, DoneStays DEF AnswerInv
  <2> QED
    BY <1>1, <2>1 DEF AnswerInv, asked
<1>2. ASSUME NEW i \in DOMAIN leaves, AskSingle(i) PROVE AnswerInv'
  BY <1>2 DEF AnswerInv, AskSingle, Ask, vars
<1>3. ASSUME NEW i \in DOMAIN leaves, AskFromStore(i) PROVE AnswerInv'
  BY <1>3 DEF AnswerInv, AskFromStore, Ask, vars
<1>4. ASSUME NEW i \in DOMAIN leaves, AskAll(i) PROVE AnswerInv'
  BY <1>4 DEF AnswerInv, AskAll, Ask, vars
<1>5. CASE UNCHANGED <<vars, asked>>
  BY <1>5 DEF AnswerInv, vars, asked
<1> QED
  BY <1>1, <1>2, <1>3, <1>4, <1>5 DEF ProofsNext

(* Asking for a path changes nothing of the store.                         *)
LEMMA ProofsStep == BuildInv /\ [ProofsNext]_<<vars, asked>> => BuildInv'
<1> SUFFICES ASSUME BuildInv, [ProofsNext]_<<vars, asked>> PROVE BuildInv'
  OBVIOUS
<1>1. [Next]_vars
  BY DEF ProofsNext, AskSingle, AskFromStore, AskAll, Ask
<1> QED
  BY <1>1, BuildStep

(* The invariant of the build, followed by any calls of GetMerkleProof,    *)
(* GetProofFromStore and GetAllProofs.                                     *)
THEOREM ProofsInvariant == ProofsSpec => [](BuildInv /\ AnswerInv)
<1>1. ProofsInit => BuildInv /\ AnswerInv
  BY InitInv DEF ProofsInit, AnswerInv
<1> QED
  BY <1>1, ProofsStep, AnswerStep, PTL DEF ProofsSpec

(* What is read for a tree of one leaf and for a larger one.               *)
LEMMA AnswerFacts ==
  ASSUME BuildInv, AnswerInv, op # "none"
  PROVE  /\ leaves \in LeafRows /\ n \in Nat \ {0} /\ store = BuildMerkleStore(leaves)
         /\ index \in DOMAIN leaves
         /\ n = 1 => /\ op = "single" => ~answer.panic /\ answer.proof = << >>
                     /\ op # "single" => answer.panic
                     /\ ~GetMerkleProof(leaves, index).panic
         /\ n > 1 => /\ answer = GetMerkleProof(leaves, index)
                     /\ answer.proof = ProofFromStore(leaves, BuildMerkleStore(leaves), index, Log2Ceil(n))
<1>1. leaves \in LeafRows /\ store = BuildMerkleStore(leaves) /\ index \in DOMAIN leaves
  BY DEF BuildInv, AnswerInv
<1>2. IsRow(leaves) /\ n \in Nat /\ DOMAIN leaves = 0..(n - 1)
  BY <1>1, LeavesAreRow, RowLength DEF n
<1>3. n # 0
  BY <1>1, <1>2
<1>4. ASSUME n = 1
      PROVE  /\ op = "single" => ~answer.panic /\ answer.proof = << >>
             /\ op # "single" => answer.panic
             /\ ~GetMerkleProof(leaves, index).panic
  <2>1. Len0(leaves) = 1 /\ Log2Ceil(Len0(leaves)) = 0
    BY <1>1, <1>4, OneLeaf DEF n
  <2>2. GetMerkleProof(leaves, index) = [panic |-> FALSE, proof |-> << >>]
    BY <2>1 DEF GetMerkleProof
  <2>3. GetProofFromStore(leaves, store, index).panic
    BY <2>1 DEF GetProofFromStore, ProofPanics
  <2>4. GetAllProofs(leaves).panic
    <3>1. GetAllProofs(leaves).panic = (Len0(leaves) > 0 /\ ProofPanics(Log2Ceil(Len0(leaves))))
      BY DEF GetAllProofs
    <3>2. Len0(leaves) > 0 /\ ProofPanics(Log2Ceil(Len0(leaves)))
      BY <2>1 DEF ProofPanics
    <3> QED
      BY <3>1, <3>2, Zenon
  <2> QED
    BY <2>2, <2>3, <2>4 DEF AnswerInv
<1>5. ASSUME n > 1
      PROVE  /\ answer = GetMerkleProof(leaves, index)
             /\ answer.proof = ProofFromStore(leaves, BuildMerkleStore(leaves), index, Log2Ceil(n))
  <2> DEFINE h == Log2Ceil(Len0(leaves))
             path == ProofFromStore(leaves, BuildMerkleStore(leaves), index, h)
             good == [panic |-> FALSE, proof |-> path]
  <2>1. Len0(leaves) # 1 /\ Len0(leaves) > 0 /\ h # 0
    <3>1. n # 1 /\ n > 0 /\ Log2Ceil(n) # 0
      BY <1>1, <1>2, <1>5, TreeSize
    <3> QED
      BY <3>1 DEF n
  <2> HIDE DEF h
  <2>2. GetMerkleProof(leaves, index) = good
    BY <2>1 DEF GetMerkleProof, ProofPanics, h
  <2>3. GetProofFromStore(leaves, store, index) = good
    BY <1>1, <2>1 DEF GetProofFromStore, ProofPanics, h
  <2>4. GetAllProofs(leaves).panic = FALSE /\ GetAllProofs(leaves).proofs[index] = path
    BY <1>1, <2>1 DEF GetAllProofs, ProofPanics, h
  <2>5. answer = good
    BY <2>2, <2>3, <2>4 DEF AnswerInv
  <2> QED
    BY <2>2, <2>5 DEF n, h
<1> QED
  BY <1>1, <1>2, <1>3, <1>4, <1>5

(* PathsVerify, of a state in which the invariants hold.                   *)
LEMMA InvPathsVerify == BuildInv /\ AnswerInv => PathsVerify
<1> SUFFICES ASSUME BuildInv, AnswerInv, op # "none", ~answer.panic
             PROVE  /\ Len0(answer.proof) = Log2Ceil(Len0(leaves))
                    /\ RootFromPath(leaves[index], index, answer.proof) = store[Len0(store) - 1]
  BY DEF PathsVerify
<1>1. /\ leaves \in LeafRows /\ n \in Nat \ {0} /\ store = BuildMerkleStore(leaves)
      /\ index \in DOMAIN leaves
  BY AnswerFacts
<1>2. store[Len0(store) - 1] = MerkleRoot(leaves)
  BY DEF BuildInv, AnswerInv, MerkleRoot
<1>3. CASE n = 1
  <2>1. answer.proof = << >>
    BY <1>3, AnswerFacts
  <2>2. Len0(<< >>) = 0
    <3>1. DOMAIN << >> = {}
      OBVIOUS
    <3> QED
      BY <3>1, FS_EmptySet DEF Len0
  <2>3. DOMAIN leaves = {0} /\ Log2Ceil(Len0(leaves)) = 0 /\ store = leaves
    BY <1>1, <1>3, OneLeaf DEF n
  <2>4. index = 0 /\ store[Len0(store) - 1] = leaves[0]
    BY <1>1, <1>3, <2>3 DEF n
  <2>5. RootFromPath(leaves[index], index, << >>) = leaves[index]
    <3> DEFINE leaf == leaves[index]
               path == << >>
    <3>1. Len0(path) = 0
      BY <2>2
    <3> HIDE DEF leaf, path
    <3>2. PICK up : /\ \A k \in 0..Len0(path) : up[k] = UpOf(leaf, index, path, up, k)
                    /\ RootFromPath(leaf, index, path) = up[Len0(path)]
      BY <3>1, RootFromPathDef
    <3>3. RootFromPath(leaf, index, path) = leaf
      BY <3>1, <3>2 DEF UpOf
    <3> QED
      BY <3>3 DEF leaf, path
  <2> QED
    BY <2>1, <2>2, <2>3, <2>4, <2>5
<1>4. CASE n > 1
  <2> DEFINE path == answer.proof
  <2>1. path = ProofFromStore(leaves, BuildMerkleStore(leaves), index, Log2Ceil(Len0(leaves)))
    BY <1>4, AnswerFacts DEF n
  <2>2. IsRow(leaves) /\ Len0(leaves) > 1
    BY <1>1, <1>4, LeavesAreRow DEF n
  <2> HIDE DEF path
  <2>3. /\ Len0(path) = Log2Ceil(Len0(leaves))
        /\ RootFromPath(leaves[index], index, path) = MerkleRoot(leaves)
    BY <1>1, <2>1, <2>2, PathLeadsToRoot
  <2> QED
    BY <1>2, <2>3 DEF path
<1> QED
  BY <1>1, <1>3, <1>4

(* Every path the package hands out, for every row and every leaf, leads   *)
(* from the leaf to the root of the store the goroutines built.            *)
THEOREM PathsVerifyHolds == ProofsSpec => []PathsVerify
<1> QED
  BY ProofsInvariant, InvPathsVerify, PTL

(* BatchMatchesSingle, of a state in which the invariants hold.            *)
LEMMA InvBatchMatches == BuildInv /\ AnswerInv => BatchMatchesSingle
<1> SUFFICES ASSUME BuildInv, AnswerInv, op \in {"all", "fromStore"}
             PROVE  IF n = 1 THEN answer.panic /\ ~GetMerkleProof(leaves, index).panic
                    ELSE answer = GetMerkleProof(leaves, index)
  BY DEF BatchMatchesSingle
<1>1. op # "none" /\ op # "single"
  OBVIOUS
<1>2. n \in Nat \ {0}
  BY <1>1, AnswerFacts
<1>3. CASE n = 1
  BY <1>1, <1>3, AnswerFacts
<1>4. CASE n > 1
  BY <1>1, <1>4, AnswerFacts
<1> QED
  BY <1>2, <1>3, <1>4

(* "Batch proof generation matches single-proof generation" (README.md),   *)
(* for every row but that of one leaf, on which the batch calls panic.     *)
THEOREM BatchMatchesSingleHolds == ProofsSpec => []BatchMatchesSingle
<1> QED
  BY ProofsInvariant, InvBatchMatches, PTL

-----------------------------------------------------------------------------
(* The Bitcoin rule.                                                       *)

(* The same condition on the last leaf's index, as BitcoinRootIff and as   *)
(* BitcoinRootExactly put it.                                              *)
LEMMA GapIff ==
  ASSUME NEW last \in Nat, NEW H \in Nat \ {0}, Log2Ceil(last + 1) = H
  PROVE  (\A j \in 0..(H - 1) :
            Shift(last, j) % 2 = 1 \/ \A i \in 0..(j - 1) : Shift(last, i) % 2 = 0)
         <=> ~\E i, j \in 0..H :
                i < j /\ Shift(last, i) % 2 = 1 /\ Shift(last, j) % 2 = 0 /\ Shift(last, j) > 0
<1> DEFINE L == [k \in 0..H |-> Shift(last, k)]
<1>1. \A k \in 0..H : L[k] = Shift(last, k) /\ L[k] \in Nat
  <2>1. ASSUME NEW k \in 0..H PROVE Shift(last, k) \in Nat
    <3>1. k \in Nat
      OBVIOUS
    <3> QED
      BY <3>1, ShiftStep
  <2> QED
    BY <2>1
<1>2. ASSUME NEW k \in 0..(H - 1) PROVE L[k] > 0
  <2>1. Pow2[k] < last + 1
    BY Log2CeilFacts
  <2>2. PICK p \in Nat \ {0} : p = Pow2[k]
    BY Pow2Type
  <2>3. last < p * (last \div p) + p /\ last \div p \in Nat
    BY DivFacts
  <2>4. last \div p # 0
    BY <2>1, <2>2, <2>3
  <2>5. L[k] = last \div p
    BY <2>2 DEF Shift
  <2> QED
    BY <2>3, <2>4, <2>5
<1>3. L[H] = 0
  <2>1. Pow2[H] >= last + 1
    BY Log2CeilFacts
  <2>2. last < Pow2[H]
    BY <2>1, Pow2Type
  <2>3. Shift(last, H) \in 0..(Pow2[H - H] - 1)
    BY <2>2, ShiftBound
  <2>4. H - H = 0 /\ Pow2[0] = 1
    BY Pow2Step
  <2>5. Shift(last, H) = 0
    BY <2>3, <2>4
  <2> QED
    BY <2>5
<1>4. \A k \in 0..H : L[k] % 2 = 0 \/ L[k] % 2 = 1
  <2> HIDE DEF L
  <2> QED
    BY <1>1
<1> HIDE DEF L
<1>5. (\A j \in 0..(H - 1) : L[j] % 2 = 1 \/ \A i \in 0..(j - 1) : L[i] % 2 = 0)
      <=> ~\E i, j \in 0..H : i < j /\ L[i] % 2 = 1 /\ L[j] % 2 = 0 /\ L[j] > 0
  <2>1. ASSUME \A j \in 0..(H - 1) : L[j] % 2 = 1 \/ \A i \in 0..(j - 1) : L[i] % 2 = 0,
               NEW i \in 0..H, NEW j \in 0..H,
               i < j, L[i] % 2 = 1, L[j] % 2 = 0, L[j] > 0
        PROVE  FALSE
    <3>1. j \in 0..(H - 1) /\ i \in 0..(j - 1)
      BY <1>3, <2>1
    <3>2. L[j] % 2 # 1 /\ L[i] % 2 # 0
      BY <2>1
    <3> QED
      BY <2>1, <3>1, <3>2
  <2>2. ASSUME ~\E i, j \in 0..H : i < j /\ L[i] % 2 = 1 /\ L[j] % 2 = 0 /\ L[j] > 0,
               NEW j \in 0..(H - 1), L[j] % 2 # 1, NEW i \in 0..(j - 1)
        PROVE  L[i] % 2 = 0
    <3>1. i \in 0..H /\ j \in 0..H /\ i < j
      OBVIOUS
    <3>2. L[j] % 2 = 0 /\ L[j] > 0
      BY <1>2, <1>4, <2>2, <3>1
    <3> QED
      BY <1>4, <2>2, <3>1, <3>2
  <2> QED
    BY <2>1, <2>2
<1>6. \A j \in 0..(H - 1) : L[j] = Shift(last, j) /\ \A i \in 0..(j - 1) : L[i] = Shift(last, i)
  BY <1>1
<1> QED
  BY <1>1, <1>5, <1>6

(* No row has two leaves of the same hash.  Without this the roots of      *)
(* different trees can coincide, as over six copies of one leaf.           *)
DistinctLeaves ==
  \A row \in LeafRows : \A i, j \in DOMAIN row : row[i] = row[j] => i = j

(* BitcoinRootExactly, of a state in which the invariant holds.            *)
LEMMA InvBitcoin ==
  ASSUME DistinctLeaves, BuildInv
  PROVE  BitcoinRootExactly
<1> SUFFICES ASSUME pc = "done", n > 0 PROVE BitcoinRootExactly
  BY DEF BitcoinRootExactly
<1>1. leaves \in LeafRows /\ store = BuildMerkleStore(leaves)
  BY DEF BuildInv
<1>2. IsRow(leaves) /\ n \in Nat
  BY <1>1, LeavesAreRow
<1>0. PICK last \in Nat : n = last + 1
  <2>1. n - 1 \in Nat /\ n = (n - 1) + 1
    BY <1>2
  <2> QED
    BY <2>1
<1>3. PICK H : n = last + 1 /\ H = Log2Ceil(n)
  BY <1>0
<1> DEFINE gap == \E i, j \in 0..H :
                    i < j /\ Shift(last, i) % 2 = 1 /\ Shift(last, j) % 2 = 0 /\ Shift(last, j) > 0
<1>4. BitcoinRootExactly <=> (MerkleRoot(leaves) = BitcoinRoot(leaves) <=> ~gap)
  <2>1. n - 1 = last
    BY <1>3
  <2> QED
    BY <1>1, <1>3, <2>1 DEF BitcoinRootExactly, MerkleRoot
<1>5. CASE n = 1
  <2>1. H = 0 /\ BuildMerkleStore(leaves) = leaves /\ DOMAIN leaves = {0}
    BY <1>1, <1>3, <1>5, OneLeaf
  <2>2. ~gap
    BY <2>1
  <2>3. MerkleRoot(leaves) = leaves[0]
    BY <1>5, <2>1 DEF MerkleRoot, n
  <2>4. PICK row : row = leaves
    OBVIOUS
  <2>5. BitcoinRows(row)[0] = row
    <3>1. IsRow(row) /\ Len0(row) = 0 + 1 /\ Log2Ceil(0 + 1) = 0
      BY <1>2, <1>3, <1>5, <2>1, <2>4 DEF n
    <3>2. BitcoinLevels(BitcoinRows(row), row, 0, 0)
      BY <3>1, BitcoinShape
    <3> QED
      BY <3>2 DEF BitcoinLevels
  <2>6. BitcoinRoot(leaves) = leaves[0]
    BY <1>3, <2>1, <2>4, <2>5 DEF BitcoinRoot, n
  <2> QED
    BY <1>4, <2>2, <2>3, <2>6
<1>6. CASE n > 1
  <2>1. H \in Nat \ {0} /\ Log2Ceil(last + 1) = H
    BY <1>1, <1>3, <1>6, TreeSize
  <2>2. PICK row : row = leaves
    OBVIOUS
  <2>3. /\ IsRow(row) /\ Len0(row) > 1 /\ Len0(row) = last + 1
        /\ \A i, j \in DOMAIN row : row[i] = row[j] => i = j
    BY <1>1, <1>2, <1>3, <1>6, <2>2 DEF n, DistinctLeaves
  <2>4. MerkleRoot(row) = BitcoinRoot(row) <=>
          \A j \in 0..(H - 1) :
            Shift(last, j) % 2 = 1 \/ \A i \in 0..(j - 1) : Shift(last, i) % 2 = 0
    BY <2>1, <2>3, BitcoinRootIff
  <2>5. (\A j \in 0..(H - 1) :
           Shift(last, j) % 2 = 1 \/ \A i \in 0..(j - 1) : Shift(last, i) % 2 = 0)
        <=> ~gap
    BY <2>1, GapIff
  <2> QED
    BY <1>4, <2>2, <2>4, <2>5
<1> QED
  BY <1>2, <1>5, <1>6

(* Over rows without repeated leaves the root is Bitcoin's for exactly the *)
(* leaf counts that BitcoinRootExactly names, however many leaves there    *)
(* are and however the goroutines interleave.                              *)
THEOREM BitcoinRootExactlyHolds ==
  ASSUME DistinctLeaves
  PROVE  ProofsSpec => []BitcoinRootExactly
<1>1. BuildInv => BitcoinRootExactly
  BY InvBitcoin
<1> QED
  BY <1>1, ProofsInvariant, PTL
=============================================================================
