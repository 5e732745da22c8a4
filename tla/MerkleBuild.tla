----------------------------- MODULE MerkleBuild ----------------------------
(***************************************************************************)
(* BuildMerkleStore as it runs: level by level, each level either by the   *)
(* calling goroutine or, when it has at least Threshold pairs, by up to    *)
(* NumCPU goroutines that own a contiguous chunk of pairs each and meet at *)
(* a WaitGroup before the next level is started.                           *)
(*                                                                         *)
(* One action hashes one pair, so the writes of the goroutines interleave  *)
(* in every order.                                                         *)
(***************************************************************************)
EXTENDS MerkleTree

CONSTANTS
  LeafRows,   \* the rows of leaf hashes to build from, functions on 0..n-1
  NumCPU,     \* runtime.NumCPU()
  Threshold   \* parallelThreshold

ASSUME BuildAssumption ==
  /\ NumCPU \in Nat \ {0}
  /\ Threshold \in Nat \ {0}
  /\ \A row \in LeafRows : IsRow(row)

VARIABLES
  leaves,   \* the argument
  pc,       \* "start", "level" (choose how to hash it), "serial", "parallel", "done"
  store,    \* the slots, ZeroHash until written
  atLeaves, \* the level being hashed reads the leaves
  offset,   \* start of the level being read (once atLeaves is FALSE)
  size,     \* its number of nodes
  cursor    \* cursor[w]: next pair goroutine w hashes; 0 is the caller when serial

vars == <<leaves, pc, store, atLeaves, offset, size, cursor>>

Workers == 0..(NumCPU - 1)

n   == Len0(leaves)
pad == NextPowerOfTwo(n)

(* Pairs of the level being hashed: pad / 2 of leaves, size / 2 above.     *)
NumPairs == IF atLeaves THEN pad \div 2 ELSE size \div 2

Chunk == (NumPairs + NumCPU - 1) \div NumCPU

Lo(w) == w * Chunk

Hi(w) == IF Lo(w) + Chunk > NumPairs THEN NumPairs ELSE Lo(w) + Chunk

(* Goroutines are spawned in order until one would get no pair.            *)
Spawned == {w \in Workers : Lo(w) < Hi(w)}

Dst(j) == IF atLeaves THEN j ELSE offset + size + j

Src(i) == IF atLeaves THEN PadLeaf(leaves, i) ELSE store[offset + i]

HashOne(j) == store' = [store EXCEPT ![Dst(j)] = HashPair(Src(2 * j), Src(2 * j + 1))]

-----------------------------------------------------------------------------
Init ==
  /\ leaves \in LeafRows
  /\ pc = "start"
  /\ store = << >>
  /\ atLeaves = TRUE
  /\ offset = 0
  /\ size = 0
  /\ cursor = [w \in Workers |-> 0]

(* No leaf: nil.  One leaf: the store is that leaf.                        *)
ReturnSmall ==
  /\ pc = "start"
  /\ n <= 1
  /\ store' = leaves
  /\ pc' = "done"
  /\ UNCHANGED <<leaves, atLeaves, offset, size, cursor>>

Allocate ==
  /\ pc = "start"
  /\ n > 1
  /\ store' = [j \in 0..(pad - 2) |-> ZeroHash]
  /\ size' = pad \div 2
  /\ pc' = "level"
  /\ UNCHANGED <<leaves, atLeaves, offset, cursor>>

StartParallel ==
  /\ pc = "level"
  /\ NumPairs >= Threshold /\ NumCPU > 1
  /\ cursor' = [w \in Workers |-> Lo(w)]
  /\ pc' = "parallel"
  /\ UNCHANGED <<leaves, store, atLeaves, offset, size>>

StartSerial ==
  /\ pc = "level"
  /\ ~(NumPairs >= Threshold /\ NumCPU > 1)
  /\ cursor' = [cursor EXCEPT ![0] = 0]
  /\ pc' = "serial"
  /\ UNCHANGED <<leaves, store, atLeaves, offset, size>>

SerialHash ==
  /\ pc = "serial"
  /\ cursor[0] < NumPairs
  /\ HashOne(cursor[0])
  /\ cursor' = [cursor EXCEPT ![0] = @ + 1]
  /\ UNCHANGED <<leaves, pc, atLeaves, offset, size>>

WorkerHash(w) ==
  /\ pc = "parallel"
  /\ w \in Spawned
  /\ cursor[w] < Hi(w)
  /\ HashOne(cursor[w])
  /\ cursor' = [cursor EXCEPT ![w] = @ + 1]
  /\ UNCHANGED <<leaves, pc, atLeaves, offset, size>>

(* A mutant of LevelHashed: the caller does not wait for the last          *)
(* goroutine, as when wg.Add is off by one.                                *)
LevelHashed_OneShort ==
  \/ pc = "serial" /\ cursor[0] = NumPairs
  \/ /\ pc = "parallel"
     /\ \A w \in Spawned : cursor[w] = Hi(w) \/ (w > 0 /\ w + 1 \notin Spawned)

(* A mutant of LevelHashed: the wait group is entered for every CPU before *)
(* it is known which goroutines get a pair.                                *)
LevelHashed_AllCPUs ==
  \/ pc = "serial" /\ cursor[0] = NumPairs
  \/ pc = "parallel" /\ \A w \in Workers : w \in Spawned /\ cursor[w] = Hi(w)

(* The serial loop has ended, or wg.Wait() returns.                        *)
LevelHashed ==
  \/ pc = "serial" /\ cursor[0] = NumPairs
  \/ pc = "parallel" /\ \A w \in Spawned : cursor[w] = Hi(w)

(* After the leaf level the loop starts at offset 0 with pad/2 nodes; after *)
(* any other one it moves on by size.  It goes on while size > 1.          *)
NextLevel ==
  /\ LevelHashed
  /\ LET nextSize == IF atLeaves THEN size ELSE size \div 2
     IN /\ size' = nextSize
        /\ offset' = IF atLeaves THEN 0 ELSE offset + size
        /\ pc' = IF nextSize > 1 THEN "level" ELSE "done"
  /\ atLeaves' = FALSE
  /\ UNCHANGED <<leaves, store, cursor>>

Next ==
  \/ ReturnSmall \/ Allocate \/ StartParallel \/ StartSerial \/ SerialHash
  \/ \E w \in Workers : WorkerHash(w)
  \/ NextLevel

(* Every goroutine that can run does run: the Go scheduler is preemptive.  *)
Fairness ==
  /\ WF_vars(ReturnSmall \/ Allocate \/ StartParallel \/ StartSerial \/ SerialHash \/ NextLevel)
  /\ \A w \in Workers : WF_vars(WorkerHash(w))

Spec == Init /\ [][Next]_vars /\ Fairness

-----------------------------------------------------------------------------

(* At the end the store is complete and its last slot is the root of the   *)
(* padded tree, whatever the number of goroutines ("The root is always     *)
(* store[len(store)-1]").                                                  *)
CompleteStore ==
  pc = "done" =>
    /\ store = BuildMerkleStore(leaves)
    /\ n > 0 => store[Len0(store) - 1] = PaddedLevel(leaves, Log2Ceil(n))[0]

(* The barriers never wait for a goroutine that was not spawned or has     *)
(* already returned: the build ends.                                       *)
BuildEnds == <>(pc = "done")
=============================================================================
