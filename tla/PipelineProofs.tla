--------------------------- MODULE PipelineProofs ---------------------------
(***************************************************************************)
(* Proofs about Pipeline, for any number of miners, subtrees, leaves,      *)
(* businesses, swaps, runs and failures; about BlockBumps, which assembles *)
(* BUMPs from the fragments Pipeline hands over; and about HarnessConfig,  *)
(* which decides what Pipeline is run with.                                *)
(***************************************************************************)
EXTENDS PipelineInv, BlockBumps, HarnessConfig, MerkleTreeProofs

(***************************************************************************)
(* Arithmetic of leaf numbers.                                             *)
(***************************************************************************)

(* Leaf li of subtree s has a number inside the block.                     *)
LEMMA NumberInBlock ==
  ASSUME NEW s \in Subtrees, NEW li \in LocalIdxs
  PROVE  NumberOf(s, li) \in TxNumbers
<1> DEFINE H == HashesPerSubtree
<1>1. H \in Nat /\ H > 1 /\ NumSubtrees \in Nat
  BY ShapeAssumption
<1>2. s \in Nat /\ s + 1 <= NumSubtrees /\ li \in Nat /\ li < H
  BY <1>1 DEF Subtrees, LocalIdxs
<1>3. s * H \in Nat /\ NumSubtrees * H \in Nat /\ s * H + H <= NumSubtrees * H
  <2>1. \A a, b, c \in Nat : a + 1 <= b => a * c + c <= b * c
    BY Z3
  <2>2. \A a, b \in Nat : a * b \in Nat
    BY Z3
  <2> QED BY <1>1, <1>2, <2>1, <2>2
<1> QED BY <1>1, <1>2, <1>3 DEF NumberOf, TxNumbers, NumTxids

(* Every number of the block is that of some leaf of some subtree.         *)
LEMMA NumberSplits ==
  ASSUME NEW k \in TxNumbers
  PROVE  \E s \in Subtrees, li \in LocalIdxs : k = NumberOf(s, li)
<1> DEFINE H == HashesPerSubtree
           q == k \div H
           r == k % H
<1>1. H \in Nat /\ H > 1 /\ NumSubtrees \in Nat
  BY ShapeAssumption
<1>2. k \in Nat /\ k < NumSubtrees * H
  BY <1>1 DEF TxNumbers, NumTxids
<1>3. q \in Nat /\ r \in 0..(H - 1) /\ k = H * q + r
  BY <1>1, <1>2, Z3
<1>4. q < NumSubtrees
  <2>1. SUFFICES ASSUME NumSubtrees <= q PROVE FALSE
    BY <1>1, <1>3
  <2>2. \A a, b, c \in Nat : a <= b => a * c <= c * b
    BY Z3
  <2> HIDE DEF q, r
  <2>3. NumSubtrees * H <= H * q
    BY <1>1, <1>3, <2>1, <2>2
  <2>4. H * q \in Nat
    BY <1>1, <1>3, Z3
  <2> QED BY <1>1, <1>2, <1>3, <2>3, <2>4
<1> HIDE DEF q, r
<1>5. q * H = H * q
  BY <1>1, <1>3, Z3
<1>6. k = NumberOf(q, r) /\ q \in Subtrees /\ r \in LocalIdxs
  BY <1>1, <1>3, <1>4, <1>5 DEF NumberOf, Subtrees, LocalIdxs
<1> QED BY <1>6

(* Only leaf 0 of subtree 0 has number 0.                                  *)
LEMMA NumberZero ==
  ASSUME NEW s \in Subtrees, NEW li \in LocalIdxs, NumberOf(s, li) = 0
  PROVE  s = 0 /\ li = 0
<1>1. HashesPerSubtree \in Nat /\ HashesPerSubtree > 1 /\ s \in Nat /\ li \in Nat
  BY ShapeAssumption DEF Subtrees, LocalIdxs
<1>2. \A a, b, c \in Nat : b > 1 /\ a * b + c = 0 => a = 0 /\ c = 0
  BY Z3
<1> QED BY <1>1, <1>2 DEF NumberOf

(***************************************************************************)
(* Type correctness.                                                       *)
(***************************************************************************)

(* There is a miner, a subtree, a leaf and a txid 0.                       *)
LEMMA ZeroIsFirst == 0 \in Miners /\ 0 \in Subtrees /\ 0 \in LocalIdxs /\ 0 \in TxNumbers
<1>1. 0 \in Miners /\ 0 \in Subtrees /\ 0 \in LocalIdxs
  BY PipelineAssumption, ShapeAssumption DEF Miners, Subtrees, LocalIdxs
<1>2. NumberOf(0, 0) = 0
  BY ShapeAssumption DEF NumberOf
<1> QED BY <1>1, <1>2, NumberInBlock

(* The number of the coinbase is that of no txid.                          *)
LEMMA HashNumbersKnown ==
  /\ NumTxids \in Nat
  /\ NumTxids \in HashNumbers
  /\ NumTxids \notin TxNumbers
  /\ TxNumbers \subseteq HashNumbers
<1>1. NumTxids \in Nat
  BY ShapeAssumption, Z3 DEF NumTxids
<1> QED BY <1>1 DEF HashNumbers, TxNumbers

(* The canonical order of a subtree is an ordering.                        *)
LEMMA CanonicalType ==
  ASSUME TypeOK, NEW s \in Subtrees
  PROVE  Canonical(s) \in Orderings
BY NumberInBlock, HashNumbersKnown
   DEF TypeOK, Canonical, Orderings, Txid, Hashes

(* A swap of two neighbours keeps an ordering an ordering.                 *)
LEMMA SwapType ==
  ASSUME NEW row \in Orderings, NEW pos \in 0..(HashesPerSubtree - 2)
  PROVE  /\ pos \in LocalIdxs /\ pos + 1 \in LocalIdxs
         /\ Swap(row, pos) \in Orderings
<1>1. pos \in LocalIdxs /\ pos + 1 \in LocalIdxs
  BY ShapeAssumption DEF LocalIdxs
<1> QED BY <1>1 DEF Swap, Orderings

(* The coinbase replacement keeps an ordering an ordering.                 *)
LEMMA ReplaceType ==
  ASSUME TypeOK, NEW row \in Orderings
  PROVE  ReplaceCoinbase(row) \in Orderings
BY HashNumbersKnown DEF TypeOK, ReplaceCoinbase, Orderings, Coinbase, Txid, Hashes

(* What a new process holds in memory.                                     *)
LEMMA EmptyTypes ==
  /\ NoSubs \in [Miners -> Orderings \cup {NoLeaves}]
  /\ NoRoots \in [Miners -> [Subtrees -> Orderings \cup {NoLeaves}]]
  /\ NoIndex \in [Miners -> [Businesses -> [Subtrees -> SUBSET LocalIdxs]]]
  /\ NoBumps \in [Businesses -> [Subtrees -> Fragments]]
  /\ NoFragment \in Fragments
  /\ [k \in HashNumbers |-> 0] \in [HashNumbers -> Businesses]
  /\ [m \in Miners |-> 0] \in [Miners -> Nat]
<1>1. NoFragment \in Fragments
  BY DEF NoFragment, Fragments
<1>2. NoBumps \in [Businesses -> [Subtrees -> Fragments]]
  BY <1>1 DEF NoBumps, EmptyBump
<1>3. 0 \in Businesses
  BY PipelineAssumption DEF Businesses
<1> QED BY <1>1, <1>2, <1>3 DEF NoSubs, NoRoots, NoIndex

(* The type invariant holds of a new process.                              *)
LEMMA InitType == Init => TypeOK
<1> SUFFICES ASSUME Init PROVE TypeOK
  OBVIOUS
<1>1. run \in 1..MaxRuns /\ si \in 0..NumSubtrees
  BY PipelineAssumption, ShapeAssumption DEF Init
<1>2. diskFrags \in [Miners -> [Businesses -> [Subtrees -> Fragments]]]
  BY EmptyTypes DEF Init
<1>3. \A m \in Miners : ~(swapsLeft[m] > 0)
  BY DEF Init
<1> QED BY <1>1, <1>2, <1>3, EmptyTypes, ZeroIsFirst DEF Init, TypeOK, Phases, Sealing

(* A subtree is started with canonical orderings.                          *)
LEMMA StartType ==
  ASSUME TypeOK, NEW s \in Subtrees, StartSubtree(s)
  PROVE  /\ pc' \in Phases /\ si' \in 0..NumSubtrees /\ si' \in Subtrees /\ mi' \in Miners
         /\ minerSubs' \in [Miners -> Orderings]
         /\ swapsLeft' \in [Miners -> Nat]
BY CanonicalType, PipelineAssumption, ShapeAssumption, ZeroIsFirst
  DEF StartSubtree, Phases, Subtrees

(* A disk operation succeeds or its failure is logged.                     *)
LEMMA OutcomeType ==
  ASSUME TypeOK, Failure \/ NoFailure
  PROVE  logged' \in BOOLEAN /\ failures' \in Nat
<1>1. logged' \in BOOLEAN
  BY Zenon DEF TypeOK, Failure, NoFailure
<1>2. failures' \in Nat
  BY DEF TypeOK, Failure, NoFailure
<1> QED BY <1>1, <1>2

(* A fragment is written, or the rest of the batch is lost.                *)
LEMMA WriteType ==
  ASSUME TypeOK, NEW m \in Miners, NEW s \in Subtrees,
         NEW row \in Orderings \cup {NoLeaves}, WriteFragment(m, s, row)
  PROVE  /\ batch' \in SUBSET Businesses
         /\ logged' \in BOOLEAN /\ failures' \in Nat
         /\ diskFrags' \in [Miners -> [Businesses -> [Subtrees -> Fragments]]]
<1>1. ASSUME NEW t \in batch,
             diskFrags' = [diskFrags EXCEPT ![m][t][s] =
               [leaves |-> row, idxs |-> minerTokenIdx[m][t][s]]]
      PROVE  diskFrags' \in [Miners -> [Businesses -> [Subtrees -> Fragments]]]
  <2>1. t \in Businesses
    BY DEF TypeOK
  <2>2. minerTokenIdx[m][t][s] \in SUBSET LocalIdxs
    BY <2>1 DEF TypeOK
  <2>3. [leaves |-> row, idxs |-> minerTokenIdx[m][t][s]] \in Fragments
    BY <2>2 DEF Fragments
  <2>4. diskFrags \in [Miners -> [Businesses -> [Subtrees -> Fragments]]]
    BY DEF TypeOK
  <2> HIDE DEF Fragments
  <2> QED BY <1>1, <2>1, <2>3, <2>4
<1>2. Failure \/ NoFailure
  BY DEF WriteFragment
<1>3. batch' \in SUBSET Businesses
  BY DEF WriteFragment, TypeOK
<1>4. diskFrags' \in [Miners -> [Businesses -> [Subtrees -> Fragments]]]
  BY <1>1 DEF WriteFragment, TypeOK
<1> QED BY <1>2, <1>3, <1>4, OutcomeType

(* A save, whether it fails or not, keeps the types.                       *)
LEMMA SaveType ==
  ASSUME TypeOK, NEW m \in Miners, NEW s \in Subtrees,
         NEW row \in Orderings \cup {NoLeaves}, SaveSub(m, s, row)
  PROVE  /\ logged' \in BOOLEAN /\ failures' \in Nat
         /\ diskSubs' \in [Miners -> [Subtrees -> Orderings \cup {NoLeaves}]]
<1>1. diskSubs \in [Miners -> [Subtrees -> Orderings \cup {NoLeaves}]]
  BY DEF TypeOK
<1>2. Failure \/ NoFailure
  BY DEF SaveSub
<1>3. diskSubs' \in [Miners -> [Subtrees -> Orderings \cup {NoLeaves}]]
  BY <1>1 DEF SaveSub
<1> QED BY <1>2, <1>3, OutcomeType

(* Every step of the program, a kill and a restart preserve it.            *)
LEMMA StepType == TypeOK /\ [Next]_vars => TypeOK'
<1> SUFFICES ASSUME TypeOK, [Next]_vars PROVE TypeOK'
  OBVIOUS
<1> USE DEF Phases, Sealing, memory, disk, Failure, NoFailure
<1>1. CASE Generate
  <2>1. tokenOf' \in [HashNumbers -> Businesses]
    BY <1>1, PipelineAssumption DEF Generate
  <2> QED BY <1>1, <2>1, StartType, ZeroIsFirst DEF Generate, TypeOK
<1>2. ASSUME NEW m \in Miners, JitterSwap(m) PROVE TypeOK'
  <2>1. PICK pos \in 0..(HashesPerSubtree - 2) :
          minerSubs' = [minerSubs EXCEPT ![m] = Swap(minerSubs[m], pos)]
    BY <1>2 DEF JitterSwap
  <2>2. Swap(minerSubs[m], pos) \in Orderings
    BY <1>2, SwapType DEF TypeOK, JitterSwap
  <2>3. /\ minerSubs' \in [Miners -> Orderings \cup {NoLeaves}]
        /\ minerSubs \in [Miners -> Orderings] => minerSubs' \in [Miners -> Orderings]
        /\ \A n \in Miners : swapsLeft'[n] > 0 => minerSubs'[n] \in Orderings
    BY <1>2, <2>1, <2>2 DEF TypeOK, JitterSwap
  <2>4. swapsLeft' \in [Miners -> Nat]
    BY <1>2 DEF JitterSwap, TypeOK
  <2> QED BY <1>2, <2>3, <2>4 DEF JitterSwap, TypeOK
<1>3. CASE SubtreesBuilt
  BY <1>3 DEF SubtreesBuilt, TypeOK
<1>4. CASE SaveMiner
  <2>1. mi \in Miners /\ si \in Subtrees /\ minerSubs \in [Miners -> Orderings]
    BY <1>4 DEF SaveMiner, TypeOK
  <2>2. minerRoots' \in [Miners -> [Subtrees -> Orderings \cup {NoLeaves}]]
    BY <1>4, <2>1 DEF SaveMiner, TypeOK
  <2>3. mi' \in Miners /\ pc' \in {"save", "index"}
    BY <1>4, <2>1, ZeroIsFirst, PipelineAssumption DEF SaveMiner, Miners
  <2>4. /\ logged' \in BOOLEAN /\ failures' \in Nat
        /\ diskSubs' \in [Miners -> [Subtrees -> Orderings \cup {NoLeaves}]]
    BY <1>4, <2>1, SaveType DEF SaveMiner
  <2> QED BY <1>4, <2>1, <2>2, <2>3, <2>4 DEF SaveMiner, TypeOK
<1>5. CASE IndexMiner
  <2>1. mi \in Miners /\ si \in Subtrees
    BY <1>5 DEF IndexMiner, TypeOK
  <2>2. \A t \in Businesses :
          [minerTokenIdx[mi][t] EXCEPT ![si] =
             minerTokenIdx[mi][t][si] \cup PositionsOf(minerSubs[mi], t)]
            \in [Subtrees -> SUBSET LocalIdxs]
    BY <2>1 DEF TypeOK, PositionsOf
  <2>3. minerTokenIdx' \in [Miners -> [Businesses -> [Subtrees -> SUBSET LocalIdxs]]]
    BY <1>5, <2>1, <2>2 DEF IndexMiner, TypeOK
  <2>4. batch' \in SUBSET Businesses
    BY <1>5 DEF IndexMiner, TokensIn
  <2> QED BY <1>5, <2>3, <2>4 DEF IndexMiner, TypeOK
<1>6. CASE FlushFragment
  <2>1. mi \in Miners /\ si \in Subtrees /\ minerSubs[mi] \in Orderings
    BY <1>6 DEF FlushFragment, TypeOK
  <2>2. WriteFragment(mi, si, minerSubs[mi])
    BY <1>6 DEF FlushFragment
  <2> QED BY <1>6, <2>1, <2>2, WriteType DEF FlushFragment, TypeOK
<1>7. CASE MinerSealed
  <2>1. mi \in Miners /\ si \in Subtrees
    BY <1>7 DEF MinerSealed, TypeOK
  <2>2. CASE mi + 1 < NumMiners
    <3>1. mi' \in Miners
      BY <1>7, <2>1, <2>2, PipelineAssumption DEF MinerSealed, Miners
    <3> QED BY <1>7, <2>2, <3>1 DEF MinerSealed, TypeOK
  <2>3. CASE ~(mi + 1 < NumMiners) /\ si + 1 < NumSubtrees
    <3>1. si + 1 \in Subtrees
      BY <2>1, <2>3, ShapeAssumption DEF Subtrees
    <3> QED BY <1>7, <2>3, <3>1, StartType DEF MinerSealed, TypeOK
  <2>4. CASE ~(mi + 1 < NumMiners) /\ ~(si + 1 < NumSubtrees)
    BY <1>7, <2>4, ZeroIsFirst, PipelineAssumption, ShapeAssumption DEF MinerSealed, TypeOK
  <2> QED BY <2>2, <2>3, <2>4
<1>8. CASE SelectWinner
  BY <1>8 DEF SelectWinner, TypeOK
<1>9. CASE LoadAndReplace
  <2>1. winner \in Miners /\ diskSubs[winner][0] \in Orderings
    BY <1>9, ZeroIsFirst DEF LoadAndReplace, TypeOK
  <2>2. leaves' \in Orderings
    BY <1>9, <2>1, ReplaceType DEF LoadAndReplace
  <2>3. minerRoots' \in [Miners -> [Subtrees -> Orderings \cup {NoLeaves}]]
    BY <1>9, <2>1, <2>2, ZeroIsFirst DEF LoadAndReplace, TypeOK
  <2> QED BY <1>9, <2>2, <2>3 DEF LoadAndReplace, TypeOK
<1>10. CASE LoadFails
  <2>1. logged' \in BOOLEAN
    BY <1>10, Zenon DEF LoadFails, TypeOK
  <2>2. failures' \in Nat
    BY <1>10 DEF LoadFails, TypeOK
  <2> QED BY <1>10, <2>1, <2>2 DEF LoadFails, TypeOK
<1>11. CASE Resave
  <2>1. /\ logged' \in BOOLEAN /\ failures' \in Nat
        /\ diskSubs' \in [Miners -> [Subtrees -> Orderings \cup {NoLeaves}]]
    BY <1>11, ZeroIsFirst, SaveType DEF Resave, TypeOK
  <2>2. batch' \in SUBSET Businesses
    BY <1>11 DEF Resave, TokensIn
  <2> QED BY <1>11, <2>1, <2>2 DEF Resave, TypeOK
<1>12. CASE ReflushFragment
  <2>1. WriteFragment(winner, 0, leaves) /\ winner \in Miners
    BY <1>12 DEF ReflushFragment, TypeOK
  <2>2. leaves \in Orderings \cup {NoLeaves}
    BY DEF TypeOK
  <2> QED BY <1>12, <2>1, <2>2, ZeroIsFirst, WriteType DEF ReflushFragment, TypeOK
<1>13. CASE BlockFinalized
  BY <1>13 DEF BlockFinalized, TypeOK
<1>14. ASSUME NEW t \in Businesses, ProcessToken(t) PROVE TypeOK'
  <2>1. bumps' \in [Businesses -> [Subtrees -> Fragments]]
    <3>1. PICK unread \in SUBSET Present(t) :
            bumps' = [bumps EXCEPT ![t] =
              [s \in Subtrees |-> IF s \in Present(t) \ unread THEN diskFrags[winner][t][s]
                                  ELSE NoFragment]]
      BY <1>14 DEF ProcessToken
    <3>2. \A s \in Subtrees : diskFrags[winner][t][s] \in Fragments
      BY DEF TypeOK
    <3> QED BY <3>1, <3>2, EmptyTypes DEF TypeOK
  <2>2. logged' \in BOOLEAN /\ failures' \in Nat
    BY <1>14, OutcomeType DEF ProcessToken
  <2> QED BY <1>14, <2>1, <2>2 DEF ProcessToken, TypeOK
<1>15. CASE AllProcessed
  BY <1>15 DEF AllProcessed, TypeOK
<1>16. CASE Kill
  BY <1>16 DEF Kill, TypeOK
<1>17. CASE Restart
  <2>1. run' \in 1..MaxRuns /\ si' \in 0..NumSubtrees
    BY <1>17, PipelineAssumption, ShapeAssumption DEF Restart, TypeOK
  <2>2. \A m \in Miners : ~(swapsLeft'[m] > 0)
    BY <1>17 DEF Restart
  <2> QED BY <1>17, <2>1, <2>2, EmptyTypes, ZeroIsFirst DEF Restart, TypeOK
<1>18. CASE UNCHANGED vars
  BY <1>18 DEF vars, TypeOK
<1> QED
  BY <1>1, <1>2, <1>3, <1>4, <1>5, <1>6, <1>7, <1>8, <1>9, <1>10, <1>11, <1>12, <1>13,
     <1>14, <1>15, <1>16, <1>17, <1>18 DEF Next, Step

(* Type correctness of the whole run, across kills and restarts.           *)
THEOREM TypeCorrect == Spec => []TypeOK
BY InitType, StepType, PTL DEF Spec

(***************************************************************************)
(* The safety properties of Pipeline, proved from the inductive invariant  *)
(* of PipelineInv: first what jittering and the coinbase replacement do to *)
(* an ordering, then one lemma per stretch of the program, then the        *)
(* theorems.                                                               *)
(***************************************************************************)

(***************************************************************************)
(* Orderings.                                                              *)
(***************************************************************************)

(* The canonical order of a subtree holds each of its leaves once.         *)
LEMMA CanonicalOrdering ==
  ASSUME TypeOK, NEW s \in Subtrees
  PROVE  IsOrdering(run, Canonical(s), s, FALSE)
<1>1. Canonical(s) \in Orderings
  BY CanonicalType
<1>2. \A li \in LocalIdxs : Canonical(s)[li] = Name(run, NumberOf(s, li), FALSE)
  BY DEF Canonical, Txid, Name
<1>3. \A li, lj \in LocalIdxs : NumberOf(s, li) = NumberOf(s, lj) => li = lj
  <2>1. \A c \in Nat : \A a, b \in Nat : c + a = c + b => a = b
    OBVIOUS
  <2>2. s * HashesPerSubtree \in Nat
    BY ShapeAssumption, Z3 DEF Subtrees
  <2>3. LocalIdxs \subseteq Nat
    BY DEF LocalIdxs
  <2> QED BY <2>1, <2>2, <2>3 DEF NumberOf
<1>4. \A li, lj \in LocalIdxs : Canonical(s)[li] = Canonical(s)[lj] => li = lj
  BY <1>2, <1>3 DEF Name
<1> QED BY <1>1, <1>2, <1>4 DEF IsOrdering

(* Jittering neither loses nor doubles a leaf.                             *)
LEMMA SwapOrdering ==
  ASSUME NEW r, NEW row, NEW s, IsOrdering(r, row, s, FALSE),
         NEW pos \in 0..(HashesPerSubtree - 2)
  PROVE  IsOrdering(r, Swap(row, pos), s, FALSE)
<1>1. row \in Orderings
  BY DEF IsOrdering
<1>2. pos \in LocalIdxs /\ pos + 1 \in LocalIdxs /\ Swap(row, pos) \in Orderings /\ pos # pos + 1
  BY <1>1, SwapType DEF LocalIdxs
<1> DEFINE new == Swap(row, pos)
           at(li) == IF li = pos THEN pos + 1 ELSE IF li = pos + 1 THEN pos ELSE li
<1>3. \A li \in LocalIdxs : at(li) \in LocalIdxs /\ new[li] = row[at(li)] /\ at(at(li)) = li
  <2> SUFFICES ASSUME NEW li \in LocalIdxs
               PROVE  at(li) \in LocalIdxs /\ new[li] = row[at(li)] /\ at(at(li)) = li
    OBVIOUS
  <2>1. new[pos + 1] = row[pos] /\ new[pos] = row[pos + 1]
    BY <1>1, <1>2 DEF Swap, Orderings
  <2>2. li # pos /\ li # pos + 1 => new[li] = row[li]
    BY <1>1 DEF Swap, Orderings
  <2> HIDE DEF new
  <2>3. CASE li = pos
    BY <1>2, <2>1, <2>3
  <2>4. CASE li = pos + 1
    BY <1>2, <2>1, <2>4
  <2>5. CASE li # pos /\ li # pos + 1
    BY <2>2, <2>5
  <2> QED BY <2>3, <2>4, <2>5
<1> HIDE DEF new, at
<1>4. \A li \in LocalIdxs : \E lj \in LocalIdxs : new[li] = Name(r, NumberOf(s, lj), FALSE)
  <2> TAKE li \in LocalIdxs
  <2>1. PICK lj \in LocalIdxs : row[at(li)] = Name(r, NumberOf(s, lj), FALSE)
    BY <1>3 DEF IsOrdering
  <2> QED BY <2>1, <1>3
<1>5. \A lj \in LocalIdxs : \E li \in LocalIdxs : new[li] = Name(r, NumberOf(s, lj), FALSE)
  <2> TAKE lj \in LocalIdxs
  <2>1. PICK li \in LocalIdxs : row[li] = Name(r, NumberOf(s, lj), FALSE)
    BY DEF IsOrdering
  <2>2. at(li) \in LocalIdxs /\ new[at(li)] = row[at(at(li))] /\ at(at(li)) = li
    BY <1>3
  <2>3. new[at(li)] = Name(r, NumberOf(s, lj), FALSE)
    BY <2>1, <2>2, Zenon
  <2> QED BY <2>2, <2>3
<1>6. \A li, lj \in LocalIdxs : new[li] = new[lj] => li = lj
  <2> SUFFICES ASSUME NEW li \in LocalIdxs, NEW lj \in LocalIdxs, new[li] = new[lj]
               PROVE  li = lj
    OBVIOUS
  <2>1. at(li) = at(lj)
    BY <1>3 DEF IsOrdering
  <2> QED BY <1>3, <2>1
<1> QED BY <1>2, <1>4, <1>5, <1>6 DEF IsOrdering, new

(* The coinbase takes the place of firstTxid and of nothing else: subtree  *)
(* 0 keeps each leaf once, and the positions of every token stay valid.    *)
LEMMA ReplaceOrdering ==
  ASSUME TypeOK, NEW row, IsOrdering(run, row, 0, FALSE)
  PROVE  /\ IsOrdering(run, ReplaceCoinbase(row), 0, TRUE)
         /\ \A t : Places(run, tokenOf, ReplaceCoinbase(row), t, TRUE)
                     = Places(run, tokenOf, row, t, FALSE)
<1> DEFINE new == ReplaceCoinbase(row)
<1>1. row \in Orderings /\ new \in Orderings
  BY ReplaceType DEF IsOrdering
<1>2. \A li \in LocalIdxs : new[li] = IF row[li] = <<run, 0>> THEN <<run, NumTxids>> ELSE row[li]
  <2> SUFFICES ASSUME NEW li \in LocalIdxs
               PROVE  new[li] = IF row[li] = <<run, 0>> THEN <<run, NumTxids>> ELSE row[li]
    OBVIOUS
  <2>1. \A lj \in 0..(li - 1) : lj \in LocalIdxs /\ lj # li
    BY ShapeAssumption DEF LocalIdxs
  <2>2. row[li] = FirstTxid => \A lj \in 0..(li - 1) : row[lj] # FirstTxid
    BY <2>1 DEF IsOrdering
  <2> QED BY <2>2 DEF ReplaceCoinbase, FirstTxid, Coinbase, Txid
<1>3. \A li \in LocalIdxs, k \in TxNumbers :
        new[li] = Name(run, k, TRUE) <=> row[li] = Name(run, k, FALSE)
  <2> SUFFICES ASSUME NEW li \in LocalIdxs, NEW k \in TxNumbers
               PROVE  new[li] = Name(run, k, TRUE) <=> row[li] = Name(run, k, FALSE)
    OBVIOUS
  <2>1. PICK lj \in LocalIdxs : row[li] = <<run, NumberOf(0, lj)>>
    BY DEF IsOrdering, Name
  <2>2. NumberOf(0, lj) \in TxNumbers
    BY ZeroIsFirst, NumberInBlock
  <2>3. NumTxids # k /\ NumTxids # NumberOf(0, lj)
    BY <2>2, HashNumbersKnown
  <2> HIDE DEF new
  <2> QED BY <1>2, <2>1, <2>3 DEF Name
<1> HIDE DEF new
<1>4. \A lj \in LocalIdxs : NumberOf(0, lj) \in TxNumbers
  BY ZeroIsFirst, NumberInBlock
<1>5. \A li, lj \in LocalIdxs : new[li] = new[lj] => li = lj
  <2> SUFFICES ASSUME NEW li \in LocalIdxs, NEW lj \in LocalIdxs, new[li] = new[lj]
               PROVE  li = lj
    OBVIOUS
  <2>1. PICK lk \in LocalIdxs : row[li] = Name(run, NumberOf(0, lk), FALSE)
    BY DEF IsOrdering
  <2>2. row[lj] = Name(run, NumberOf(0, lk), FALSE)
    BY <1>3, <1>4, <2>1
  <2> QED BY <2>1, <2>2 DEF IsOrdering
<1>6. IsOrdering(run, new, 0, TRUE)
  <2>1. \A li \in LocalIdxs : \E lj \in LocalIdxs : new[li] = Name(run, NumberOf(0, lj), TRUE)
    BY <1>3, <1>4 DEF IsOrdering
  <2>2. \A lj \in LocalIdxs : \E li \in LocalIdxs : new[li] = Name(run, NumberOf(0, lj), TRUE)
    BY <1>3, <1>4 DEF IsOrdering
  <2> QED BY <1>1, <1>5, <2>1, <2>2 DEF IsOrdering
<1>7. \A t : Places(run, tokenOf, new, t, TRUE) = Places(run, tokenOf, row, t, FALSE)
  BY <1>3 DEF Places
<1> QED BY <1>6, <1>7 DEF new
(***************************************************************************)
(* Phase 2: building, saving, indexing, writing fragments.                 *)
(***************************************************************************)

(* A step that only writes fragments leaves the rest of the course alone.  *)
LEMMA OnlyFragments ==
  ASSUME Course,
         UNCHANGED <<run, pc, tokenOf, si, mi, minerSubs, minerRoots, minerTokenIdx, winner,
                     leaves, todo, bumps, diskSubs>>
  PROVE  SubsInv' /\ RowsInv' /\ DiskInv' /\ IndexInv' /\ LeavesInv' /\ BumpsInv'
<1>1. Sealing' = Sealing /\ Finalizing' = Finalizing
  BY DEF Sealing, Finalizing
<1>2. \A m, s : /\ Rooted(m, s)' <=> Rooted(m, s)
                /\ Indexed(m, s)' <=> Indexed(m, s)
                /\ Resealed(m, s)' = Resealed(m, s)
  BY <1>1 DEF Rooted, Indexed, Resealed
<1>3. SubsInv'
  BY <1>1, <1>2 DEF Course, SubsInv
<1>4. RowsInv'
  BY <1>2 DEF Course, RowsInv
<1>5. DiskInv'
  BY <1>2 DEF Course, DiskInv
<1>6. IndexInv'
  BY <1>2 DEF Course, IndexInv
<1>7. LeavesInv'
  BY DEF Course, LeavesInv
<1>8. BumpsInv'
  BY DEF Course, BumpsInv, FullBump
<1> QED BY <1>3, <1>4, <1>5, <1>6, <1>7, <1>8

(* A new subtree starts from the canonical order: nothing of it is rooted. *)
LEMMA GenerateInv ==
  ASSUME TypeOK, IInv, Generate
  PROVE  IInv'
<1> USE DEF Finalizing, Rooted, Indexed, Resealed, Sealing, Pending, memory, disk, NoFailure
<1>1. TodoInv' /\ MinerInv' /\ BarrierInv'
  BY DEF IInv, TodoInv, MinerInv, BarrierInv, Generate, StartSubtree
<1>2. SUFFICES ASSUME OnCourse' PROVE Course'
  BY <1>1 DEF IInv
<1>3. Course
  BY <1>2 DEF IInv, OnCourse, Generate, StartSubtree
<1>4. /\ pc = "generate" /\ pc' = "build" /\ si' = 0 /\ run' = run /\ 0 \in Subtrees
      /\ UNCHANGED <<minerRoots, minerTokenIdx, leaves, bumps, disk>>
  BY ZeroIsFirst DEF Generate, StartSubtree
<1>5. ~(\E m \in Miners, s \in Subtrees : Rooted(m, s)' \/ Indexed(m, s)' \/ Indexed(m, s))
  BY <1>4 DEF Subtrees
<1>6. SubsInv'
  <2>1. \A m \in Miners : minerSubs'[m] = Canonical(0)
    BY DEF Generate, StartSubtree
  <2>2. IsOrdering(run, Canonical(0), 0, FALSE)
    BY ZeroIsFirst, CanonicalOrdering
  <2>3. \A m \in Miners : ~Rooted(m, si)'
    BY <1>4
  <2>4. \A m \in Miners : IsOrdering(run, minerSubs[m], si, FALSE)'
    BY <1>4, <2>1, <2>2
  <2> HIDE DEF Finalizing, Rooted, Indexed, Resealed, Sealing, Pending
  <2> QED BY <2>3, <2>4 DEF SubsInv
<1>7. RowsInv' /\ DiskInv' /\ FragInv'
  BY <1>5 DEF RowsInv, DiskInv, FragInv
<1>8. IndexInv'
  BY <1>3, <1>4, <1>5 DEF Course, IndexInv
<1>9. LeavesInv' /\ BumpsInv'
  BY <1>4 DEF LeavesInv, BumpsInv
<1> QED BY <1>6, <1>7, <1>8, <1>9 DEF Course

(* A swap changes the order of a subtree that is not rooted yet.           *)
LEMMA JitterInv ==
  ASSUME TypeOK, IInv, NEW m \in Miners, JitterSwap(m)
  PROVE  IInv'
<1> USE DEF Finalizing, Rooted, Indexed, Resealed, Sealing, Pending, memory, disk, NoFailure
<1>0. pc = "build"
  BY DEF IInv, BarrierInv, JitterSwap, Ended
<1>1. TodoInv' /\ MinerInv' /\ BarrierInv'
  BY <1>0 DEF IInv, TodoInv, MinerInv, BarrierInv, JitterSwap
<1>2. SUFFICES ASSUME OnCourse' PROVE Course'
  BY <1>1 DEF IInv
<1>3. Course
  BY <1>2 DEF IInv, OnCourse, JitterSwap
<1>4. /\ pc = "build" /\ si \in Subtrees
      /\ UNCHANGED <<pc, run, tokenOf, si, mi, minerRoots, minerTokenIdx, batch, winner,
                     leaves, todo, bumps, disk>>
  BY <1>0 DEF JitterSwap, TypeOK
<1>5. SubsInv'
  <2>1. PICK pos \in 0..(HashesPerSubtree - 2) :
          minerSubs' = [minerSubs EXCEPT ![m] = Swap(minerSubs[m], pos)]
    BY DEF JitterSwap
  <2>2. \A n \in Miners : IsOrdering(run, minerSubs[n], si, FALSE)
    BY <1>3, <1>4 DEF Course, SubsInv
  <2>3. IsOrdering(run, Swap(minerSubs[m], pos), si, FALSE)
    BY <2>2, SwapOrdering
  <2>4. \A n \in Miners : minerSubs'[n] = IF n = m THEN Swap(minerSubs[m], pos) ELSE minerSubs[n]
    BY <2>1, <1>4 DEF TypeOK
  <2>5. \A n \in Miners : IsOrdering(run, minerSubs'[n], si, FALSE)
    BY <2>2, <2>3, <2>4
  <2>6. \A n \in Miners : ~Rooted(n, si)'
    BY <1>4 DEF Subtrees
  <2> QED BY <1>4, <2>5, <2>6 DEF SubsInv
<1>6. RowsInv' /\ DiskInv'
  BY <1>3, <1>4 DEF Course, RowsInv, DiskInv
<1>7. IndexInv' /\ FragInv'
  BY <1>3, <1>4 DEF Course, IndexInv, FragInv
<1>8. LeavesInv' /\ BumpsInv'
  BY <1>4 DEF LeavesInv, BumpsInv
<1> QED BY <1>5, <1>6, <1>7, <1>8 DEF Course

(* The barrier: no swap is left, so the rows no longer change.             *)
LEMMA BuiltInv ==
  ASSUME TypeOK, IInv, SubtreesBuilt
  PROVE  IInv'
<1> USE DEF Finalizing, Rooted, Indexed, Resealed, Sealing, Pending, memory, disk, NoFailure
<1>1. TodoInv' /\ MinerInv' /\ BarrierInv'
  BY DEF IInv, TodoInv, MinerInv, BarrierInv, SubtreesBuilt, Built
<1>2. SUFFICES ASSUME OnCourse' PROVE Course'
  BY <1>1 DEF IInv
<1>3. Course
  BY <1>2 DEF IInv, OnCourse, SubtreesBuilt
<1>4. /\ pc = "build" /\ pc' = "save" /\ mi = 0
      /\ UNCHANGED <<run, memory, disk>>
  BY DEF SubtreesBuilt, IInv, MinerInv
<1>5. \A m \in Miners, s \in Subtrees :
        /\ Rooted(m, s)' <=> Rooted(m, s)
        /\ Indexed(m, s)' <=> Indexed(m, s)
  BY <1>4 DEF Miners
<1>6. SubsInv'
  <2>1. \A m \in Miners : ~Rooted(m, si)'
    BY <1>4, PipelineAssumption DEF Miners, TypeOK
  <2>2. \A m \in Miners : IsOrdering(run, minerSubs[m], si, FALSE)'
    BY <1>3, <1>4 DEF Course, SubsInv
  <2> QED BY <2>1, <2>2 DEF SubsInv
<1>7. RowsInv' /\ DiskInv'
  BY <1>3, <1>4, <1>5 DEF Course, RowsInv, DiskInv
<1>8. IndexInv'
  BY <1>3, <1>4, <1>5 DEF Course, IndexInv
<1>9. FragInv'
  BY <1>3, <1>4, <1>5 DEF Course, FragInv
<1>10. LeavesInv' /\ BumpsInv'
  BY <1>4 DEF LeavesInv, BumpsInv
<1> QED BY <1>6, <1>7, <1>8, <1>9, <1>10 DEF Course

(* The root is taken and the same row is saved, or the run is off course.  *)
LEMMA SaveInv ==
  ASSUME TypeOK, IInv, SaveMiner
  PROVE  IInv'
<1> USE DEF Finalizing, Rooted, Indexed, Resealed, Sealing, Pending, memory, disk, NoFailure
<1>1. TodoInv' /\ MinerInv' /\ BarrierInv'
  BY DEF IInv, TodoInv, MinerInv, BarrierInv, SaveMiner
<1>2. SUFFICES ASSUME OnCourse' PROVE Course'
  BY <1>1 DEF IInv
<1>3. Course
  BY <1>2 DEF IInv, OnCourse, SaveMiner, SaveSub, Failure
<1>4. /\ pc = "save" /\ mi \in Miners /\ si \in Subtrees
      /\ minerRoots' = [minerRoots EXCEPT ![mi][si] = minerSubs[mi]]
      /\ UNCHANGED <<run, tokenOf, si, minerSubs, swapsLeft, minerTokenIdx, batch, winner,
                     leaves, todo, bumps, diskFrags>>
  BY DEF SaveMiner, TypeOK
<1>5. diskSubs' = [diskSubs EXCEPT ![mi][si] = minerSubs[mi]]
  BY <1>2 DEF SaveMiner, SaveSub, Failure, OnCourse
<1>6. \/ pc' = "save" /\ mi' = mi + 1
      \/ pc' = "index" /\ mi' = 0 /\ \A m \in Miners : m <= mi
  BY <1>4, PipelineAssumption DEF SaveMiner, Miners
<1>7. \A m \in Miners, s \in Subtrees :
        /\ minerRoots'[m][s] = IF m = mi /\ s = si THEN minerSubs[m] ELSE minerRoots[m][s]
        /\ diskSubs'[m][s] = IF m = mi /\ s = si THEN minerSubs[m] ELSE diskSubs[m][s]
  BY <1>4, <1>5 DEF TypeOK
<1>8. \A m \in Miners, s \in Subtrees :
        /\ Rooted(m, s)' <=> Rooted(m, s) \/ (m = mi /\ s = si)
        /\ Indexed(m, s)' <=> Indexed(m, s)
        /\ Indexed(m, s) => ~(m = mi /\ s = si)
  BY <1>4, <1>6 DEF Miners, Subtrees
<1>9. \A m \in Miners : IsOrdering(run, minerSubs[m], si, FALSE)
  BY <1>3, <1>4 DEF Course, SubsInv
<1>10. SubsInv'
  <2>1. \A m \in Miners : IsOrdering(run, minerSubs[m], si, FALSE)'
    BY <1>4, <1>9
  <2>2. \A m \in Miners : Rooted(m, si) => minerRoots[m][si] = minerSubs[m]
    BY <1>3, <1>4 DEF Course, SubsInv
  <2>3. \A m \in Miners : Rooted(m, si)' <=> Rooted(m, si) \/ m = mi
    BY <1>4, <1>8
  <2> HIDE DEF Finalizing, Rooted, Indexed, Resealed, Sealing, Pending
  <2>4. \A m \in Miners : Rooted(m, si)' => minerRoots'[m][si] = minerSubs[m]
    BY <1>4, <1>7, <2>2, <2>3
  <2> QED BY <1>4, <2>1, <2>4 DEF SubsInv
<1>11. RowsInv'
  <2> SUFFICES ASSUME NEW m \in Miners, NEW s \in Subtrees, Rooted(m, s)'
               PROVE  IsOrdering(run', minerRoots'[m][s], s, Resealed(m, s)')
    BY DEF RowsInv
  <2>1. ~Resealed(m, s) /\ ~Resealed(m, s)'
    BY <1>4, <1>6
  <2>2. CASE m = mi /\ s = si
    BY <1>4, <1>7, <1>9, <2>1, <2>2
  <2>3. CASE ~(m = mi /\ s = si)
    <3>1. IsOrdering(run, minerRoots[m][s], s, Resealed(m, s))
      BY <1>3, <1>8, <2>3 DEF Course, RowsInv
    <3> QED BY <1>4, <1>7, <2>1, <2>3, <3>1
  <2> QED BY <2>2, <2>3
<1>12. DiskInv'
  BY <1>3, <1>4, <1>6, <1>7, <1>8 DEF Course, DiskInv
<1>13. IndexInv'
  BY <1>3, <1>4, <1>6, <1>7, <1>8 DEF Course, IndexInv
<1>14. FragInv'
  BY <1>3, <1>4, <1>6, <1>7, <1>8 DEF Course, FragInv
<1>15. LeavesInv' /\ BumpsInv'
  BY <1>6 DEF LeavesInv, BumpsInv
<1> QED BY <1>10, <1>11, <1>12, <1>13, <1>14, <1>15 DEF Course

(* The index gets the places in the rooted row; its fragments are pending. *)
LEMMA IndexMinerInv ==
  ASSUME TypeOK, IInv, IndexMiner
  PROVE  IInv'
<1> USE DEF Finalizing, Rooted, Indexed, Resealed, Sealing, Pending, memory, disk, NoFailure
<1>1. TodoInv' /\ MinerInv' /\ BarrierInv'
  BY DEF IInv, TodoInv, MinerInv, BarrierInv, IndexMiner
<1>2. SUFFICES ASSUME OnCourse' PROVE Course'
  BY <1>1 DEF IInv
<1>3. Course
  BY <1>2 DEF IInv, OnCourse, IndexMiner
<1>4. /\ pc = "index" /\ pc' = "flush" /\ mi \in Miners /\ si \in Subtrees
      /\ batch' = TokensIn(minerTokenIdx', mi, si)
      /\ UNCHANGED <<run, tokenOf, si, mi, minerSubs, swapsLeft, minerRoots, winner, leaves,
                     todo, bumps, disk>>
  BY DEF IndexMiner, TypeOK
<1>5. \A m \in Miners, s \in Subtrees :
        /\ Rooted(m, s)' <=> Rooted(m, s)
        /\ Indexed(m, s)' <=> Indexed(m, s) \/ (m = mi /\ s = si)
        /\ Indexed(m, s) => ~(m = mi /\ s = si)
  BY <1>4 DEF Miners, Subtrees
<1>6. minerSubs[mi] = minerRoots[mi][si] /\ minerRoots[mi][si] \in Orderings
  BY <1>3, <1>4 DEF Course, SubsInv, IsOrdering
<1>7. \A t \in Businesses :
        PositionsOf(minerSubs[mi], t) = Places(run, tokenOf, minerRoots[mi][si], t, FALSE)
  BY <1>6 DEF PositionsOf, Places, Txid, Name
<1>8. \A m \in Miners, s \in Subtrees, t \in Businesses :
        minerTokenIdx'[m][t][s] =
          IF m = mi /\ s = si THEN Places(run, tokenOf, minerRoots[mi][si], t, FALSE)
          ELSE minerTokenIdx[m][t][s]
  <2>1. \A t \in Businesses : minerTokenIdx[mi][t][si] = {}
    BY <1>3, <1>4, <1>5 DEF Course, IndexInv
  <2>2. \A m \in Miners, s \in Subtrees, t \in Businesses :
          minerTokenIdx'[m][t][s] =
            IF m = mi /\ s = si
            THEN minerTokenIdx[mi][t][si] \cup PositionsOf(minerSubs[mi], t)
            ELSE minerTokenIdx[m][t][s]
    BY <1>4 DEF IndexMiner, TypeOK
  <2> SUFFICES ASSUME NEW m \in Miners, NEW s \in Subtrees, NEW t \in Businesses
               PROVE  minerTokenIdx'[m][t][s] =
                        IF m = mi /\ s = si
                        THEN Places(run, tokenOf, minerRoots[mi][si], t, FALSE)
                        ELSE minerTokenIdx[m][t][s]
    OBVIOUS
  <2>3. {} \cup PositionsOf(minerSubs[mi], t) = PositionsOf(minerSubs[mi], t)
    OBVIOUS
  <2> QED BY <1>7, <2>1, <2>2, <2>3
<1>9. SubsInv' /\ RowsInv' /\ DiskInv'
  BY <1>3, <1>4, <1>5 DEF Course, SubsInv, RowsInv, DiskInv
<1>10. IndexInv'
  <2> SUFFICES ASSUME NEW m \in Miners, NEW s \in Subtrees, NEW t \in Businesses
               PROVE  minerTokenIdx'[m][t][s] =
                        IF Indexed(m, s)'
                        THEN Places(run', tokenOf', minerRoots'[m][s], t, Resealed(m, s)')
                        ELSE {}
    BY DEF IndexInv
  <2>1. Resealed(m, s)' = FALSE /\ Resealed(m, s) = FALSE
    BY <1>4
  <2>2. CASE m = mi /\ s = si
    BY <1>4, <1>5, <1>8, <2>1, <2>2
  <2>3. CASE ~(m = mi /\ s = si)
    <3>1. minerTokenIdx[m][t][s] =
            IF Indexed(m, s) THEN Places(run, tokenOf, minerRoots[m][s], t, Resealed(m, s))
            ELSE {}
      BY <1>3 DEF Course, IndexInv
    <3> QED BY <1>4, <1>5, <1>8, <2>1, <2>3, <3>1
  <2> QED BY <2>2, <2>3
<1>11. FragInv'
  <2> SUFFICES ASSUME NEW m \in Miners, NEW s \in Subtrees, NEW t \in Businesses,
                      Indexed(m, s)', minerTokenIdx'[m][t][s] # {}, ~Pending(m, t, s)'
               PROVE  diskFrags'[m][t][s] =
                        [leaves |-> minerRoots'[m][s], idxs |-> minerTokenIdx'[m][t][s]]
    BY DEF FragInv
  <2>1. ~(m = mi /\ s = si)
    BY <1>4 DEF TokensIn
  <2>2. minerTokenIdx'[m][t][s] = minerTokenIdx[m][t][s]
    BY <1>8, <2>1
  <2>3. diskFrags[m][t][s] = [leaves |-> minerRoots[m][s], idxs |-> minerTokenIdx[m][t][s]]
    BY <1>3, <1>4, <1>5, <2>1, <2>2 DEF Course, FragInv
  <2> QED BY <1>4, <2>2, <2>3
<1>12. LeavesInv' /\ BumpsInv'
  BY <1>4 DEF LeavesInv, BumpsInv
<1> QED BY <1>9, <1>10, <1>11, <1>12 DEF Course

(* One fragment of the batch for subtree s of miner m is written, and      *)
(* nothing fails.                                                          *)
LEMMA FragmentWritten ==
  ASSUME TypeOK, NEW m \in Miners, NEW s \in Subtrees, NEW row,
         WriteFragment(m, s, row), ~logged'
  PROVE  \E t \in batch :
           /\ batch' = batch \ {t}
           /\ \A n \in Miners, r \in Subtrees, u \in Businesses :
                diskFrags'[n][u][r] =
                  IF n = m /\ r = s /\ u = t
                  THEN [leaves |-> row, idxs |-> minerTokenIdx[m][t][s]]
                  ELSE diskFrags[n][u][r]
<1>1. PICK t \in batch :
        /\ batch' = batch \ {t}
        /\ diskFrags' = [diskFrags EXCEPT ![m][t][s] =
             [leaves |-> row, idxs |-> minerTokenIdx[m][t][s]]]
  BY DEF WriteFragment, Failure
<1>2. t \in Businesses
  BY DEF TypeOK
<1> DEFINE f == [leaves |-> row, idxs |-> minerTokenIdx[m][t][s]]
<1>3. diskFrags' = [diskFrags EXCEPT ![m][t][s] = f]
  BY <1>1
<1> HIDE DEF f
<1>4. \A n \in Miners, r \in Subtrees, u \in Businesses :
        diskFrags'[n][u][r] = IF n = m /\ r = s /\ u = t THEN f ELSE diskFrags[n][u][r]
  BY <1>2, <1>3 DEF TypeOK
<1> QED BY <1>1, <1>4 DEF f

(* One pending fragment reaches the disk, or the run is off course.        *)
LEMMA FlushInv ==
  ASSUME TypeOK, IInv, FlushFragment
  PROVE  IInv'
<1> USE DEF Finalizing, Rooted, Indexed, Resealed, Sealing, Pending
<1>1. TodoInv' /\ MinerInv' /\ BarrierInv'
  BY DEF IInv, TodoInv, MinerInv, BarrierInv, FlushFragment
<1>2. SUFFICES ASSUME OnCourse' PROVE Course'
  BY <1>1 DEF IInv
<1>3. Course
  BY <1>2 DEF IInv, OnCourse, FlushFragment, WriteFragment, Failure, NoFailure
<1>4. /\ pc = "flush" /\ mi \in Miners /\ si \in Subtrees
      /\ UNCHANGED <<run, pc, tokenOf, si, mi, minerSubs, swapsLeft, minerRoots, minerTokenIdx,
                     winner, leaves, todo, bumps, diskSubs>>
  BY DEF FlushFragment, TypeOK
<1>5. PICK t \in batch :
        /\ batch' = batch \ {t}
        /\ \A n \in Miners, r \in Subtrees, u \in Businesses :
             diskFrags'[n][u][r] =
               IF n = mi /\ r = si /\ u = t
               THEN [leaves |-> minerSubs[mi], idxs |-> minerTokenIdx[mi][t][si]]
               ELSE diskFrags[n][u][r]
  BY <1>2, <1>4, FragmentWritten DEF FlushFragment, OnCourse
<1>6. SubsInv' /\ RowsInv' /\ DiskInv' /\ IndexInv' /\ LeavesInv' /\ BumpsInv'
  BY <1>3, <1>4, OnlyFragments
<1>7. minerSubs[mi] = minerRoots[mi][si]
  BY <1>3, <1>4 DEF Course, SubsInv
<1>8. FragInv'
  BY <1>3, <1>4, <1>5, <1>7 DEF Course, FragInv
<1> QED BY <1>6, <1>8 DEF Course

(* With nothing pending the next miner, subtree or phase begins.           *)
LEMMA MinerSealedInv ==
  ASSUME TypeOK, IInv, MinerSealed
  PROVE  IInv'
<1> USE DEF Finalizing, Rooted, Indexed, Resealed, Sealing, Pending, memory, disk, NoFailure
<1>1. /\ pc = "flush" /\ batch = {} /\ mi \in Miners /\ si \in Subtrees
      /\ UNCHANGED <<run, tokenOf, minerRoots, minerTokenIdx, batch, winner, leaves, todo, bumps,
                     disk, logged>>
  BY DEF MinerSealed, TypeOK
<1>2. \/ pc' = "index" /\ mi' = mi + 1 /\ UNCHANGED <<si, minerSubs, swapsLeft>>
      \/ /\ StartSubtree(si + 1) /\ si + 1 \in Subtrees
         /\ \A m \in Miners : m <= mi
      \/ /\ pc' = "select" /\ mi' = 0 /\ UNCHANGED swapsLeft
         /\ \A m \in Miners : m <= mi
         /\ \A s \in Subtrees : s <= si
  BY <1>1, PipelineAssumption, ShapeAssumption DEF MinerSealed, Miners, Subtrees
<1>3. TodoInv' /\ MinerInv' /\ BarrierInv'
  BY <1>1, <1>2 DEF IInv, TodoInv, MinerInv, BarrierInv, StartSubtree
<1>4. SUFFICES ASSUME OnCourse' PROVE Course'
  BY <1>3 DEF IInv
<1>5. Course
  BY <1>1, <1>4 DEF IInv, OnCourse
<1>6. \A m \in Miners, s \in Subtrees :
        /\ Rooted(m, s)' <=> Rooted(m, s)
        /\ Indexed(m, s)' <=> Indexed(m, s)
        /\ ~Resealed(m, s) /\ ~Resealed(m, s)'
        /\ \A t : ~Pending(m, t, s)
  BY <1>1, <1>2 DEF Miners, Subtrees, StartSubtree
<1>7. SubsInv'
  <2>1. CASE pc' = "index" /\ mi' = mi + 1 /\ UNCHANGED <<si, minerSubs>>
    BY <1>1, <1>5, <2>1 DEF Course, SubsInv
  <2>2. CASE StartSubtree(si + 1) /\ si + 1 \in Subtrees
    <3>0. IsOrdering(run, Canonical(si + 1), si + 1, FALSE)
      BY <2>2, CanonicalOrdering
    <3>1. \A m \in Miners : IsOrdering(run, minerSubs[m], si, FALSE)'
      BY <1>1, <2>2, <3>0 DEF StartSubtree
    <3>2. \A m \in Miners : ~Rooted(m, si)'
      BY <2>2 DEF StartSubtree, Subtrees
    <3> QED BY <3>1, <3>2 DEF SubsInv
  <2>3. CASE pc' = "select"
    BY <2>3 DEF SubsInv
  <2> QED BY <1>2, <2>1, <2>2, <2>3
<1>8. RowsInv' /\ DiskInv'
  BY <1>1, <1>2, <1>5, <1>6 DEF Course, RowsInv, DiskInv
<1>9. IndexInv'
  BY <1>1, <1>5, <1>6 DEF Course, IndexInv
<1>10. FragInv'
  BY <1>1, <1>5, <1>6 DEF Course, FragInv
<1>11. LeavesInv' /\ BumpsInv'
  BY <1>2 DEF LeavesInv, BumpsInv, StartSubtree
<1> QED BY <1>7, <1>8, <1>9, <1>10, <1>11 DEF Course

(***************************************************************************)
(* Phase 4: the winner, the coinbase, subtree 0 again, the BUMPs.          *)
(***************************************************************************)

(* Choosing the winner changes no row.                                     *)
LEMMA SelectInv ==
  ASSUME TypeOK, IInv, SelectWinner
  PROVE  IInv'
<1> USE DEF Finalizing, Rooted, Indexed, Resealed, Sealing, Pending, memory, disk, NoFailure
<1>1. TodoInv' /\ MinerInv' /\ BarrierInv'
  BY DEF IInv, TodoInv, MinerInv, BarrierInv, SelectWinner
<1>2. SUFFICES ASSUME OnCourse' PROVE Course'
  BY <1>1 DEF IInv
<1>3. Course
  BY <1>2 DEF IInv, OnCourse, SelectWinner
<1>4. /\ pc = "select" /\ pc' = "load"
      /\ UNCHANGED <<run, tokenOf, minerRoots, minerTokenIdx, batch, leaves, todo, bumps, disk>>
  BY DEF SelectWinner
<1>5. SubsInv' /\ LeavesInv' /\ BumpsInv'
  BY <1>4 DEF SubsInv, LeavesInv, BumpsInv
<1>6. RowsInv' /\ DiskInv'
  BY <1>3, <1>4 DEF Course, RowsInv, DiskInv
<1>7. IndexInv' /\ FragInv'
  BY <1>3, <1>4 DEF Course, IndexInv, FragInv
<1> QED BY <1>5, <1>6, <1>7 DEF Course

(* The coinbase stands where the first txid stood, in memory.              *)
LEMMA LoadInv ==
  ASSUME TypeOK, IInv, LoadAndReplace
  PROVE  IInv'
<1> USE DEF Finalizing, Rooted, Indexed, Resealed, Sealing, Pending, memory, disk
<1>1. TodoInv' /\ MinerInv' /\ BarrierInv'
  BY DEF IInv, TodoInv, MinerInv, BarrierInv, LoadAndReplace
<1>2. SUFFICES ASSUME OnCourse' PROVE Course'
  BY <1>1 DEF IInv
<1>3. Course
  BY <1>2 DEF IInv, OnCourse, LoadAndReplace
<1>4. /\ pc = "load" /\ pc' = "resave" /\ winner \in Miners /\ 0 \in Subtrees
      /\ leaves' = ReplaceCoinbase(diskSubs[winner][0])
      /\ minerRoots' = [minerRoots EXCEPT ![winner][0] = leaves']
      /\ UNCHANGED <<run, tokenOf, minerTokenIdx, batch, winner, todo, bumps, disk>>
  BY ZeroIsFirst DEF LoadAndReplace, TypeOK
<1> DEFINE old == minerRoots[winner][0]
<1>5. diskSubs[winner][0] = old /\ IsOrdering(run, old, 0, FALSE)
  BY <1>3, <1>4 DEF Course, DiskInv, RowsInv
<1>6. /\ IsOrdering(run, leaves', 0, TRUE)
      /\ \A t : Places(run, tokenOf, leaves', t, TRUE) = Places(run, tokenOf, old, t, FALSE)
  BY <1>4, <1>5, ReplaceOrdering
<1>7. \A m \in Miners, s \in Subtrees :
        minerRoots'[m][s] = IF m = winner /\ s = 0 THEN leaves' ELSE minerRoots[m][s]
  BY <1>4 DEF TypeOK
<1>8. SubsInv' /\ LeavesInv' /\ BumpsInv'
  BY <1>4, <1>7 DEF SubsInv, LeavesInv, BumpsInv
<1>9. RowsInv'
  <2> SUFFICES ASSUME NEW m \in Miners, NEW s \in Subtrees
               PROVE  IsOrdering(run', minerRoots'[m][s], s, Resealed(m, s)')
    BY DEF RowsInv
  <2>1. CASE m = winner /\ s = 0
    <3>1. Resealed(m, s)' = TRUE
      BY <1>4, <2>1
    <3> QED BY <1>4, <1>6, <1>7, <2>1, <3>1
  <2>2. CASE ~(m = winner /\ s = 0)
    <3>1. Resealed(m, s)' = FALSE /\ Resealed(m, s) = FALSE
      BY <1>4, <2>2
    <3> QED BY <1>3, <1>4, <1>7, <2>2, <3>1 DEF Course, RowsInv
  <2> QED BY <2>1, <2>2
<1>10. DiskInv'
  BY <1>3, <1>4, <1>7 DEF Course, DiskInv
<1>11. IndexInv'
  <2> SUFFICES ASSUME NEW m \in Miners, NEW s \in Subtrees, NEW t \in Businesses
               PROVE  minerTokenIdx[m][t][s] =
                        Places(run, tokenOf, minerRoots'[m][s], t, Resealed(m, s)')
    BY <1>4 DEF IndexInv
  <2>1. minerTokenIdx[m][t][s] = Places(run, tokenOf, minerRoots[m][s], t, FALSE)
    <3>1. Resealed(m, s) = FALSE
      BY <1>4
    <3> QED BY <1>3, <1>4, <3>1 DEF Course, IndexInv
  <2>2. CASE m = winner /\ s = 0
    <3>1. Resealed(m, s)' = TRUE
      BY <1>4, <2>2
    <3> QED BY <1>6, <1>7, <2>1, <2>2, <3>1
  <2>3. CASE ~(m = winner /\ s = 0)
    <3>1. Resealed(m, s)' = FALSE
      BY <1>4, <2>3
    <3> QED BY <1>7, <2>1, <2>3, <3>1
  <2> QED BY <2>2, <2>3
<1>12. FragInv'
  BY <1>3, <1>4, <1>7 DEF Course, FragInv
<1> QED BY <1>8, <1>9, <1>10, <1>11, <1>12 DEF Course

(* The winner's first subtree is saved with the coinbase in it.            *)
LEMMA ResaveInv ==
  ASSUME TypeOK, IInv, Resave
  PROVE  IInv'
<1> USE DEF Finalizing, Rooted, Indexed, Resealed, Sealing, Pending, memory, disk
<1>1. TodoInv' /\ MinerInv' /\ BarrierInv'
  BY DEF IInv, TodoInv, MinerInv, BarrierInv, Resave
<1>2. SUFFICES ASSUME OnCourse' PROVE Course'
  BY <1>1 DEF IInv
<1>3. Course
  BY <1>2 DEF IInv, OnCourse, Resave, SaveSub, Failure, NoFailure
<1>4. /\ pc = "resave" /\ pc' = "reflush" /\ winner \in Miners /\ 0 \in Subtrees
      /\ batch' = TokensIn(minerTokenIdx, winner, 0)
      /\ UNCHANGED <<run, tokenOf, minerRoots, minerTokenIdx, winner, leaves, todo, bumps,
                     diskFrags>>
  BY ZeroIsFirst DEF Resave, TypeOK
<1>5. \A m \in Miners, s \in Subtrees :
        diskSubs'[m][s] = IF m = winner /\ s = 0 THEN leaves ELSE diskSubs[m][s]
  BY <1>2, <1>4 DEF Resave, SaveSub, Failure, OnCourse, TypeOK
<1>6. SubsInv' /\ LeavesInv' /\ BumpsInv'
  BY <1>3, <1>4 DEF Course, SubsInv, LeavesInv, BumpsInv
<1>7. RowsInv' /\ IndexInv'
  BY <1>3, <1>4 DEF Course, RowsInv, IndexInv
<1>8. DiskInv'
  BY <1>3, <1>4, <1>5 DEF Course, DiskInv, LeavesInv
<1>9. FragInv'
  BY <1>3, <1>4 DEF Course, FragInv, TokensIn
<1> QED BY <1>6, <1>7, <1>8, <1>9 DEF Course

(* The winner's fragments of that subtree are written once more.           *)
LEMMA ReflushInv ==
  ASSUME TypeOK, IInv, ReflushFragment
  PROVE  IInv'
<1> USE DEF Finalizing, Rooted, Indexed, Resealed, Sealing, Pending
<1>1. TodoInv' /\ MinerInv' /\ BarrierInv'
  BY DEF IInv, TodoInv, MinerInv, BarrierInv, ReflushFragment
<1>2. SUFFICES ASSUME OnCourse' PROVE Course'
  BY <1>1 DEF IInv
<1>3. Course
  BY <1>2 DEF IInv, OnCourse, ReflushFragment, WriteFragment, Failure, NoFailure
<1>4. /\ pc = "reflush" /\ winner \in Miners /\ 0 \in Subtrees
      /\ UNCHANGED <<run, pc, tokenOf, si, mi, minerSubs, swapsLeft, minerRoots, minerTokenIdx,
                     winner, leaves, todo, bumps, diskSubs>>
  BY ZeroIsFirst DEF ReflushFragment, TypeOK
<1>5. PICK t \in batch :
        /\ batch' = batch \ {t}
        /\ \A n \in Miners, r \in Subtrees, u \in Businesses :
             diskFrags'[n][u][r] =
               IF n = winner /\ r = 0 /\ u = t
               THEN [leaves |-> leaves, idxs |-> minerTokenIdx[winner][t][0]]
               ELSE diskFrags[n][u][r]
  BY <1>2, <1>4, FragmentWritten DEF ReflushFragment, OnCourse
<1>6. SubsInv' /\ RowsInv' /\ DiskInv' /\ IndexInv' /\ LeavesInv' /\ BumpsInv'
  BY <1>3, <1>4, OnlyFragments
<1>7. leaves = minerRoots[winner][0]
  BY <1>3, <1>4 DEF Course, LeavesInv
<1>8. FragInv'
  BY <1>3, <1>4, <1>5, <1>7 DEF Course, FragInv
<1> QED BY <1>6, <1>8 DEF Course

(* With nothing pending the block is final.                                *)
LEMMA FinalizedInv ==
  ASSUME TypeOK, IInv, BlockFinalized
  PROVE  IInv'
<1> USE DEF Finalizing, Rooted, Indexed, Resealed, Sealing, Pending, memory, disk, NoFailure
<1>1. TodoInv' /\ MinerInv' /\ BarrierInv'
  BY DEF IInv, TodoInv, MinerInv, BarrierInv, BlockFinalized
<1>2. SUFFICES ASSUME OnCourse' PROVE Course'
  BY <1>1 DEF IInv
<1>3. Course
  BY <1>2 DEF IInv, OnCourse, BlockFinalized
<1>4. pc = "reflush" /\ pc' = "process" /\ batch = {} /\ UNCHANGED <<run, memory, disk>>
  BY DEF BlockFinalized
<1>5. SubsInv' /\ LeavesInv' /\ BumpsInv'
  BY <1>4 DEF SubsInv, LeavesInv, BumpsInv, IInv, TodoInv
<1>6. RowsInv' /\ DiskInv'
  BY <1>3, <1>4 DEF Course, RowsInv, DiskInv
<1>7. IndexInv' /\ FragInv'
  BY <1>3, <1>4 DEF Course, IndexInv, FragInv
<1> QED BY <1>5, <1>6, <1>7 DEF Course

(* A token is handled with what the index and the disk give.               *)
LEMMA ProcessInv ==
  ASSUME TypeOK, IInv, NEW t \in Businesses, ProcessToken(t)
  PROVE  IInv'
<1> USE DEF Finalizing, Rooted, Indexed, Resealed, Sealing, Pending, disk
<1>1. TodoInv' /\ MinerInv' /\ BarrierInv'
  BY DEF IInv, TodoInv, MinerInv, BarrierInv, ProcessToken
<1>2. SUFFICES ASSUME OnCourse' PROVE Course'
  BY <1>1 DEF IInv
<1>3. Course
  BY <1>2 DEF IInv, OnCourse, ProcessToken, Failure, NoFailure
<1>4. /\ pc = "process" /\ todo' = todo \ {t} /\ winner \in Miners
      /\ UNCHANGED <<run, pc, tokenOf, si, mi, minerRoots, minerTokenIdx, batch, winner, leaves,
                     disk>>
  BY DEF ProcessToken, TypeOK
<1>5. bumps' = [bumps EXCEPT ![t] =
        [s \in Subtrees |-> IF s \in Present(t) THEN diskFrags[winner][t][s] ELSE NoFragment]]
  BY <1>2 DEF ProcessToken, Failure, OnCourse
<1>6. \A s \in Subtrees :
        (IF s \in Present(t) THEN diskFrags[winner][t][s] ELSE NoFragment) = FullBump(t)[s]
  <2> SUFFICES ASSUME NEW s \in Subtrees
               PROVE  (IF s \in Present(t) THEN diskFrags[winner][t][s] ELSE NoFragment)
                        = FullBump(t)[s]
    OBVIOUS
  <2>1. CASE minerTokenIdx[winner][t][s] = {}
    BY <2>1 DEF Present, SubtreeIndices, FullBump
  <2>2. CASE minerTokenIdx[winner][t][s] # {}
    <3>1. diskFrags[winner][t][s] =
            [leaves |-> minerRoots[winner][s], idxs |-> minerTokenIdx[winner][t][s]]
      BY <1>3, <1>4, <2>2 DEF Course, FragInv
    <3>2. diskFrags[winner][t][s] # NoFragment
      BY <2>2, <3>1 DEF NoFragment
    <3> QED BY <2>2, <3>1, <3>2 DEF Present, SubtreeIndices, FullBump
  <2> QED BY <2>1, <2>2
<1>7. BumpsInv'
  <2>1. \A u \in Businesses : FullBump(u)' = FullBump(u)
    BY <1>4 DEF FullBump
  <2>2. bumps'[t] = FullBump(t)
    BY <1>5, <1>6 DEF TypeOK, FullBump
  <2>3. \A u \in Businesses \ {t} : bumps'[u] = bumps[u]
    BY <1>5 DEF TypeOK
  <2>4. \A u \in Businesses \ todo : bumps[u] = FullBump(u)
    BY <1>3, <1>4 DEF Course, BumpsInv
  <2> QED BY <1>4, <2>1, <2>2, <2>3, <2>4 DEF BumpsInv
<1>8. SubsInv' /\ LeavesInv'
  BY <1>4 DEF SubsInv, LeavesInv
<1>9. RowsInv' /\ DiskInv'
  BY <1>3, <1>4 DEF Course, RowsInv, DiskInv
<1>10. IndexInv' /\ FragInv'
  BY <1>3, <1>4 DEF Course, IndexInv, FragInv
<1> QED BY <1>7, <1>8, <1>9, <1>10 DEF Course

(* The end of a run says nothing new.                                      *)
LEMMA AllProcessedInv ==
  ASSUME TypeOK, IInv, AllProcessed
  PROVE  IInv'
<1> USE DEF Finalizing, Rooted, Indexed, Resealed, Sealing, Pending, memory, disk, NoFailure
<1>1. TodoInv' /\ MinerInv' /\ BarrierInv'
  BY DEF IInv, TodoInv, MinerInv, BarrierInv, AllProcessed
<1>2. SUFFICES ASSUME OnCourse' PROVE Course'
  BY <1>1 DEF IInv
<1>3. Course
  BY <1>2 DEF IInv, OnCourse, AllProcessed
<1>4. pc = "process" /\ pc' = "done" /\ UNCHANGED <<run, memory, disk>>
  BY DEF AllProcessed
<1>5. SubsInv' /\ LeavesInv' /\ BumpsInv'
  BY <1>3, <1>4 DEF Course, SubsInv, LeavesInv, BumpsInv, FullBump
<1>6. RowsInv' /\ DiskInv'
  BY <1>3, <1>4 DEF Course, RowsInv, DiskInv
<1>7. IndexInv' /\ FragInv'
  BY <1>3, <1>4 DEF Course, IndexInv, FragInv
<1> QED BY <1>5, <1>6, <1>7 DEF Course

(* A new process knows nothing, whatever is on the disk.                   *)
LEMMA FreshCourse ==
  ASSUME pc = "generate", si = 0, mi = 0, minerTokenIdx = NoIndex, todo = Businesses,
         swapsLeft = [m \in Miners |-> 0]
  PROVE  IInv
<1> USE DEF Finalizing, Rooted, Indexed, Resealed, Sealing, Pending
<1>1. TodoInv /\ MinerInv /\ BarrierInv
  BY DEF TodoInv, MinerInv, BarrierInv
<1>2. ~(\E m \in Miners, s \in Subtrees : Rooted(m, s) \/ Indexed(m, s))
  OBVIOUS
<1>3. SubsInv /\ RowsInv /\ DiskInv /\ FragInv /\ LeavesInv /\ BumpsInv
  BY <1>2 DEF SubsInv, RowsInv, DiskInv, FragInv, LeavesInv, BumpsInv
<1>4. IndexInv
  BY <1>2 DEF IndexInv, NoIndex
<1> QED BY <1>1, <1>3, <1>4 DEF IInv, Course

(* A new run has nothing rooted, whatever is on disk.                      *)
LEMMA RestartInv ==
  ASSUME Restart
  PROVE  IInv'
<1> USE DEF Finalizing, Rooted, Indexed, Resealed, Sealing, Pending
<1>1. pc' = "generate" /\ si' = 0 /\ mi' = 0 /\ minerTokenIdx' = NoIndex /\ todo' = Businesses
      /\ swapsLeft' = [m \in Miners |-> 0]
  BY DEF Restart
<1>2. TodoInv' /\ MinerInv' /\ BarrierInv'
  BY <1>1 DEF TodoInv, MinerInv, BarrierInv
<1>3. ~(\E m \in Miners, s \in Subtrees : Rooted(m, s)' \/ Indexed(m, s)')
  BY <1>1
<1>4. SubsInv' /\ RowsInv' /\ DiskInv' /\ FragInv' /\ LeavesInv' /\ BumpsInv'
  BY <1>1, <1>3 DEF SubsInv, RowsInv, DiskInv, FragInv, LeavesInv, BumpsInv
<1>5. IndexInv'
  BY <1>1, <1>3 DEF IndexInv, NoIndex
<1> QED BY <1>2, <1>4, <1>5 DEF IInv, Course

(* The invariant is inductive.                                             *)
LEMMA StepInv == TypeOK /\ IInv /\ [Next]_vars => IInv'
<1> SUFFICES ASSUME TypeOK, IInv, [Next]_vars PROVE IInv'
  OBVIOUS
<1>1. CASE LoadFails
  <2>1. logged' /\ pc = "load" /\ pc' = "exited" /\ todo' = todo /\ mi' = mi /\ swapsLeft' = swapsLeft
    BY <1>1 DEF LoadFails, Failure, memory
  <2> QED BY <2>1 DEF IInv, OnCourse, TodoInv, MinerInv, BarrierInv
<1>2. CASE Kill
  BY <1>2 DEF Kill, IInv, OnCourse, TodoInv, MinerInv, BarrierInv, memory
<1>3. CASE UNCHANGED vars
  <2> USE DEF Finalizing, Rooted, Indexed, Resealed, Sealing, Pending, vars, memory, disk
  <2>1. (TodoInv /\ MinerInv /\ BarrierInv)' /\ OnCourse' = OnCourse
    BY <1>3 DEF IInv, TodoInv, MinerInv, BarrierInv, OnCourse
  <2>2. Course => (SubsInv /\ RowsInv /\ DiskInv)'
    BY <1>3 DEF Course, SubsInv, RowsInv, DiskInv
  <2>3. Course => (IndexInv /\ FragInv)'
    BY <1>3 DEF Course, IndexInv, FragInv
  <2>4. Course => (LeavesInv /\ BumpsInv)'
    BY <1>3 DEF Course, LeavesInv, BumpsInv, FullBump
  <2> QED BY <2>1, <2>2, <2>3, <2>4 DEF IInv, Course
<1> QED
  BY <1>1, <1>2, <1>3, GenerateInv, JitterInv, BuiltInv, SaveInv, IndexMinerInv, FlushInv,
     MinerSealedInv, SelectInv, LoadInv, ResaveInv, ReflushInv, FinalizedInv, ProcessInv,
     AllProcessedInv, RestartInv DEF Next, Step

(***************************************************************************)
(* What the invariant gives.                                               *)
(***************************************************************************)

(* The invariant gives BuiltOnFinalRoots.                                  *)
LEMMA CourseBuiltOnFinalRoots == TypeOK /\ IInv => BuiltOnFinalRoots
<1> SUFFICES ASSUME TypeOK, IInv, Assembled, ~logged,
                    NEW t \in Businesses \ todo, NEW s \in Subtrees, bumps[t][s] # NoFragment
             PROVE  bumps[t][s].leaves = minerRoots[winner][s]
  BY DEF BuiltOnFinalRoots
<1>1. bumps[t] = FullBump(t)
  BY DEF IInv, OnCourse, Course, BumpsInv, Assembled
<1> QED BY <1>1 DEF FullBump

(* The invariant gives DiskHoldsWinner.                                    *)
LEMMA CourseDiskHoldsWinner == TypeOK /\ IInv => DiskHoldsWinner
<1> SUFFICES ASSUME TypeOK, IInv, Assembled, ~logged
             PROVE  diskSubs[winner] = minerRoots[winner]
  BY DEF DiskHoldsWinner
<1>1. Course /\ Finalizing /\ winner \in Miners /\ pc # "resave"
  BY DEF IInv, OnCourse, Assembled, Finalizing, TypeOK
<1>2. \A s \in Subtrees : diskSubs[winner][s] = minerRoots[winner][s]
  BY <1>1 DEF Course, DiskInv, Rooted
<1> QED BY <1>1, <1>2 DEF TypeOK

(* The invariant gives NoSilentLoss: what a full BUMP proves is what is    *)
(* due, because an ordering holds every number of its subtree once.        *)
LEMMA CourseNoSilentLoss == TypeOK /\ IInv => NoSilentLoss
<1> SUFFICES ASSUME TypeOK, IInv, Assembled, ~logged, NEW t \in Businesses \ todo
             PROVE  Proved(t) = Due(t)
  BY DEF NoSilentLoss
<1>1. Course /\ winner \in Miners /\ pc \in {"process", "done"}
  BY DEF IInv, OnCourse, Assembled, TypeOK
<1> DEFINE row(s) == minerRoots[winner][s]
           sealed(s) == Resealed(winner, s)
           idxs(s) == Places(run, tokenOf, row(s), t, sealed(s))
<1>2. \A s \in Subtrees : IsOrdering(run, row(s), s, sealed(s)) /\ (sealed(s) <=> s = 0)
  BY <1>1 DEF Course, RowsInv, Rooted, Finalizing, Resealed
<1>3. \A s \in Subtrees : minerTokenIdx[winner][t][s] = idxs(s)
  BY <1>1 DEF Course, IndexInv, Indexed, Finalizing
<1>4. \A s \in Subtrees :
        bumps[t][s] = IF idxs(s) # {} THEN [leaves |-> row(s), idxs |-> idxs(s)] ELSE NoFragment
  <2>1. bumps[t] = FullBump(t)
    BY <1>1 DEF Course, BumpsInv
  <2> HIDE DEF idxs
  <2> QED BY <1>3, <2>1 DEF FullBump
<1> HIDE DEF row, sealed
<1>5. \A s \in Subtrees :
        {bumps[t][s].leaves[li] : li \in bumps[t][s].idxs} = {row(s)[li] : li \in idxs(s)}
  <2> SUFFICES ASSUME NEW s \in Subtrees
               PROVE  {bumps[t][s].leaves[li] : li \in bumps[t][s].idxs}
                        = {row(s)[li] : li \in idxs(s)}
    OBVIOUS
  <2> DEFINE b == bumps[t][s]
             is == idxs(s)
  <2>1. b = IF is # {} THEN [leaves |-> row(s), idxs |-> is] ELSE NoFragment
    BY <1>4
  <2> HIDE DEF b, is
  <2>2. b.idxs = is /\ (is # {} => b.leaves = row(s))
    BY <2>1 DEF NoFragment
  <2>3. {b.leaves[li] : li \in b.idxs} = {row(s)[li] : li \in is}
    BY <2>2
  <2> QED BY <2>3 DEF b, is
<1>6. ASSUME NEW s \in Subtrees, NEW li \in idxs(s)
      PROVE  row(s)[li] \in Due(t)
  <2>1. li \in LocalIdxs
    BY DEF Places
  <2>2. PICK k \in TxNumbers : row(s)[li] = Name(run, k, sealed(s)) /\ tokenOf[k] = t
    BY DEF Places
  <2>3. PICK lj \in LocalIdxs : row(s)[li] = Name(run, NumberOf(s, lj), sealed(s))
    BY <1>2, <2>1 DEF IsOrdering
  <2>4. k = 0 => s = 0
    <3> SUFFICES ASSUME k = 0, s # 0 PROVE FALSE
      OBVIOUS
    <3>1. ~sealed(s)
      BY <1>2
    <3>2. NumberOf(s, lj) = 0
      BY <2>2, <2>3, <3>1 DEF Name
    <3> QED BY <3>2, NumberZero
  <2>5. row(s)[li] = IF k = 0 THEN Coinbase ELSE Txid(k)
    BY <1>2, <2>2, <2>4 DEF Name, Coinbase, Txid
  <2> QED BY <2>2, <2>5 DEF Due
<1>7. ASSUME NEW h \in Due(t)
      PROVE  \E s \in Subtrees : \E li \in idxs(s) : row(s)[li] = h
  <2>1. PICK k \in TxNumbers : tokenOf[k] = t /\ h = IF k = 0 THEN Coinbase ELSE Txid(k)
    BY DEF Due
  <2>2. PICK s \in Subtrees, lj \in LocalIdxs : k = NumberOf(s, lj)
    BY NumberSplits
  <2>3. PICK li \in LocalIdxs : row(s)[li] = Name(run, k, sealed(s))
    BY <1>2, <2>2 DEF IsOrdering
  <2>4. li \in idxs(s)
    BY <2>1, <2>3 DEF Places
  <2>5. k = 0 => s = 0
    BY <2>2, NumberZero
  <2>6. row(s)[li] = h
    BY <1>2, <2>1, <2>3, <2>5 DEF Name, Coinbase, Txid
  <2> QED BY <2>4, <2>6
<1> HIDE DEF idxs
<1>8. \A h : h \in Proved(t) <=> \E s \in Subtrees : \E li \in idxs(s) : row(s)[li] = h
  <2> SUFFICES ASSUME NEW h
               PROVE  h \in Proved(t)
                        <=> \E s \in Subtrees : \E li \in idxs(s) : row(s)[li] = h
    OBVIOUS
  <2>1. h \in Proved(t)
          <=> \E s \in Subtrees : h \in {bumps[t][s].leaves[li] : li \in bumps[t][s].idxs}
    BY DEF Proved
  <2>2. \A s \in Subtrees :
          h \in {bumps[t][s].leaves[li] : li \in bumps[t][s].idxs}
            <=> \E li \in idxs(s) : row(s)[li] = h
    BY <1>5
  <2> QED BY <2>1, <2>2
<1>9. \A h : h \in Proved(t) <=> h \in Due(t)
  BY <1>6, <1>7, <1>8
<1> QED BY <1>9

(* The inductive invariant holds of every run.                             *)
LEMMA Invariance == Spec => [](TypeOK /\ IInv)
<1>1. Init => TypeOK /\ IInv
  BY InitType, FreshCourse DEF Init
<1>2. (TypeOK /\ IInv) /\ [Next]_vars => (TypeOK /\ IInv)'
  BY StepType, StepInv
<1> QED BY <1>1, <1>2, PTL DEF Spec

(* At every point of every run the types are right and, unless an error    *)
(* was logged, memory and disk hold what the program has got to.           *)
THEOREM InductiveInvariant == Spec => []Inv
<1>1. TypeOK /\ IInv => Inv
  BY DEF Inv
<1> QED BY <1>1, Invariance, PTL

(* In a clean run subtree 0 of the winner is on disk and holds firstTxid.  *)
LEMMA CleanLoad ==
  ASSUME TypeOK, IInv, pc = "load", ~logged
  PROVE  /\ diskSubs[winner][0] # NoLeaves
         /\ FirstTxid \in {diskSubs[winner][0][li] : li \in LocalIdxs}
<1>1. IsOrdering(run, diskSubs[winner][0], 0, FALSE)
  BY ZeroIsFirst
     DEF IInv, OnCourse, Course, RowsInv, DiskInv, Rooted, Finalizing, Resealed, TypeOK
<1>2. NumberOf(0, 0) = 0
  BY ShapeAssumption DEF NumberOf
<1>3. \E li \in LocalIdxs : diskSubs[winner][0][li] = FirstTxid
  BY <1>1, <1>2, ZeroIsFirst DEF IsOrdering, Name, FirstTxid, Txid
<1>4. DOMAIN diskSubs[winner][0] = LocalIdxs
  BY <1>1 DEF IsOrdering, Orderings
<1>5. DOMAIN NoLeaves = {}
  BY DEF NoLeaves
<1> QED BY <1>3, <1>4, <1>5, ZeroIsFirst

(* No step logs an error, or exits, before a disk operation has failed.    *)
LEMMA StepError ==
  TypeOK /\ IInv /\ ErrorOnlyAfterFailure /\ [Next]_vars => ErrorOnlyAfterFailure'
<1> SUFFICES ASSUME TypeOK, IInv, ErrorOnlyAfterFailure, [Next]_vars
             PROVE  ErrorOnlyAfterFailure'
  OBVIOUS
<1> USE DEF ErrorOnlyAfterFailure, Failure, NoFailure
<1>1. failures \in Nat
  BY DEF TypeOK
<1>2. CASE LoadAndReplace
  BY <1>2, CleanLoad DEF LoadAndReplace
<1>3. CASE LoadFails
  BY <1>1, <1>3, CleanLoad DEF LoadFails
<1>4. ASSUME Failure \/ NoFailure, pc' # "exited" PROVE ErrorOnlyAfterFailure'
  <2>1. CASE Failure
    BY <1>1, <2>1
  <2>2. CASE NoFailure
    BY <1>4, <2>2
  <2> QED BY <1>4, <2>1, <2>2
<1> HIDE DEF Failure, NoFailure, ErrorOnlyAfterFailure
<1>5. CASE SaveMiner
  BY <1>4, <1>5 DEF SaveMiner, SaveSub
<1>6. CASE FlushFragment \/ ReflushFragment
  BY <1>4, <1>6 DEF FlushFragment, ReflushFragment, WriteFragment
<1>7. CASE Resave
  BY <1>4, <1>7 DEF Resave, SaveSub
<1>8. ASSUME NEW t \in Businesses, ProcessToken(t) PROVE ErrorOnlyAfterFailure'
  <2>1. Failure \/ NoFailure
    BY <1>8 DEF ProcessToken
  <2> QED BY <1>4, <1>8, <2>1 DEF ProcessToken
<1> USE DEF Failure, NoFailure, ErrorOnlyAfterFailure
<1>9. CASE Generate \/ (\E m \in Miners : JitterSwap(m)) \/ SubtreesBuilt \/ IndexMiner
  BY <1>9 DEF Generate, StartSubtree, JitterSwap, SubtreesBuilt, IndexMiner
<1>10. CASE MinerSealed
  BY <1>10 DEF MinerSealed, StartSubtree
<1>11. CASE SelectWinner \/ BlockFinalized \/ AllProcessed \/ Kill \/ Restart
  BY <1>11 DEF SelectWinner, BlockFinalized, AllProcessed, Kill, Restart
<1>12. CASE UNCHANGED vars
  BY <1>12 DEF vars
<1> QED BY <1>2, <1>3, <1>4, <1>5, <1>6, <1>7, <1>8, <1>9, <1>10, <1>11, <1>12 DEF Next, Step

(* A clean run never fails to finalize the block, and logs nothing.        *)
THEOREM ErrorOnlyAfterFailureHolds == Spec => []ErrorOnlyAfterFailure
<1>1. Init => ErrorOnlyAfterFailure
  BY DEF Init, ErrorOnlyAfterFailure
<1> QED BY <1>1, Invariance, StepError, PTL DEF Spec

(* NoSilentLoss for every number of miners, subtrees, leaves, tokens,      *)
(* swaps, starts and failures.                                             *)
THEOREM NoSilentLossHolds == Spec => []NoSilentLoss
BY Invariance, CourseNoSilentLoss, PTL

(* No BUMP mixes fragments of different roots.                             *)
THEOREM BuiltOnFinalRootsHolds == Spec => []BuiltOnFinalRoots
BY Invariance, CourseBuiltOnFinalRoots, PTL

(* The winner's subtrees on disk are those of the final roots.             *)
THEOREM DiskHoldsWinnerHolds == Spec => []DiskHoldsWinner
BY Invariance, CourseDiskHoldsWinner, PTL

(***************************************************************************)
(* The BUMPs assembled from the fragments.                                 *)
(***************************************************************************)

(* The subtrees of the rows, as a block of module MerkleTreeProofs.        *)
LEMMA RowsBlock ==
  ASSUME NEW rows, NEW blk, blk = [s \in Subtrees |-> LeafRow(rows[s])]
  PROVE  /\ IsBlock(blk)
         /\ \A g \in Leafs : LeafAt(blk, g) = <<rows[SubtreeOf(g)][LocalOf(g)]>>
<1>1. \A s \in Subtrees : blk[s] = [li \in LocalIdxs |-> <<rows[s][li]>>]
  BY DEF LeafRow
<1>2. \A s \in Subtrees, li \in LocalIdxs : blk[s][li] = <<rows[s][li]>>
  BY <1>1
<1>3. \A x : <<x>> # ZeroHash
  BY DEF ZeroHash
<1>4. blk = [s \in Subtrees |-> [li \in LocalIdxs |-> blk[s][li]]]
  <2>1. \A s \in Subtrees : blk[s] = [li \in LocalIdxs |-> blk[s][li]]
    BY <1>1
  <2>2. blk = [s \in Subtrees |-> blk[s]]
    OBVIOUS
  <2> QED BY <2>1, <2>2
<1>5. \A g \in Leafs : LeafAt(blk, g) = <<rows[SubtreeOf(g)][LocalOf(g)]>>
  BY <1>2, Located DEF LeafAt
<1>6. \A s \in Subtrees, li \in LocalIdxs : blk[s][li] # ZeroHash
  BY <1>2, <1>3
<1>7. IsBlock(blk)
  BY <1>4, <1>6 DEF IsBlock
<1> QED BY <1>5, <1>7

(* The roots of the rows, what AssembledBump makes of fragments, and the   *)
(* leaves at the positions idxs of the rows.                               *)
RowRoots(rows) == [s \in Subtrees |-> MerkleRoot(LeafRow(rows[s]))]

AssembledFrom(bump, roots) ==
  LET used == {s \in Subtrees : bump[s] # NoFragment}
  IN AssembleTokenBUMPFromFragments([s \in used |-> Fragment(bump[s], s)],
                                    [s \in used |-> s], GetAllProofs(roots).proofs)

(* The bump of the fragments of the rows at the positions idxs.            *)
HasFragments(bump, rows, idxs) ==
  \A s \in Subtrees :
    /\ idxs[s] \in SUBSET LocalIdxs
    /\ bump[s] = IF idxs[s] # {} THEN [leaves |-> rows[s], idxs |-> idxs[s]] ELSE NoFragment

LeavesAt(rows, idxs) == UNION {{rows[s][li] : li \in idxs[s]} : s \in Subtrees}

(* What is assembled from the fragments of the positions idxs in the rows  *)
(* flags the leaves at those positions, and each of them verifies.         *)
LEMMA AssembledFromRows ==
  ASSUME PowerOfTwoSubtrees,
         NEW rows, NEW idxs, NEW bump, HasFragments(bump, rows, idxs),
         NEW roots, roots = RowRoots(rows),
         NEW path, path = AssembledFrom(bump, roots)
  PROVE  /\ \A x : (\E e \in Flagged(path) : e.hash = x)
                   <=> (\E h \in LeavesAt(rows, idxs) : x = <<h>>)
         /\ \A e \in Flagged(path) :
              ComputeRoot(path, e.offset, e.hash) = MerkleRoot(roots)
<1>1. \A s \in Subtrees :
        /\ idxs[s] \in SUBSET LocalIdxs
        /\ bump[s] = IF idxs[s] # {} THEN [leaves |-> rows[s], idxs |-> idxs[s]]
                     ELSE NoFragment
  BY DEF HasFragments
<1>2. PICK blk : blk = [s \in Subtrees |-> LeafRow(rows[s])]
  OBVIOUS
<1>3. PICK used : used = {s \in Subtrees : bump[s] # NoFragment}
  OBVIOUS
<1>4. PICK P : P = {x \in Leafs : LocalOf(x) \in idxs[SubtreeOf(x)]}
  OBVIOUS
<1>5. /\ IsBlock(blk) /\ P \in SUBSET Leafs
      /\ \A g \in Leafs : LeafAt(blk, g) = <<rows[SubtreeOf(g)][LocalOf(g)]>>
  BY <1>2, <1>4, RowsBlock
<1>6. /\ RootsOf(blk) = roots /\ BlockRootOf(blk) = MerkleRoot(roots)
      /\ TopProofsOf(blk) = GetAllProofs(roots).proofs
  <2>1. RootsOf(blk) = roots
    BY <1>2 DEF RootsOf, RowRoots
  <2> QED BY <2>1 DEF BlockRootOf, TopProofsOf
<1>7. \A s \in Subtrees : LocalsOf(P, s) = idxs[s]
  <2> SUFFICES ASSUME NEW s \in Subtrees PROVE LocalsOf(P, s) = idxs[s]
    OBVIOUS
  <2>1. \A g \in P : SubtreeOf(g) = s => LocalOf(g) \in idxs[s]
    BY <1>4
  <2>2. ASSUME NEW li \in idxs[s]
        PROVE  \E g \in P : SubtreeOf(g) = s /\ LocalOf(g) = li
    <3>1. li \in LocalIdxs
      BY <1>1
    <3>2. /\ GlobalIdx(s, li) \in Leafs
          /\ SubtreeOf(GlobalIdx(s, li)) = s /\ LocalOf(GlobalIdx(s, li)) = li
      BY <3>1, Global
    <3> QED BY <1>4, <3>2
  <2> QED BY <2>1, <2>2 DEF LocalsOf
<1>8. ASSUME NEW s \in Subtrees
      PROVE  /\ s \in used <=> idxs[s] # {}
             /\ idxs[s] # {} => bump[s].leaves = rows[s] /\ bump[s].idxs = idxs[s]
  <2>1. CASE idxs[s] = {}
    <3>1. bump[s] = NoFragment
      BY <1>1, <2>1
    <3> QED BY <1>3, <2>1, <3>1
  <2>2. CASE idxs[s] # {}
    <3>1. bump[s] = [leaves |-> rows[s], idxs |-> idxs[s]]
      BY <1>1, <2>2
    <3>2. bump[s].leaves = rows[s] /\ bump[s].idxs = idxs[s]
      BY <3>1
    <3>3. NoFragment.idxs = {}
      BY DEF NoFragment
    <3> QED BY <1>3, <2>2, <3>2, <3>3
  <2> QED BY <2>1, <2>2
<1>9. SpannedBy(P) = used
  <2>1. \A g \in P : SubtreeOf(g) \in Subtrees /\ idxs[SubtreeOf(g)] # {}
    BY <1>4, Located
  <2>2. ASSUME NEW s \in used PROVE \E g \in P : SubtreeOf(g) = s
    <3>1. s \in Subtrees /\ LocalsOf(P, s) # {}
      BY <1>3, <1>7, <1>8
    <3> QED BY <3>1 DEF LocalsOf
  <2> QED BY <1>8, <2>1, <2>2 DEF SpannedBy
<1>10. PICK parts : parts = [s \in used |-> Fragment(bump[s], s)]
  OBVIOUS
<1>11. ASSUME NEW s \in used
      PROVE  parts[s] = ExtractSubtreeFragment(blk[s], StoresOf(blk)[s], LocalsOf(P, s), s)
  <2>1. s \in Subtrees /\ idxs[s] # {}
    BY <1>3, <1>8
  <2>2. bump[s].leaves = rows[s] /\ bump[s].idxs = LocalsOf(P, s)
    BY <1>7, <1>8, <2>1
  <2>3. LeafRow(rows[s]) = blk[s] /\ StoresOf(blk)[s] = BuildMerkleStore(blk[s])
    BY <1>2, <2>1 DEF StoresOf
  <2>4. parts[s] = Fragment(bump[s], s)
    BY <1>10
  <2> QED BY <2>2, <2>3, <2>4 DEF Fragment
<1>12. PICK position : position = [s \in used |-> s]
  OBVIOUS
<1>13. \A s \in used : position[s] \in Nat
  BY <1>3, <1>12, ShapeAssumption DEF Subtrees
<1>14. path = BumpOf(blk, P)
  <2>1. DOMAIN parts = SpannedBy(P)
    BY <1>9, <1>10
  <2>2. AssembleTokenBUMPFromFragments(parts, position, TopProofsOf(blk)) = BumpOf(blk, P)
    BY ONLY PowerOfTwoSubtrees, <1>5, <1>9, <1>11, <1>13, <2>1, FragmentsIsBump
  <2> QED BY <1>3, <1>6, <1>10, <1>12, <2>2 DEF AssembledFrom
<1>15. PICK levels : levels = [h \in 0..(TotalHeight - 1) |-> Level(blk, P, h)]
  OBVIOUS
<1>16. TrueLevels(blk, P, levels) /\ path = Prune(levels)
  BY <1>5, <1>14, <1>15, BumpLevels DEF BumpOf
<1>17. Flagged(path) = {Entry(g, LeafAt(blk, g), TRUE) : g \in P}
  <2>1. 0 \in 0..(TotalHeight - 1)
    BY Heights
  <2>2. path[0] = Level(blk, P, 0)
    BY <1>15, <1>16, <2>1 DEF Prune
  <2>3. {e \in Level(blk, P, 0) : e.txid} = {Entry(g, LeafAt(blk, g), TRUE) : g \in P}
    BY ONLY FlaggedOfLevel
  <2> QED BY <2>2, <2>3 DEF Flagged
<1>18. ASSUME NEW g \in P
       PROVE  /\ Entry(g, LeafAt(blk, g), TRUE).offset = g
              /\ Entry(g, LeafAt(blk, g), TRUE).hash = <<rows[SubtreeOf(g)][LocalOf(g)]>>
              /\ ComputeRoot(path, g, LeafAt(blk, g)) = MerkleRoot(roots)
  <2>1. ComputeRoot(path, g, LeafAt(blk, g)) = BlockRootOf(blk)
    BY ONLY PowerOfTwoSubtrees, <1>5, <1>16, TrueLevelsVerify
  <2> QED BY <1>5, <1>6, <2>1 DEF Entry
<1> DEFINE Tx(g) == Entry(g, LeafAt(blk, g), TRUE)
<1>19. /\ Flagged(path) = {Tx(g) : g \in P}
       /\ \A g \in P : Tx(g).hash = <<rows[SubtreeOf(g)][LocalOf(g)]>>
  BY <1>17, <1>18
<1>20. ASSUME NEW g \in P
       PROVE  ComputeRoot(path, Tx(g).offset, Tx(g).hash) = MerkleRoot(roots)
  <2>1. Tx(g).offset = g /\ Tx(g).hash = LeafAt(blk, g)
    BY <1>5, <1>18
  <2> HIDE DEF Tx
  <2> QED BY <1>18, <2>1
<1> HIDE DEF Tx
<1>21. \A x : (\E e \in Flagged(path) : e.hash = x)
               <=> (\E h \in LeavesAt(rows, idxs) : x = <<h>>)
  <2>1. \A x : (\E e \in Flagged(path) : e.hash = x)
                <=> (\E g \in P : x = <<rows[SubtreeOf(g)][LocalOf(g)]>>)
    BY <1>19
  <2>2. ASSUME NEW g \in P PROVE rows[SubtreeOf(g)][LocalOf(g)] \in LeavesAt(rows, idxs)
    BY <1>4, Located DEF LeavesAt
  <2>3. ASSUME NEW h \in LeavesAt(rows, idxs)
        PROVE  \E g \in P : h = rows[SubtreeOf(g)][LocalOf(g)]
    <3>1. PICK s \in Subtrees : \E li \in idxs[s] : h = rows[s][li]
      BY DEF LeavesAt
    <3>2. PICK li \in idxs[s] : h = rows[s][li]
      BY <3>1
    <3>3. li \in LocalsOf(P, s)
      BY <1>7
    <3>4. PICK g \in P : SubtreeOf(g) = s /\ LocalOf(g) = li
      BY <3>3 DEF LocalsOf
    <3> QED BY <3>2, <3>4
  <2> QED BY <2>1, <2>2, <2>3
<1>22. \A e \in Flagged(path) : ComputeRoot(path, e.offset, e.hash) = MerkleRoot(roots)
  BY <1>19, <1>20
<1> QED BY <1>21, <1>22

(* On course, the token's positions in the winner's rows are in its BUMP.  *)
LEMMA CourseBumpsVerify ==
  ASSUME PowerOfTwoSubtrees, TypeOK, IInv PROVE BumpsVerify
<1> SUFFICES ASSUME Assembled, ~logged, NEW t \in Businesses \ todo
             PROVE  LET path == AssembledBump(t)
                    IN /\ {e.hash : e \in Flagged(path)} = {<<h>> : h \in Due(t)}
                       /\ \A e \in Flagged(path) :
                            ComputeRoot(path, e.offset, e.hash) = MerkleRoot(FinalRoots)
  BY DEF BumpsVerify
<1>1. Course /\ winner \in Miners /\ pc \in {"process", "done"}
  BY DEF IInv, OnCourse, Assembled, TypeOK
<1>2. Proved(t) = Due(t)
  BY CourseNoSilentLoss DEF NoSilentLoss
<1>3. PICK rows, idxs, bump :
        /\ rows = minerRoots[winner] /\ idxs = minerTokenIdx[winner][t] /\ bump = bumps[t]
  OBVIOUS
<1>4. \A s \in Subtrees : idxs[s] \in SUBSET LocalIdxs
  BY <1>1, <1>3 DEF TypeOK
<1>5. \A s \in Subtrees :
        bump[s] = IF idxs[s] # {} THEN [leaves |-> rows[s], idxs |-> idxs[s]] ELSE NoFragment
  BY <1>1, <1>3 DEF Course, BumpsInv, FullBump
<1>6. PICK roots, path : roots = FinalRoots /\ path = AssembledBump(t)
  OBVIOUS
<1>7. roots = RowRoots(rows) /\ path = AssembledFrom(bump, roots)
  BY <1>3, <1>6 DEF FinalRoots, RowRoots, AssembledBump, AssembledFrom
<1>8. /\ \A x : (\E e \in Flagged(path) : e.hash = x)
                <=> (\E h \in LeavesAt(rows, idxs) : x = <<h>>)
      /\ \A e \in Flagged(path) :
           ComputeRoot(path, e.offset, e.hash) = MerkleRoot(roots)
  <2>1. HasFragments(bump, rows, idxs)
    BY <1>4, <1>5 DEF HasFragments
  <2> QED BY ONLY PowerOfTwoSubtrees, <1>7, <2>1, AssembledFromRows
<1>9. ASSUME NEW s \in Subtrees
      PROVE  {bump[s].leaves[li] : li \in bump[s].idxs} = {rows[s][li] : li \in idxs[s]}
  <2> DEFINE b == bump[s]
             is == idxs[s]
  <2>1. b = IF is # {} THEN [leaves |-> rows[s], idxs |-> is] ELSE NoFragment
    BY <1>5
  <2> HIDE DEF b, is
  <2>2. b.idxs = is /\ (is # {} => b.leaves = rows[s])
    BY <2>1 DEF NoFragment
  <2>3. {b.leaves[li] : li \in b.idxs} = {rows[s][li] : li \in is}
    BY <2>2
  <2> QED BY <2>3 DEF b, is
<1>10. Proved(t) = LeavesAt(rows, idxs)
  <2>1. \A h : h \in Proved(t)
          <=> \E s \in Subtrees : h \in {bump[s].leaves[li] : li \in bump[s].idxs}
    BY <1>3 DEF Proved
  <2>2. \A h : h \in LeavesAt(rows, idxs)
          <=> \E s \in Subtrees : h \in {rows[s][li] : li \in idxs[s]}
    BY DEF LeavesAt
  <2>3. \A h : h \in Proved(t) <=> h \in LeavesAt(rows, idxs)
    BY <1>9, <2>1, <2>2
  <2> QED BY <2>3, Zenon DEF Proved, LeavesAt
<1>11. {e.hash : e \in Flagged(path)} = {<<h>> : h \in Due(t)}
  BY <1>2, <1>8, <1>10
<1> QED BY <1>6, <1>8, <1>11

(* In a run that has logged no error the BUMP of every token flags exactly *)
(* the token's txids and each of them verifies against the final root,     *)
(* for every number of subtrees and every size of them that is a power of  *)
(* two.                                                                    *)
THEOREM BumpsVerifyHolds ==
  ASSUME PowerOfTwoSubtrees
  PROVE  Spec => []BumpsVerify
<1>1. TypeOK /\ IInv => BumpsVerify
  BY CourseBumpsVerify
<1> QED BY <1>1, Invariance, PTL

(***************************************************************************)
(* The configuration a process is started with.                            *)
(***************************************************************************)

(* The rounding gives at least two subtrees, never more than fit once two  *)
(* do, and leaves less than one step of it unused.                         *)
LEMMA RoundSubtreesFits ==
  ASSUME NEW n \in Nat
  PROVE  /\ RoundSubtrees(n) \in Nat /\ RoundSubtrees(n) >= 2
         /\ n < 2 => RoundSubtrees(n) = 2
         /\ n >= 2 => RoundSubtrees(n) <= n
         /\ n < RoundSubtrees(n) + Slack(RoundSubtrees(n))
BY Z3 DEF RoundSubtrees, Slack

(* A product of two positive numbers.                                      *)
LEMMA ProductType ==
  ASSUME NEW a \in Nat, NEW b \in Nat
  PROVE  a * b \in Nat /\ (a > 0 /\ b > 0 => a * b > 0)
BY Z3

(* Dividing by b and then by d counts how often d * b fits.                *)
LEMMA DivisionBounds ==
  ASSUME NEW a \in Nat, NEW b \in Nat \ {0}, NEW d \in Nat \ {0}
  PROVE  LET k == (a \div b) \div d IN
         k \in Nat /\ k * (d * b) <= a /\ a < (k + 1) * (d * b)
<1> DEFINE q == a \div b
           k == q \div d
<1>1. q \in Nat /\ q * b <= a /\ a < (q + 1) * b
  BY Z3
<1> HIDE DEF q
<1>2. k \in Nat /\ k * d <= q /\ q + 1 <= (k + 1) * d
  BY <1>1, Z3
<1> HIDE DEF k
<1>3. \A x, y \in Nat : x <= y => x * b <= y * b
  BY Z3
<1>4. k * d \in Nat /\ (k + 1) * d \in Nat
  BY <1>2, ProductType
<1>5. (k * d) * b <= q * b /\ (q + 1) * b <= ((k + 1) * d) * b
  BY <1>1, <1>2, <1>3, <1>4
<1>6. \A x \in Nat : (x * d) * b = x * (d * b)
  BY Z3
<1>7. (k * d) * b = k * (d * b) /\ ((k + 1) * d) * b = (k + 1) * (d * b)
  BY <1>2, <1>6
<1>8. (k * d) * b \in Nat /\ q * b \in Nat /\ (q + 1) * b \in Nat /\ ((k + 1) * d) * b \in Nat
  BY <1>1, <1>4, ProductType
<1>9. k * (d * b) <= a /\ a < (k + 1) * (d * b)
  BY <1>1, <1>5, <1>7, <1>8
<1> QED BY <1>2, <1>9 DEF k, q

(* What a subtree of the default size costs.                               *)
SubtreeCost == DefaultSubtree * BytesPerTxid(DefaultMiners)

(* The costs are positive numbers.                                         *)
LEMMA CostTypes ==
  /\ BytesPerTxid(DefaultMiners) \in Nat \ {0} /\ SubtreeCost \in Nat \ {0}
  /\ DefaultSubtree \in Nat \ {0} /\ OverheadBytes \in Nat /\ MinBudget \in Nat
  /\ MinBudget < OverheadBytes
<1>1. {BytesPerTxidBase, BytesPerTxidPerMiner, DefaultSubtree, OverheadBytes, MinBudget} \subseteq Nat
  BY MemoryAssumption
<1>2. DefaultMiners * BytesPerTxidPerMiner \in Nat
  BY <1>1 DEF DefaultMiners
<1>3. BytesPerTxid(DefaultMiners) \in Nat \ {0}
  BY <1>1, <1>2, MemoryAssumption DEF BytesPerTxid
<1> QED BY <1>1, <1>3, MemoryAssumption, ProductType DEF SubtreeCost

(* The number of subtrees for a budget: two, or as many as fit into it     *)
(* beside the overhead, up to the rounding.                                *)
LEMMA SubtreesForBudget ==
  ASSUME NEW budget \in Nat
  PROVE  LET n == NumSubtreesFor(budget) IN
         /\ n \in Nat /\ n >= 2
         /\ n = 2 \/ OverheadBytes + n * SubtreeCost <= budget
         /\ budget >= OverheadBytes => budget < OverheadBytes + (n + Slack(n)) * SubtreeCost
<1> DEFINE bpt       == BytesPerTxid(DefaultMiners)
           left      == budget - OverheadBytes
           available == IF left < 0 THEN DefaultSubtree * bpt ELSE left
           k         == (available \div bpt) \div DefaultSubtree
           n         == RoundSubtrees(k)
<1>1. bpt \in Nat \ {0} /\ SubtreeCost \in Nat \ {0} /\ DefaultSubtree \in Nat \ {0}
      /\ OverheadBytes \in Nat
  BY CostTypes
<1>2. available \in Nat /\ SubtreeCost = DefaultSubtree * bpt
      /\ (left < 0 => available = SubtreeCost) /\ (left >= 0 => available = left) /\ left \in Int
  BY <1>1 DEF SubtreeCost
<1>3. NumSubtreesFor(budget) = n
  BY DEF NumSubtreesFor
<1> HIDE DEF bpt, available
<1>4. k \in Nat /\ k * SubtreeCost <= available /\ available < (k + 1) * SubtreeCost
  BY <1>1, <1>2, DivisionBounds
<1> HIDE DEF k
<1>5. /\ n \in Nat /\ n >= 2 /\ (k < 2 => n = 2) /\ (k >= 2 => n <= k) /\ k + 1 <= n + Slack(n)
      /\ Slack(n) \in Nat
  <2>1. n \in Nat /\ Slack(n) \in Nat
    BY <1>4, RoundSubtreesFits DEF Slack
  <2> QED BY <1>4, <2>1, RoundSubtreesFits
<1> HIDE DEF n
<1>6. \A x, y \in Nat : x <= y => x * SubtreeCost <= y * SubtreeCost
  BY <1>1, Z3
<1>7. /\ n * SubtreeCost \in Nat /\ k * SubtreeCost \in Nat /\ (k + 1) * SubtreeCost \in Nat
      /\ (n + Slack(n)) * SubtreeCost \in Nat
  BY <1>1, <1>4, <1>5, ProductType
<1>8. (k + 1) * SubtreeCost <= (n + Slack(n)) * SubtreeCost
  BY <1>4, <1>5, <1>6
<1>9. budget >= OverheadBytes => budget < OverheadBytes + (n + Slack(n)) * SubtreeCost
  BY <1>1, <1>2, <1>4, <1>7, <1>8 DEF left
<1>10. ASSUME n # 2 PROVE OverheadBytes + n * SubtreeCost <= budget
  <2>1. k >= 2 /\ n <= k
    BY <1>4, <1>5, <1>10
  <2>2. n * SubtreeCost <= k * SubtreeCost
    BY <1>4, <1>5, <1>6, <2>1
  <2>3. left >= 0
    <3>1. SUFFICES ASSUME left < 0 PROVE FALSE
      BY <1>2
    <3>2. 2 * SubtreeCost <= k * SubtreeCost
      BY <1>4, <1>6, <2>1
    <3> QED BY <1>1, <1>2, <1>4, <1>7, <3>1, <3>2
  <2> QED BY <1>1, <1>2, <1>4, <1>7, <2>2, <2>3 DEF left
<1> QED BY <1>3, <1>5, <1>9, <1>10
(* The configuration after the flags have been parsed.                     *)
Parsed ==
  [Default(systemMemory) EXCEPT !.hashesPerBlock   = Or("hashesPerBlock", @),
                                !.hashesPerSubtree = Or("hashesPerSubtree", @),
                                !.numMiners        = Or("numMiners", @),
                                !.dataDir          = Or("dataDir", @)]

(* The configuration that is validated.                                    *)
Chosen ==
  IF ~Given("maxMemory") THEN Parsed
  ELSE IF Given("hashesPerBlock") THEN [Parsed EXCEPT !.maxMemoryBytes = flags.maxMemory]
  ELSE WithMemoryBudget(flags.maxMemory, systemMemory)

ChosenValid ==
  /\ Chosen.hashesPerBlock > 0 /\ Chosen.hashesPerSubtree > 0
  /\ Chosen.hashesPerBlock % Chosen.hashesPerSubtree = 0

ChosenFits == EstimatedMemoryBytes(Chosen) <= Limit(Chosen, systemMemory)

ConfigFields ==
  {"hashesPerBlock", "hashesPerSubtree", "numMiners", "dataDir", "maxMemoryBytes"}

(* At every stage the configuration is the one the flags and the memory of *)
(* the machine determine, the stages that were passed have found it valid, *)
(* and the process gives up only for one of the reasons it checks.         *)
ConfigInv ==
  /\ flags \in CommandLines /\ systemMemory \in Memories
  /\ stage \in {"parse", "override", "validate", "check", "extend", "started", "exited"}
  /\ stage = "parse" => cfg = Default(systemMemory)
  /\ stage # "parse" /\ stage # "exited" => ~flags.requirements
  /\ stage = "override" => cfg = Parsed
  /\ stage \in {"validate", "check", "extend"} => cfg = Chosen
  /\ stage \in {"check", "extend", "started"} => ChosenValid
  /\ stage \in {"extend", "started"} => ChosenFits
  /\ stage = "started" => Chosen.numMiners >= 0
  /\ stage \in {"started", "exited"} /\ ~flags.requirements =>
       \A field \in ConfigFields : cfg[field] = Chosen[field]
  /\ stage = "exited" /\ ~flags.requirements =>
       ~ChosenValid \/ ~ChosenFits \/ Chosen.numMiners < 0

(* What the flags and the memory determine stays as it is.                 *)
LEMMA ChosenStays ==
  ASSUME UNCHANGED <<flags, systemMemory>>
  PROVE  /\ Default(systemMemory)' = Default(systemMemory)
         /\ Parsed' = Parsed /\ Chosen' = Chosen
         /\ ChosenValid' = ChosenValid /\ ChosenFits' = ChosenFits
<1>1. Default(systemMemory)' = Default(systemMemory)
  BY DEF Default, DefaultBudget, NumSubtreesFor, BytesPerTxid, DefaultMiners, RoundSubtrees
<1>2. Parsed' = Parsed /\ Chosen' = Chosen
  BY <1>1 DEF Parsed, Chosen, Or, Given, WithMemoryBudget, Default, DefaultBudget, NumSubtreesFor
<1>3. ChosenValid' = ChosenValid
  BY <1>2, Zenon DEF ChosenValid
<1>4. ChosenFits' = ChosenFits
  BY <1>2, Zenon DEF ChosenFits, EstimatedMemoryBytes, Limit, BytesPerTxid
<1> QED BY <1>1, <1>2, <1>3, <1>4

(* Every configuration is one record with the fields of config.Config.     *)
LEMMA ConfigTypes ==
  ASSUME flags \in CommandLines, systemMemory \in Memories
  PROVE  /\ DefaultBudget(systemMemory) \in Nat /\ systemMemory \in Nat
         /\ Chosen.hashesPerBlock \in Int /\ Chosen.hashesPerSubtree \in Int
         /\ Chosen.numMiners \in Int /\ Chosen.maxMemoryBytes \in Int
         /\ EstimatedMemoryBytes(Chosen) \in Int /\ Limit(Chosen, systemMemory) \in Int
<1>1. systemMemory \in Nat /\ DefaultBudget(systemMemory) \in Nat
  <2>1. systemMemory \in Nat /\ MinBudget \in Nat
    BY MemoryAssumption
  <2>2. (systemMemory * 55) \div 100 \in Nat
    BY <2>1, Z3
  <2> QED BY <2>1, <2>2 DEF DefaultBudget
<1>2. \A b \in Nat : NumSubtreesFor(b) * DefaultSubtree \in Nat
  BY SubtreesForBudget, CostTypes, ProductType
<1>3. /\ Parsed.hashesPerBlock \in Int /\ Parsed.hashesPerSubtree \in Int
      /\ Parsed.numMiners \in Int /\ Parsed.maxMemoryBytes \in Int
  BY <1>1, <1>2, CostTypes, CommandLinesAssumption DEF Parsed, Or, Given, Default, DefaultMiners
<1>4. /\ Chosen.hashesPerBlock \in Int /\ Chosen.hashesPerSubtree \in Int
      /\ Chosen.numMiners \in Int /\ Chosen.maxMemoryBytes \in Int
  <2>1. CASE ~Given("maxMemory")
    BY <1>3, <2>1 DEF Chosen
  <2> SUFFICES ASSUME Given("maxMemory")
               PROVE  /\ Chosen.hashesPerBlock \in Int /\ Chosen.hashesPerSubtree \in Int
                      /\ Chosen.numMiners \in Int /\ Chosen.maxMemoryBytes \in Int
    BY <2>1
  <2>2. flags.maxMemory \in Nat /\ MinBudget \in Nat
    BY CommandLinesAssumption, MemoryAssumption DEF Given
  <2>3. CASE Given("hashesPerBlock")
    BY <1>3, <2>2, <2>3 DEF Chosen, Parsed, Default
  <2>4. CASE ~Given("hashesPerBlock")
    <3>1. Chosen = WithMemoryBudget(flags.maxMemory, systemMemory)
      BY <2>4 DEF Chosen
    <3> QED BY <1>2, <2>2, <3>1, CostTypes DEF WithMemoryBudget, Default, DefaultMiners
  <2> QED BY <2>3, <2>4
<1>5. BytesPerTxid(Chosen.numMiners) \in Int
  <2>1. \A x, y, z \in Int : x + y * z \in Int
    BY Z3
  <2> QED BY <1>4, <2>1, MemoryAssumption DEF BytesPerTxid
<1>6. EstimatedMemoryBytes(Chosen) \in Int
  <2>1. \A x, y, z \in Int : x * y + z \in Int
    BY Z3
  <2> QED BY <1>4, <1>5, <2>1, MemoryAssumption DEF EstimatedMemoryBytes
<1>7. Limit(Chosen, systemMemory) \in Int
  <2>1. (systemMemory * 55) \div 100 \in Int
    BY <1>1, Z3
  <2> QED BY <1>4, <2>1 DEF Limit
<1> QED BY <1>1, <1>4, <1>6, <1>7

(* The invariant holds of a process that is starting.                      *)
LEMMA ConfigInitInv == ConfigInit => ConfigInv
BY DEF ConfigInit, ConfigInv

(* Every stage keeps it.                                                   *)
LEMMA ConfigNextInv ==
  ASSUME ConfigInv, [ConfigNext]_configVars
  PROVE  ConfigInv'
<1>1. CASE UNCHANGED configVars
  <2>1. UNCHANGED <<flags, systemMemory>> /\ stage' = stage /\ cfg' = cfg
    BY <1>1 DEF configVars
  <2> QED BY <2>1, ChosenStays DEF ConfigInv
<1> SUFFICES ASSUME ConfigNext PROVE ConfigInv'
  BY <1>1
<1>2. UNCHANGED <<flags, systemMemory>>
  BY DEF ConfigNext, Parse, Override, Validate, CheckMemory, ExtendJitter
<1>3. flags' \in CommandLines /\ systemMemory' \in Memories
  BY <1>2 DEF ConfigInv
<1>4. flags.requirements \in BOOLEAN
  BY CommandLinesAssumption DEF ConfigInv
<1>5. CASE Parse
  <2>1. stage = "parse" /\ cfg = Default(systemMemory)
    BY <1>5 DEF Parse, ConfigInv
  <2>2. cfg' = Parsed
    BY <1>5, <2>1 DEF Parse, Parsed
  <2>3. /\ stage' = (IF flags.requirements THEN "exited" ELSE "override")
        /\ flags.requirements' = flags.requirements
    BY <1>2, <1>5 DEF Parse
  <2> QED BY <1>2, <1>3, <1>4, <2>2, <2>3, ChosenStays DEF ConfigInv
<1>6. CASE Override
  <2>1. stage = "override" /\ cfg = Parsed /\ ~flags.requirements
    BY <1>6 DEF Override, ConfigInv
  <2>2. cfg' = Chosen /\ stage' = "validate"
    BY <1>6, <2>1 DEF Override, Chosen
  <2> QED BY <1>2, <1>3, <2>1, <2>2, ChosenStays DEF ConfigInv
<1>7. CASE Validate
  <2>1. stage = "validate" /\ cfg = Chosen /\ ~flags.requirements
    BY <1>7 DEF Validate, ConfigInv
  <2>2. cfg' = Chosen /\ stage' = (IF ChosenValid THEN "check" ELSE "exited")
    <3>1. Chosen.hashesPerBlock \in Int /\ Chosen.hashesPerSubtree \in Int
      BY ConfigTypes DEF ConfigInv
    <3> QED BY <1>7, <2>1, <3>1 DEF Validate, ChosenValid
  <2> QED BY <1>2, <1>3, <2>1, <2>2, ChosenStays DEF ConfigInv
<1>8. CASE CheckMemory
  <2>1. stage = "check" /\ cfg = Chosen /\ ~flags.requirements /\ ChosenValid
    BY <1>8 DEF CheckMemory, ConfigInv
  <2>2. cfg' = Chosen /\ stage' = (IF ChosenFits THEN "extend" ELSE "exited")
    <3>1. EstimatedMemoryBytes(Chosen) \in Int /\ Limit(Chosen, systemMemory) \in Int
      BY ConfigTypes DEF ConfigInv
    <3> QED BY <1>8, <2>1, <3>1 DEF CheckMemory, ChosenFits
  <2> QED BY <1>2, <1>3, <2>1, <2>2, ChosenStays DEF ConfigInv
<1>9. CASE ExtendJitter
  <2>1. stage = "extend" /\ cfg = Chosen /\ ~flags.requirements /\ ChosenValid /\ ChosenFits
    BY <1>9 DEF ExtendJitter, ConfigInv
  <2>2. Chosen.numMiners \in Int
    BY ConfigTypes DEF ConfigInv
  <2>3. CASE Chosen.numMiners < 0
    <3>1. cfg' = Chosen /\ stage' = "exited"
      BY <1>9, <2>1, <2>3 DEF ExtendJitter
    <3> QED BY <1>2, <1>3, <2>1, <2>3, <3>1, ChosenStays DEF ConfigInv
  <2>4. CASE ~(Chosen.numMiners < 0)
    <3>1. stage' = "started" /\ Chosen.numMiners >= 0
      BY <1>9, <2>1, <2>2, <2>4 DEF ExtendJitter
    <3>2. ASSUME NEW field \in ConfigFields PROVE cfg'[field] = Chosen[field]
      <4>1. cfg' = [cfg EXCEPT !.jitterPercent =
                         [m \in 1..cfg.numMiners |-> IF m <= Len(@) THEN @[m] ELSE 10]]
        BY <1>9, <2>1, <2>4 DEF ExtendJitter
      <4>2. ConfigFields \subseteq DOMAIN cfg /\ "jitterPercent" \notin ConfigFields
        BY <2>1 DEF ConfigFields, Chosen, Parsed, WithMemoryBudget, Default
      <4>3. cfg'[field] = cfg[field]
        BY <4>1, <4>2, Zenon
      <4> QED BY <2>1, <4>3
    <3> QED BY <1>2, <1>3, <2>1, <3>1, <3>2, ChosenStays DEF ConfigInv
  <2> QED BY <2>3, <2>4
<1> QED BY <1>5, <1>6, <1>7, <1>8, <1>9 DEF ConfigNext

(* A flag that was given counts, unless the memory budget replaces all.    *)
LEMMA ConfigInvFlagsKept == ConfigInv => FlagsKeptExactly
<1> SUFFICES ASSUME ConfigInv, stage = "started" PROVE FlagsKeptExactly
  BY DEF FlagsKeptExactly
<1>1. \A field \in ConfigFields : cfg[field] = Chosen[field]
  BY DEF ConfigInv
<1>2. CASE Given("maxMemory") /\ ~Given("hashesPerBlock")
  <2>1. Chosen = WithMemoryBudget(flags.maxMemory, systemMemory)
    BY <1>2 DEF Chosen
  <2>2. \A field \in {"hashesPerSubtree", "numMiners", "dataDir"} :
          Chosen[field] = Default(systemMemory)[field]
    BY <2>1 DEF WithMemoryBudget, Default
  <2> QED BY <1>1, <1>2, <2>2 DEF FlagsKeptExactly, ConfigFields
<1>3. CASE ~(Given("maxMemory") /\ ~Given("hashesPerBlock"))
  <2>1. ASSUME NEW flag \in {"hashesPerBlock", "hashesPerSubtree", "numMiners", "dataDir"},
               Given(flag)
        PROVE  cfg[flag] = flags[flag]
    <3>1. Parsed[flag] = flags[flag]
      BY <2>1 DEF Parsed, Or, Default
    <3>2. Chosen[flag] = Parsed[flag]
      BY <1>3, <2>1 DEF Chosen, Parsed, Default
    <3> QED BY <1>1, <2>1, <3>1, <3>2 DEF ConfigFields
  <2> QED BY <1>3, <2>1 DEF FlagsKeptExactly
<1> QED BY <1>2, <1>3

(* A scale of its own choosing fits the budget or is refused rightly.      *)
LEMMA ConfigInvScaled == ConfigInv => ScaledToBudget
<1> SUFFICES ASSUME ConfigInv, stage \in {"started", "exited"}, ~ScaleFromFlags, ~flags.requirements
             PROVE  ScaledToBudget
  BY DEF ScaledToBudget
<1> DEFINE given == Given("maxMemory")
           raised == IF flags.maxMemory < MinBudget THEN MinBudget ELSE flags.maxMemory
           budget == IF given THEN raised ELSE DefaultBudget(systemMemory)
           n      == NumSubtreesFor(budget)
           limit  == Limit(cfg, systemMemory)
           max    == cfg.maxMemoryBytes
<1>1. flags \in CommandLines /\ systemMemory \in Memories
  BY DEF ConfigInv
<1>2. \A field \in ConfigFields : cfg[field] = Chosen[field]
  BY DEF ConfigInv
<1>3. systemMemory \in Nat /\ DefaultBudget(systemMemory) \in Nat /\ MinBudget \in Nat
      /\ DefaultBudget(systemMemory) >= MinBudget
  <2>1. systemMemory \in Nat /\ MinBudget \in Nat
    BY <1>1, MemoryAssumption
  <2>2. (systemMemory * 55) \div 100 \in Nat
    BY <2>1, Z3
  <2> QED BY <2>1, <2>2 DEF DefaultBudget
<1>4. given => flags.maxMemory \in Nat
  BY <1>1, CommandLinesAssumption DEF Given
<1>5. budget \in Nat /\ budget >= MinBudget
  BY <1>3, <1>4
<1>6. /\ Chosen.hashesPerBlock = n * DefaultSubtree
      /\ Chosen.hashesPerSubtree = DefaultSubtree
      /\ Chosen.numMiners = DefaultMiners
      /\ Chosen.maxMemoryBytes = (IF given THEN flags.maxMemory ELSE budget)
  <2>1. ~Given("hashesPerBlock") /\ ~Given("hashesPerSubtree") /\ ~Given("numMiners")
    BY DEF ScaleFromFlags
  <2>2. CASE given
    <3>1. Chosen = WithMemoryBudget(flags.maxMemory, systemMemory)
      BY <2>1, <2>2 DEF Chosen
    <3> QED BY <2>2, <3>1 DEF WithMemoryBudget, Default
  <2>3. CASE ~given
    <3>1. Chosen = Parsed
      BY <2>3 DEF Chosen
    <3> QED BY <2>1, <2>3, <3>1 DEF Parsed, Or, Default
  <2> QED BY <2>2, <2>3
<1>7. /\ cfg.hashesPerBlock = n * DefaultSubtree /\ max = Chosen.maxMemoryBytes
  BY <1>2, <1>6 DEF ConfigFields
<1> HIDE DEF budget
<1>8. /\ n \in Nat /\ n >= 2
      /\ n = 2 \/ OverheadBytes + n * SubtreeCost <= budget
      /\ budget >= OverheadBytes => budget < OverheadBytes + (n + Slack(n)) * SubtreeCost
  BY <1>5, SubtreesForBudget
<1>9. SubtreeCost \in Nat \ {0} /\ DefaultSubtree \in Nat \ {0} /\ OverheadBytes \in Nat
      /\ MinBudget < OverheadBytes
  BY CostTypes
<1> HIDE DEF n
<1>10. (n * DefaultSubtree) \div DefaultSubtree = n /\ (n * DefaultSubtree) % DefaultSubtree = 0
       /\ n * DefaultSubtree > 0
  BY <1>8, <1>9, Z3
<1>11. limit = Limit(Chosen, systemMemory) /\ limit \in Int
  <2>1. limit = Limit(Chosen, systemMemory)
    BY <1>7 DEF Limit
  <2> QED BY <1>1, <2>1, ConfigTypes
<1>12. /\ limit = (IF max <= 0 THEN (systemMemory * 55) \div 100 ELSE max) /\ max \in Int
  <2>1. max \in Int
    BY <1>4, <1>5, <1>6, <1>7
  <2> QED BY <2>1 DEF Limit
<1>13. ChosenValid
  BY <1>6, <1>9, <1>10 DEF ChosenValid
<1>14. EstimatedMemoryBytes(Chosen) = n * SubtreeCost + OverheadBytes
  <2>1. \A x, y, z \in Nat : (x * y) * z = x * (y * z)
    BY Z3
  <2> QED BY <1>6, <1>8, <2>1, CostTypes DEF EstimatedMemoryBytes, SubtreeCost
<1>15. stage = "started" <=> n * SubtreeCost + OverheadBytes <= limit
  <2>1. Chosen.numMiners = 3
    BY <1>6 DEF DefaultMiners
  <2>2. stage = "started" => ChosenFits
    BY DEF ConfigInv
  <2>3. stage = "exited" => ~ChosenFits
    BY <1>13, <2>1 DEF ConfigInv
  <2> QED BY <1>11, <1>14, <2>2, <2>3 DEF ChosenFits
<1>16. n * SubtreeCost \in Nat /\ 2 * SubtreeCost \in Nat /\ 2 * SubtreeCost <= n * SubtreeCost
       /\ (n + Slack(n)) * SubtreeCost \in Int
  <2>1. \A x \in Nat : x >= 2 => 2 * SubtreeCost <= x * SubtreeCost
    BY <1>9, Z3
  <2>2. n + Slack(n) \in Nat
    BY <1>8 DEF Slack
  <2> QED BY <1>8, <1>9, <2>1, <2>2, ProductType
<1>17. /\ max > 0 => limit = max
       /\ ~(max = budget) => max < MinBudget
       /\ max = budget => (budget = 0 \/ limit = budget)
  BY <1>3, <1>4, <1>5, <1>6, <1>7, <1>12 DEF budget
<1> HIDE DEF limit, max
<1>18. stage = "started" <=> limit >= OverheadBytes + 2 * SubtreeCost
  <2>1. CASE n = 2
    BY <1>9, <1>11, <1>15, <1>16, <2>1
  <2>2. CASE n # 2
    <3>1. OverheadBytes + n * SubtreeCost <= budget
      BY <1>8, <2>2
    <3>2. budget = flags.maxMemory \/ ~given
      BY <1>3, <1>4, <1>5, <1>9, <1>16, <3>1 DEF budget
    <3>3. limit = budget
      BY <1>3, <1>5, <1>6, <1>7, <1>9, <1>16, <1>17, <3>1, <3>2 DEF budget
    <3> QED BY <1>5, <1>9, <1>11, <1>15, <1>16, <3>1, <3>3
  <2> QED BY <2>1, <2>2
<1>19. ASSUME stage = "started", max > 0
       PROVE  limit < OverheadBytes + (n + Slack(n)) * SubtreeCost
  <2>1. limit >= OverheadBytes + 2 * SubtreeCost /\ limit = max
    BY <1>17, <1>18, <1>19
  <2>2. max = budget
    BY <1>3, <1>9, <1>11, <1>16, <1>17, <2>1
  <2> QED BY <1>5, <1>8, <1>9, <1>16, <2>1, <2>2
<1>20. cfg.hashesPerBlock \div DefaultSubtree = n
  BY <1>7, <1>10
<1> QED BY <1>18, <1>19, <1>20 DEF ScaledToBudget, SubtreeCost, limit, max

(* A process that chooses its scale itself fills its memory budget, and    *)
(* gives up exactly when two subtrees do not fit.                          *)
THEOREM ConfigScaled == ConfigSpec => []ScaledToBudget
<1>1. ConfigInv /\ [ConfigNext]_configVars => ConfigInv'
  BY ConfigNextInv
<1> QED BY <1>1, ConfigInitInv, ConfigInvScaled, PTL DEF ConfigSpec

(* A flag that was given is what the run uses, except when -max-memory     *)
(* replaces the whole configuration.                                       *)
THEOREM ConfigFlagsKept == ConfigSpec => []FlagsKeptExactly
<1>1. ConfigInv /\ [ConfigNext]_configVars => ConfigInv'
  BY ConfigNextInv
<1> QED BY <1>1, ConfigInitInv, ConfigInvFlagsKept, PTL DEF ConfigSpec

(* A scale the harness chose itself is one that the rest of the program    *)
(* can run with (PipelineAssumption): several miners, subtrees of the      *)
(* default size, at least two of them, and no txid left over.              *)
ScaleRuns ==
  stage = "started" /\ ~ScaleFromFlags =>
    LET n == cfg.hashesPerBlock \div cfg.hashesPerSubtree
    IN /\ cfg.numMiners = DefaultMiners
       /\ cfg.hashesPerSubtree = DefaultSubtree
       /\ n \in Nat \ {0, 1}
       /\ cfg.hashesPerBlock = n * cfg.hashesPerSubtree

(* The invariant says so.                                                  *)
LEMMA ConfigInvScaleRuns == ConfigInv => ScaleRuns
<1> SUFFICES ASSUME ConfigInv, stage = "started", ~ScaleFromFlags PROVE ScaleRuns
  BY DEF ScaleRuns
<1>1. \A field \in ConfigFields : cfg[field] = Chosen[field]
  BY DEF ConfigInv
<1>2. flags \in CommandLines /\ systemMemory \in Memories
  BY DEF ConfigInv
<1>3. DefaultBudget(systemMemory) \in Nat /\ MinBudget \in Nat
  BY <1>2, ConfigTypes, CostTypes
<1>4. PICK b \in Nat : /\ Chosen.hashesPerBlock = NumSubtreesFor(b) * DefaultSubtree
                       /\ Chosen.hashesPerSubtree = DefaultSubtree
                       /\ Chosen.numMiners = DefaultMiners
  <2>1. ~Given("hashesPerBlock") /\ ~Given("hashesPerSubtree") /\ ~Given("numMiners")
    BY DEF ScaleFromFlags
  <2>2. CASE Given("maxMemory")
    <3>1. Chosen = WithMemoryBudget(flags.maxMemory, systemMemory)
      BY <2>1, <2>2 DEF Chosen
    <3>2. flags.maxMemory \in Nat
      BY <1>2, <2>2, CommandLinesAssumption DEF Given
    <3> QED BY <1>3, <3>1, <3>2 DEF WithMemoryBudget, Default
  <2>3. CASE ~Given("maxMemory")
    <3>1. Chosen = Parsed
      BY <2>3 DEF Chosen
    <3> QED BY <1>3, <2>1, <3>1 DEF Parsed, Or, Default
  <2> QED BY <2>2, <2>3
<1> DEFINE n == NumSubtreesFor(b)
<1>5. n \in Nat /\ n >= 2
  BY SubtreesForBudget
<1> HIDE DEF n
<1>6. (n * DefaultSubtree) \div DefaultSubtree = n
  BY <1>5, CostTypes, Z3
<1>7. /\ cfg.hashesPerBlock = n * DefaultSubtree /\ cfg.hashesPerSubtree = DefaultSubtree
      /\ cfg.numMiners = DefaultMiners
  BY <1>1, <1>4 DEF ConfigFields, n
<1> QED BY <1>5, <1>6, <1>7 DEF ScaleRuns

(* A scale of its own choosing can be run with.                            *)
THEOREM ConfigRuns == ConfigSpec => []ScaleRuns
<1>1. ConfigInv /\ [ConfigNext]_configVars => ConfigInv'
  BY ConfigNextInv
<1> QED BY <1>1, ConfigInitInv, ConfigInvScaleRuns, PTL DEF ConfigSpec
=============================================================================
