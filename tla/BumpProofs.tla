----------------------------- MODULE BumpProofs -----------------------------
(***************************************************************************)
(* Proofs about TokenBump and Codec: the BUMP of a token, and its bytes.   *)
(*                                                                         *)
(* TokenBump: for any number of subtrees, any subtree size that is a power *)
(* of two, any set of txids of the token, and whatever the way the BUMP    *)
(* was assembled.  Every way puts the same entries on the levels, those of *)
(* Level (see MerkleTreeProofs): the token's txids and, above each of      *)
(* them, the siblings of its ancestors, with the nodes of the block's tree *)
(* (NodeAt) as their hashes.                                               *)
(*                                                                         *)
(* Codec: for any Base and any items the program encodes.  The parts of an *)
(* encoded item are laid one behind the other (Holds, Laid).  Of a start   *)
(* of those bytes (CutFrom) every round of a decoder reads its part back,  *)
(* or finds that the bytes end before it: all the bytes give the item      *)
(* back, its indices cut to their four bytes (Narrowed), fewer an error.   *)
(***************************************************************************)
EXTENDS TokenBump, Codec, MerkleTreeProofs

(* The block of TokenBump and the token's txids in it, as MerkleTreeProofs *)
(* speaks of them.                                                         *)
LEMMA BlockFacts ==
  /\ IsBlock(Block)
  /\ Stores = StoresOf(Block) /\ Roots = RootsOf(Block)
  /\ TopProofs = TopProofsOf(Block) /\ BlockRoot = BlockRootOf(Block)
  /\ \A g \in Leafs : LeafAt(Block, g) = Leaf(g)
  /\ Spanned = SpannedBy(own)
  /\ \A si : LocalsIn(si) = LocalsOf(own, si)
<1>1. \A si \in Subtrees, li \in LocalIdxs : Block[si][li] = Leaf(GlobalIdx(si, li))
  BY DEF Block
<1>2. Block = [si \in Subtrees |-> [li \in LocalIdxs |-> Block[si][li]]]
  BY DEF Block
<1>3. \A x : Leaf(x) # ZeroHash
  BY DEF Leaf, ZeroHash
<1>4. IsBlock(Block)
  BY <1>1, <1>2, <1>3 DEF IsBlock
<1>5. \A g \in Leafs : LeafAt(Block, g) = Leaf(g)
  BY <1>1, Located DEF LeafAt
<1>6. Stores = StoresOf(Block) /\ Roots = RootsOf(Block)
  BY DEF Stores, StoresOf, Roots, RootsOf
<1>7. TopProofs = TopProofsOf(Block) /\ BlockRoot = BlockRootOf(Block)
  BY <1>6 DEF TopProofs, TopProofsOf, BlockRoot, BlockRootOf
<1>8. Spanned = SpannedBy(own) /\ \A si : LocalsIn(si) = LocalsOf(own, si)
  BY DEF Spanned, SpannedBy, LocalsIn, LocalsOf
<1> QED
  BY <1>4, <1>5, <1>6, <1>7, <1>8

-----------------------------------------------------------------------------
(* The ways to assemble a BUMP.                                            *)

(* assembleTokenBUMPFast.                                                  *)
LEMMA FastIsBump ==
  ASSUME PowerOfTwoSubtrees, own \in SUBSET Leafs
  PROVE  AssembleTokenBUMPFast(own, Loaded, TopProofs) = BumpOf(Block, own)
<1> DEFINE local(si) == {LocalOf(g) : g \in {p \in own : SubtreeOf(p) = si}}
           part == [si \in DOMAIN Loaded |->
                      ExtractSubtreeFragment(Loaded[si].leaves, Loaded[si].store, local(si), si)]
           levels == [h \in 0..(TotalHeight - 1) |->
                        IF h < SubtreeHeight
                        THEN UNION {part[si][h] : si \in DOMAIN part}
                        ELSE TopLevel(h - SubtreeHeight, own, [g \in own |-> g], TopProofs)]
<1>1. AssembleTokenBUMPFast(own, Loaded, TopProofs) = Prune(levels)
  BY DEF AssembleTokenBUMPFast
<1>2. /\ DOMAIN part = Spanned
      /\ \A si \in Spanned :
           part[si] = ExtractSubtreeFragment(Block[si], Stores[si], LocalsIn(si), si)
  BY DEF Loaded, LocalsIn
<1>3. [g \in own |-> g] \in [own -> Nat]
  BY DEF Leafs
<1> HIDE DEF part
<1>4. ASSUME NEW h \in 0..(TotalHeight - 1) PROVE levels[h] = Level(Block, own, h)
  <2>1. CASE h < SubtreeHeight
    <3>1. h \in 0..(SubtreeHeight - 1)
      BY <2>1, Heights
    <3>2. UNION {part[si][h] : si \in DOMAIN part} = Level(Block, own, h)
      BY <1>2, <3>1, LowLevels, BlockFacts
    <3> QED
      BY <2>1, <3>2
  <2>2. CASE ~(h < SubtreeHeight)
    <3>1. TopLevel(h - SubtreeHeight, own, [g \in own |-> g], TopProofs) = Level(Block, own, h)
      <4> DEFINE rank == [g \in own |-> g]
      <4> HIDE DEF rank
      <4>1. rank \in [own -> Nat]
        BY <1>3 DEF rank
      <4>2. TopLevel(h - SubtreeHeight, own, rank, TopProofs) = Level(Block, own, h)
        BY <2>2, <4>1, TopLevels, BlockFacts
      <4> QED
        BY <4>2 DEF rank
    <3> QED
      BY <2>2, <3>1
  <2> QED
    BY <2>1, <2>2
<1>5. levels = [h \in 0..(TotalHeight - 1) |-> levels[h]]
  OBVIOUS
<1> HIDE DEF levels
<1>6. levels = [h \in 0..(TotalHeight - 1) |-> Level(Block, own, h)]
  BY <1>4, <1>5
<1> QED
  BY <1>1, <1>6 DEF BumpOf

(* The legacy assembleTokenBUMP.                                           *)
LEMMA LegacyIsBump ==
  ASSUME PowerOfTwoSubtrees, own \in SUBSET Leafs
  PROVE  AssembleTokenBUMP(own, Loaded, TopProofs) = BumpOf(Block, own)
<1> DEFINE leaves(g) == Loaded[SubtreeOf(g)].leaves
           hashAt(g, h) ==
             LET nLeaves == Len0(leaves(g))
                 pad     == NextPowerOfTwo(nLeaves)
                 li      == LocalOf(g)
             IN IF h = 0 THEN leaves(g)[IF Sibling(li) >= nLeaves THEN li ELSE Sibling(li)]
                ELSE IF h < SubtreeHeight
                THEN Loaded[SubtreeOf(g)].store[LevelOffset(pad, h) + SibPos(pad, li, h)]
                ELSE TopProofs[SubtreeOf(g)][h - SubtreeHeight]
           pair == [g \in own |-> Shift(g, 1)]
           sibOff(h) == [g \in own |-> Sibling(Shift(g, h))]
           levels == [h \in 0..(TotalHeight - 1) |->
             IF h = 0
             THEN {Entry(g, leaves(g)[LocalOf(g)], TRUE) : g \in own}
                  \cup {Entry(Sibling(g), hashAt(g, 0), FALSE) : g \in FirstOf(own, pair)}
             ELSE {Entry(Sibling(Shift(g, h)), hashAt(g, h), FALSE)
                     : g \in FirstOf(own, sibOff(h))}]
<1>1. AssembleTokenBUMP(own, Loaded, TopProofs) = Prune(levels)
  BY DEF AssembleTokenBUMP
<1>2. ASSUME NEW g \in own
      PROVE  /\ SubtreeOf(g) \in Subtrees /\ LocalOf(g) \in LocalIdxs
             /\ g = GlobalIdx(SubtreeOf(g), LocalOf(g))
             /\ leaves(g) = Block[SubtreeOf(g)]
             /\ Loaded[SubtreeOf(g)].store = Stores[SubtreeOf(g)]
  BY Located DEF Loaded, Spanned
<1>3. ASSUME NEW g \in own PROVE leaves(g)[LocalOf(g)] = Leaf(g)
  BY <1>2, Rows, BlockFacts
<1>4. ASSUME NEW g \in own, NEW h \in 0..(TotalHeight - 1)
      PROVE  hashAt(g, h) = NodeAt(Block, h, Sibling(Shift(g, h)))
  <2> DEFINE si == SubtreeOf(g)
             li == LocalOf(g)
             size == Len0(Block[si])
  <2>1. /\ si \in Subtrees /\ li \in LocalIdxs /\ g = GlobalIdx(si, li)
        /\ leaves(g) = Block[si] /\ Loaded[si].store = Stores[si] /\ g \in Leafs /\ g \in Nat
    BY <1>2 DEF Leafs
  <2>2. /\ Block[si][IF Sibling(li) >= size THEN li ELSE Sibling(li)] = NodeAt(Block, 0, Sibling(g))
        /\ \A k \in 1..(SubtreeHeight - 1) :
             /\ SibPos(NextPowerOfTwo(size), li, k) = Sibling(Shift(li, k))
             /\ Stores[si][LevelOffset(NextPowerOfTwo(size), k) + Sibling(Shift(li, k))] =
                  NodeAt(Block, k, Sibling(Shift(g, k)))
    <3> HIDE DEF si, li
    <3> QED
      BY <2>1, SiblingRead, BlockFacts
  <2>3. CASE h = 0
    <3>1. Shift(g, 0) = g
      BY <2>1, ShiftStep
    <3> QED
      BY <2>1, <2>2, <2>3, <3>1
  <2>4. CASE h # 0 /\ h < SubtreeHeight
    <3>1. h \in 1..(SubtreeHeight - 1)
      BY <2>4, Heights
    <3>2. hashAt(g, h) =
            Stores[si][LevelOffset(NextPowerOfTwo(size), h) + SibPos(NextPowerOfTwo(size), li, h)]
      BY <2>1, <2>4
    <3> QED
      BY <2>2, <3>1, <3>2
  <2>5. CASE h # 0 /\ ~(h < SubtreeHeight)
    <3> DEFINE k == h - SubtreeHeight
    <3>1. k \in 0..(TopTreeHeight - 1) /\ SubtreeHeight + k = h
      BY <2>5, Heights
    <3>2. hashAt(g, h) = TopProofs[si][k]
      BY <2>5
    <3> HIDE DEF k
    <3>3. TopProofs[si][k] = NodeAt(Block, SubtreeHeight + k, Sibling(Shift(g, SubtreeHeight + k)))
      BY <2>1, <3>1, TopRead, BlockFacts
    <3> QED
      BY <3>1, <3>2, <3>3
  <2> QED
    BY <2>3, <2>4, <2>5
<1> HIDE DEF hashAt, leaves
<1>5. ASSUME NEW h \in 0..(TotalHeight - 1) PROVE levels[h] = Level(Block, own, h)
  <2>1. CASE h = 0
    <3>1. FirstOf(own, pair) \subseteq own
      BY DEF FirstOf
    <3>2. \A g \in own : hashAt(g, 0) = NodeAt(Block, 0, Sibling(g))
      <4>1. \A g \in own : g \in Nat
        BY DEF Leafs
      <4>2. 0 \in 0..(TotalHeight - 1)
        BY <2>1
      <4> QED
        BY <1>4, <4>1, <4>2, ShiftStep
    <3>3. {Entry(g, leaves(g)[LocalOf(g)], TRUE) : g \in own} =
            {Entry(g, LeafAt(Block, g), TRUE) : g \in own}
      BY <1>3, BlockFacts
    <3>4. {Entry(Sibling(g), hashAt(g, 0), FALSE) : g \in FirstOf(own, pair)} =
            {Entry(Sibling(g), NodeAt(Block, 0, Sibling(g)), FALSE) : g \in FirstOf(own, pair)}
      BY <3>1, <3>2
    <3>5. levels[h] = {Entry(g, leaves(g)[LocalOf(g)], TRUE) : g \in own}
                      \cup {Entry(Sibling(g), hashAt(g, 0), FALSE) : g \in FirstOf(own, pair)}
      BY <2>1
    <3> QED
      BY <2>1, <3>3, <3>4, <3>5 DEF Level
  <2>2. CASE h # 0
    <3> DEFINE off == sibOff(h)
               Ent(g) == Entry(off[g], NodeAt(Block, h, off[g]), FALSE)
    <3>1. FirstOf(own, off) \subseteq own
      BY DEF FirstOf
    <3>2. \A g \in own : off[g] = Sibling(Shift(g, h)) /\ hashAt(g, h) = NodeAt(Block, h, off[g])
      BY <1>4
    <3>3. levels[h] = {Entry(Sibling(Shift(g, h)), hashAt(g, h), FALSE) : g \in FirstOf(own, off)}
      BY <2>2
    <3> HIDE DEF off
    <3>4. levels[h] = {Ent(g) : g \in FirstOf(own, off)}
      <4> HIDE DEF levels
      <4> QED
        BY <3>1, <3>2, <3>3
    <3>5. Level(Block, own, h) = {Ent(g) : g \in own}
      BY <2>2, <3>2 DEF Level
    <3>6. \A g \in own : \E o \in FirstOf(own, off) : off[o] = off[g]
      <4>1. own \in SUBSET Nat
        BY DEF Leafs
      <4> QED
        BY <4>1, FirstCovers
    <3>7. \A g, o : off[o] = off[g] => Ent(o) = Ent(g)
      OBVIOUS
    <3> HIDE DEF Ent, levels
    <3>8. {Ent(g) : g \in FirstOf(own, off)} = {Ent(g) : g \in own}
      BY <3>1, <3>6, <3>7
    <3> QED
      BY <3>4, <3>5, <3>8
  <2> QED
    BY <2>1, <2>2
<1>6. levels = [h \in 0..(TotalHeight - 1) |-> levels[h]]
  OBVIOUS
<1> HIDE DEF levels
<1>7. levels = [h \in 0..(TotalHeight - 1) |-> Level(Block, own, h)]
  BY <1>5, <1>6
<1> QED
  BY <1>1, <1>7 DEF BumpOf

-----------------------------------------------------------------------------
(* buildCompoundBUMP.                                                      *)

(* The token's indices in order are all its indices.                       *)
LEMMA OrderedFacts ==
  ASSUME own \in SUBSET Leafs, NEW up \in BOOLEAN
  PROVE  /\ Cardinality(own) \in Nat
         /\ DOMAIN Ordered(up) = 0..(Cardinality(own) - 1)
         /\ \A i \in 0..(Cardinality(own) - 1) : Ordered(up)[i] \in own
         /\ \A g \in own : \E i \in 0..(Cardinality(own) - 1) : Ordered(up)[i] = g
<1> DEFINE Before(g) == {o \in own : IF up THEN o < g ELSE o > g}
           n == Cardinality(own)
<1>1. IsFiniteSet(own) /\ own \subseteq Nat
  <2>1. NumSubtrees * HashesPerSubtree \in Nat
    BY ShapeAssumption
  <2>2. IsFiniteSet(Leafs)
    BY <2>1, FS_Interval DEF Leafs
  <2>3. IsFiniteSet(own)
    BY <2>2, FS_Subset
  <2> QED
    BY <2>3 DEF Leafs
<1>2. n \in Nat
  BY <1>1, FS_CardinalityType
<1>3. ASSUME NEW g \in own
      PROVE  Cardinality(Before(g)) \in 0..(n - 1)
  <2>1. Before(g) \subseteq own /\ g \notin Before(g)
    BY <1>1
  <2> HIDE DEF Before
  <2>2. /\ IsFiniteSet(Before(g)) /\ Cardinality(Before(g)) <= n
        /\ n = Cardinality(Before(g)) => own = Before(g)
    BY <1>1, <2>1, FS_Subset
  <2>3. Cardinality(Before(g)) \in Nat
    BY <2>2, FS_CardinalityType
  <2> QED
    BY <1>2, <2>1, <2>2, <2>3
<1>4. ASSUME NEW g \in own, NEW o \in own, o \in Before(g)
      PROVE  Cardinality(Before(o)) # Cardinality(Before(g))
  <2>1. Before(o) \subseteq Before(g) /\ o \notin Before(o)
    <3>1. \A x \in own : x \in Nat
      BY <1>1
    <3>2. CASE up
      BY <1>4, <3>1, <3>2
    <3>3. CASE ~up
      BY <1>4, <3>1, <3>3
    <3> QED
      BY <3>2, <3>3
  <2>2. Before(g) \subseteq own
    OBVIOUS
  <2> HIDE DEF Before
  <2>3. IsFiniteSet(Before(g))
    BY <1>1, <2>2, FS_Subset
  <2>4. Cardinality(Before(g)) = Cardinality(Before(o)) => Before(g) = Before(o)
    BY <2>1, <2>3, FS_Subset
  <2> QED
    BY <1>4, <2>1, <2>4
<1>5. ASSUME NEW g \in own, NEW o \in own, Cardinality(Before(o)) = Cardinality(Before(g))
      PROVE  o = g
  <2>1. o # g => o \in Before(g) \/ g \in Before(o)
    BY <1>1
  <2> HIDE DEF Before
  <2> QED
    BY <1>4, <1>5, <2>1
<1> DEFINE place == [g \in own |-> Cardinality(Before(g))]
<1>6. place \in Injection(own, 0..(n - 1))
  <2>1. place \in [own -> 0..(n - 1)]
    BY <1>3
  <2>2. \A g, o \in own : place[g] = place[o] => g = o
    BY <1>5
  <2> HIDE DEF place
  <2> QED
    BY <2>1, <2>2 DEF Injection, IsInjective
<1>7. place \in Surjection(own, 0..(n - 1))
  <2>1. IsFiniteSet(0..(n - 1)) /\ Cardinality(0..(n - 1)) = n
    <3> HIDE DEF n
    <3>1. 0 \in Int /\ n - 1 \in Int
      BY <1>2
    <3>2. /\ IsFiniteSet(0..(n - 1))
          /\ Cardinality(0..(n - 1)) = IF 0 > n - 1 THEN 0 ELSE (n - 1) - 0 + 1
      BY <3>1, FS_Interval
    <3> QED
      BY <1>2, <3>2
  <2> HIDE DEF place, n
  <2>2. Cardinality(own) = Cardinality(0..(n - 1)) <=> place \in Surjection(own, 0..(n - 1))
    BY <1>6, <2>1, FS_Injection
  <2> QED
    BY <2>1, <2>2 DEF n
<1>8. ASSUME NEW i \in 0..(n - 1) PROVE \E g \in own : Cardinality(Before(g)) = i
  <2>1. \E g \in own : place[g] = i
    <3> HIDE DEF place
    <3> QED
      BY <1>7 DEF Surjection
  <2> QED
    BY <2>1
<1>9. Ordered(up) = [i \in 0..(n - 1) |-> CHOOSE g \in own : Cardinality(Before(g)) = i]
  BY DEF Ordered
<1> HIDE DEF Before, n
<1>10. ASSUME NEW i \in 0..(n - 1)
       PROVE  Ordered(up)[i] \in own /\ Cardinality(Before(Ordered(up)[i])) = i
  BY <1>8, <1>9
<1>11. ASSUME NEW g \in own PROVE \E i \in 0..(n - 1) : Ordered(up)[i] = g
  BY <1>3, <1>5, <1>10
<1> QED
  BY <1>2, <1>9, <1>10, <1>11 DEF n

(* The proofs merged so far, when m holds those merged before.             *)
MergedOf(proofs, topProofs, m, i) ==
  IF i = 0 THEN [h \in 0..(TotalHeight - 1) |-> << >>]
  ELSE AccumulateProof(m[i - 1], proofs[i - 1], topProofs)

(* The recursion of MergeProofs has a solution.                            *)
LEMMA MergeProofsDef ==
  ASSUME NEW proofs, NEW topProofs, Len0(proofs) \in Nat
  PROVE  \E m : /\ \A i \in 0..Len0(proofs) : m[i] = MergedOf(proofs, topProofs, m, i)
                /\ MergeProofs(proofs, topProofs) = m[Len0(proofs)]
<1> DEFINE top == Len0(proofs)
           Upto(g, m) == g = [i \in 0..m |-> MergedOf(proofs, topProofs, g, i)]
           T == {m \in 0..top : \E g : Upto(g, m)}
<1>1. 0 \in T
  <2> DEFINE g == [i \in 0..0 |-> MergedOf(proofs, topProofs, << >>, i)]
  <2>1. \A i \in 0..0 : g[i] = MergedOf(proofs, topProofs, g, i)
    BY DEF MergedOf
  <2>2. g = [i \in 0..0 |-> g[i]]
    OBVIOUS
  <2> HIDE DEF g
  <2>3. g = [i \in 0..0 |-> MergedOf(proofs, topProofs, g, i)]
    BY <2>1, <2>2
  <2> QED
    BY <2>3
<1>2. ASSUME NEW m \in 0..(top - 1), m \in T PROVE m + 1 \in T
  <2>1. PICK g : Upto(g, m)
    BY <1>2
  <2> DEFINE f == [i \in 0..(m + 1) |-> MergedOf(proofs, topProofs, g, i)]
  <2>2. \A i \in 0..m : g[i] = MergedOf(proofs, topProofs, g, i)
    BY <2>1
  <2>3. \A i \in 0..m : f[i] = g[i]
    BY <2>2
  <2>4. ASSUME NEW i \in 0..(m + 1)
        PROVE  f[i] = MergedOf(proofs, topProofs, f, i)
    <3>1. f[i] = MergedOf(proofs, topProofs, g, i)
      OBVIOUS
    <3>2. i # 0 => i - 1 \in 0..m
      OBVIOUS
    <3> HIDE DEF f
    <3> QED
      BY <2>3, <3>1, <3>2 DEF MergedOf
  <2>5. f = [i \in 0..(m + 1) |-> f[i]]
    OBVIOUS
  <2> HIDE DEF f
  <2>6. f = [i \in 0..(m + 1) |-> MergedOf(proofs, topProofs, f, i)]
    BY <2>4, <2>5
  <2>7. m + 1 \in 0..top
    OBVIOUS
  <2> QED
    BY <2>6, <2>7
<1> HIDE DEF T
<1>3. top \in T
  BY <1>1, <1>2, UpTo
<1>4. \E g : g = [i \in 0..Len0(proofs) |-> MergedOf(proofs, topProofs, g, i)]
  BY <1>3 DEF T
<1> DEFINE u == CHOOSE g : g = [i \in 0..Len0(proofs) |-> MergedOf(proofs, topProofs, g, i)]
<1>5. u = [i \in 0..Len0(proofs) |-> MergedOf(proofs, topProofs, u, i)]
  BY <1>4
<1>6. MergeProofs(proofs, topProofs) = u[Len0(proofs)]
  BY DEF MergeProofs, MergedOf
<1> HIDE DEF u
<1>7. \A i \in 0..Len0(proofs) : u[i] = MergedOf(proofs, topProofs, u, i)
  BY <1>5
<1> QED
  BY <1>6, <1>7

(* What the maps of buildCompoundBUMP hold once the proofs of the txids at *)
(* Q are merged.  F are the offsets flagged: of each pair with a txid at Q *)
(* one, the one that was merged last.                                      *)
Merged(m, Q, F) ==
  /\ F \subseteq Q
  /\ \A g \in Q : g \in F <=> Sibling(g) \notin F
  /\ DOMAIN m = 0..(TotalHeight - 1)
  /\ \A h \in DOMAIN m :
       DOMAIN m[h] = {Sibling(Shift(g, h)) : g \in Q} \cup (IF h = 0 THEN Q ELSE {})
  /\ \A h \in DOMAIN m : \A off \in DOMAIN m[h] :
       m[h][off] = Entry(off, NodeAt(Block, h, off), h = 0 /\ off \in F)

(* One more proof merged.                                                  *)
LEMMA AccumulateMerged ==
  ASSUME PowerOfTwoSubtrees, NEW Q \in SUBSET Leafs, NEW F, NEW m, Merged(m, Q, F),
         NEW g \in Leafs, NEW proof, proof.globalIdx = g, proof.txid = Leaf(g),
         \A h \in 0..(SubtreeHeight - 1) :
           proof.siblingPath[h] = NodeAt(Block, h, Sibling(Shift(g, h)))
  PROVE  Merged(AccumulateProof(m, proof, TopProofs), Q \cup {g}, (F \ {Sibling(g)}) \cup {g})
<1> DEFINE m2 == AccumulateProof(m, proof, TopProofs)
           Q2 == Q \cup {g}
           F2 == (F \ {Sibling(g)}) \cup {g}
           new(h) == Sibling(Shift(g, h))
<1>1. /\ DOMAIN m = 0..(TotalHeight - 1) /\ F \subseteq Q
      /\ \A o \in Q : o \in F <=> Sibling(o) \notin F
      /\ \A h \in DOMAIN m :
           DOMAIN m[h] = {Sibling(Shift(o, h)) : o \in Q} \cup (IF h = 0 THEN Q ELSE {})
      /\ \A h \in DOMAIN m : \A off \in DOMAIN m[h] :
           m[h][off] = Entry(off, NodeAt(Block, h, off), h = 0 /\ off \in F)
  BY DEF Merged
<1>2. g \in Nat /\ Q \subseteq Nat
  BY DEF Leafs
<1>3. m2 = [h \in DOMAIN m |->
              [off \in DOMAIN m[h] \cup {new(h)} \cup (IF h = 0 THEN {g} ELSE {}) |->
                 IF off = new(h)
                 THEN Entry(off, IF h < SubtreeHeight THEN proof.siblingPath[h]
                                 ELSE TopProofs[SubtreeOf(g)][h - SubtreeHeight], FALSE)
                 ELSE IF h = 0 /\ off = g THEN Entry(g, proof.txid, TRUE)
                 ELSE m[h][off]]]
  BY DEF AccumulateProof
<1> HIDE DEF m2
<1>4. DOMAIN m2 = 0..(TotalHeight - 1)
  BY <1>1, <1>3
<1>5. ASSUME NEW h \in DOMAIN m2
      PROVE  DOMAIN m2[h] = {Sibling(Shift(o, h)) : o \in Q2} \cup (IF h = 0 THEN Q2 ELSE {})
  <2>1. DOMAIN m2[h] = DOMAIN m[h] \cup {new(h)} \cup (IF h = 0 THEN {g} ELSE {})
    BY <1>1, <1>3, <1>4
  <2>2. DOMAIN m[h] = {Sibling(Shift(o, h)) : o \in Q} \cup (IF h = 0 THEN Q ELSE {})
    BY <1>1, <1>4
  <2>3. CASE h = 0
    BY <2>1, <2>2, <2>3
  <2>4. CASE h # 0
    BY <2>1, <2>2, <2>4
  <2> QED
    BY <2>3, <2>4
<1>6. ASSUME NEW p \in Nat PROVE Sibling(p) # p /\ Sibling(Sibling(p)) = p /\ Sibling(p) \in Nat
  BY DEF Sibling
<1>7. F2 \subseteq Q2 /\ \A o \in Q2 : o \in F2 <=> Sibling(o) \notin F2
  <2>1. F2 \subseteq Q2
    BY <1>1
  <2>2. ASSUME NEW o \in Q2 PROVE o \in F2 <=> Sibling(o) \notin F2
    <3>1. /\ o \in Nat /\ Sibling(o) # o /\ Sibling(Sibling(o)) = o
          /\ Sibling(g) # g /\ Sibling(Sibling(g)) = g
      BY <1>2, <1>6
    <3>2. CASE o = g
      BY <3>1, <3>2
    <3>3. CASE o = Sibling(g)
      BY <3>1, <3>3
    <3>4. CASE o # g /\ o # Sibling(g)
      <4>1. o \in Q /\ Sibling(o) # g /\ Sibling(o) # Sibling(g)
        BY <3>1, <3>4
      <4> QED
        BY <1>1, <3>4, <4>1
    <3> QED
      BY <3>2, <3>3, <3>4
  <2> QED
    BY <2>1, <2>2
<1>8. NodeAt(Block, 0, g) = Leaf(g) /\ Shift(g, 0) = g
  BY Climb, BlockFacts
<1>9. ASSUME NEW h \in DOMAIN m2, NEW off \in DOMAIN m2[h]
      PROVE  m2[h][off] = Entry(off, NodeAt(Block, h, off), h = 0 /\ off \in F2)
  <2>1. h \in 0..(TotalHeight - 1) /\ h \in DOMAIN m /\ h \in Nat
    BY <1>1, <1>4, Heights
  <2>2. off \in DOMAIN m[h] \cup {new(h)} \cup (IF h = 0 THEN {g} ELSE {})
    BY <1>3, <2>1
  <2>3. m2[h][off] =
          IF off = new(h)
          THEN Entry(off, IF h < SubtreeHeight THEN proof.siblingPath[h]
                          ELSE TopProofs[SubtreeOf(g)][h - SubtreeHeight], FALSE)
          ELSE IF h = 0 /\ off = g THEN Entry(g, proof.txid, TRUE)
          ELSE m[h][off]
    BY <1>3, <2>1, <2>2
  <2>4. CASE off = new(h)
    <3>1. (IF h < SubtreeHeight THEN proof.siblingPath[h]
           ELSE TopProofs[SubtreeOf(g)][h - SubtreeHeight]) = NodeAt(Block, h, off)
      <4>1. CASE h < SubtreeHeight
        <5>1. h \in 0..(SubtreeHeight - 1)
          BY <2>1, <4>1, Heights
        <5> QED
          BY <2>4, <4>1, <5>1
      <4>2. CASE ~(h < SubtreeHeight)
        <5> DEFINE k == h - SubtreeHeight
        <5>1. k \in 0..(TopTreeHeight - 1) /\ SubtreeHeight + k = h
          BY <2>1, <4>2, Heights
        <5> HIDE DEF k
        <5>2. TopProofs[SubtreeOf(g)][k] =
                NodeAt(Block, SubtreeHeight + k, Sibling(Shift(g, SubtreeHeight + k)))
          BY <5>1, TopRead, BlockFacts
        <5> QED
          BY <2>4, <4>2, <5>1, <5>2 DEF k
      <4> QED
        BY <4>1, <4>2
    <3>2. (h = 0 /\ off \in F2) = FALSE
      <4>1. h = 0 => off = Sibling(g)
        BY <2>4, <1>8
      <4>2. h = 0 => off # g /\ off \notin F2
        BY <4>1, <1>2, <1>6
      <4> QED
        BY <4>2
    <3>3. m2[h][off] = Entry(off, NodeAt(Block, h, off), FALSE)
      BY <2>3, <2>4, <3>1
    <3> QED
      BY <3>2, <3>3
  <2>5. CASE off # new(h) /\ h = 0 /\ off = g
    <3>1. m2[h][off] = Entry(off, NodeAt(Block, h, off), TRUE)
      BY <2>3, <2>5, <1>8
    <3>2. (h = 0 /\ off \in F2) = TRUE
      BY <2>5
    <3> QED
      BY <3>1, <3>2
  <2>6. CASE off # new(h) /\ ~(h = 0 /\ off = g)
    <3>1. off \in DOMAIN m[h]
      BY <2>2, <2>6
    <3>2. m2[h][off] = Entry(off, NodeAt(Block, h, off), h = 0 /\ off \in F)
      BY <1>1, <2>1, <2>3, <2>6, <3>1
    <3>3. (h = 0 /\ off \in F2) = (h = 0 /\ off \in F)
      <4>1. h = 0 => off # Sibling(g) /\ off # g
        BY <2>6, <1>8
      <4> QED
        BY <4>1
    <3> QED
      BY <3>2, <3>3
  <2> QED
    BY <2>4, <2>5, <2>6
<1> HIDE DEF Q2, F2
<1>10. Merged(m2, Q2, F2)
  BY <1>4, <1>5, <1>7, <1>9 DEF Merged
<1> QED
  BY <1>10 DEF m2, Q2, F2

(* The path GetProofFromStore hands out inside a subtree.                  *)
LEMMA SubtreeProofRead ==
  ASSUME PowerOfTwoSubtrees, NEW g \in Leafs
  PROVE  /\ SubtreeProof(g).globalIdx = g /\ SubtreeProof(g).txid = Leaf(g)
         /\ \A h \in 0..(SubtreeHeight - 1) :
              SubtreeProof(g).siblingPath[h] = NodeAt(Block, h, Sibling(Shift(g, h)))
<1> DEFINE si == SubtreeOf(g)
           li == LocalOf(g)
           row == Block[si]
<1>1. /\ si \in Subtrees /\ li \in LocalIdxs /\ g = GlobalIdx(si, li)
      /\ IsRow(row) /\ Len0(row) > 1 /\ li \in DOMAIN row /\ Log2Ceil(Len0(row)) = SubtreeHeight
      /\ Stores[si] = BuildMerkleStore(row)
  BY Located, Rows, Heights, BlockFacts DEF SubtreeHeight
<1>2. SubtreeProof(g).siblingPath =
        ProofFromStore(row, BuildMerkleStore(row), li, Log2Ceil(Len0(row)))
  BY <1>1 DEF SubtreeProof, GetProofFromStore
<1> HIDE DEF row, li, si
<1>3. SubtreeProof(g).siblingPath =
        [k \in 0..(Log2Ceil(Len0(row)) - 1) |-> Node(row, k, Sibling(Shift(li, k)))]
  BY <1>1, <1>2, ProofIsSiblings
<1>4. ASSUME NEW h \in 0..(SubtreeHeight - 1)
      PROVE  SubtreeProof(g).siblingPath[h] = NodeAt(Block, h, Sibling(Shift(g, h)))
  <2>1. SubtreeProof(g).siblingPath[h] = Node(row, h, Sibling(Shift(li, h)))
    BY <1>1, <1>3
  <2>2. NodeAt(Block, h, Sibling(Shift(GlobalIdx(si, li), h))) =
          Node(Block[si], h, Sibling(Shift(li, h)))
    BY <1>1, SiblingWithin, BlockFacts
  <2> QED
    BY <1>1, <2>1, <2>2 DEF row
<1> QED
  BY <1>4 DEF SubtreeProof

(* The proofs of the txids of ord, merged in that order.                   *)
LEMMA MergeInOrder ==
  ASSUME PowerOfTwoSubtrees, NEW n \in Nat, NEW ord, NEW proofs, Len0(proofs) = n,
         \A i \in 0..(n - 1) : ord[i] \in Leafs /\ proofs[i] = SubtreeProof(ord[i])
  PROVE  \E F : Merged(MergeProofs(proofs, TopProofs), {ord[i] : i \in 0..(n - 1)}, F)
<1> DEFINE Q(i) == {ord[j] : j \in 0..(i - 1)}
           top == TopProofs
<1>3. PICK u : /\ \A i \in 0..n : u[i] = MergedOf(proofs, top, u, i)
               /\ MergeProofs(proofs, top) = u[n]
  <2> HIDE DEF top
  <2>1. Len0(proofs) \in Nat
    OBVIOUS
  <2>2. \E u : /\ \A i \in 0..Len0(proofs) : u[i] = MergedOf(proofs, top, u, i)
               /\ MergeProofs(proofs, top) = u[Len0(proofs)]
    BY <2>1, MergeProofsDef
  <2> QED
    BY <2>2
<1> DEFINE T == {i \in 0..n : \E F : Merged(u[i], Q(i), F)}
<1>4. 0 \in T
  <2>1. 0 \in 0..n /\ Q(0) = {}
    OBVIOUS
  <2>2. u[0] = [h \in 0..(TotalHeight - 1) |-> << >>]
    BY <1>3, <2>1 DEF MergedOf
  <2>3. DOMAIN << >> = {}
    OBVIOUS
  <2>4. Merged(u[0], {}, {})
    BY <2>2, <2>3 DEF Merged
  <2> QED
    BY <2>1, <2>4
<1>5. ASSUME NEW i \in 0..(n - 1), i \in T PROVE i + 1 \in T
  <2>1. PICK F : Merged(u[i], Q(i), F)
    BY <1>5
  <2> DEFINE g == ord[i]
  <2>2. i + 1 \in 0..n /\ i + 1 # 0 /\ (i + 1) - 1 = i /\ g \in Leafs
    OBVIOUS
  <2>3. u[i + 1] = AccumulateProof(u[i], proofs[i], top)
    BY <1>3, <2>2 DEF MergedOf
  <2>4. proofs[i] = SubtreeProof(g)
    OBVIOUS
  <2>5. Q(i + 1) = Q(i) \cup {g}
    <3>1. 0..((i + 1) - 1) = 0..(i - 1) \cup {i}
      OBVIOUS
    <3> QED
      BY <3>1
  <2>6. Q(i) \in SUBSET Leafs
    OBVIOUS
  <2> HIDE DEF g, Q
  <2>7. Merged(AccumulateProof(u[i], SubtreeProof(g), TopProofs),
               Q(i) \cup {g}, (F \ {Sibling(g)}) \cup {g})
    BY <2>1, <2>2, <2>6, SubtreeProofRead, AccumulateMerged
  <2>8. Merged(u[i + 1], Q(i + 1), (F \ {Sibling(g)}) \cup {g})
    BY <2>3, <2>4, <2>5, <2>7
  <2> QED
    BY <2>2, <2>8
<1>6. n \in T
  <2> HIDE DEF T
  <2>1. \A i \in 0..(n - 1) : i \in T => i + 1 \in T
    BY <1>5
  <2>2. 0..n \subseteq T
    BY <1>4, <2>1, UpTo
  <2> QED
    BY <2>2
<1> QED
  BY <1>3, <1>6

Filled(m) == [h \in DOMAIN m |-> {m[h][off] : off \in DOMAIN m[h]}]

CompoundProofs(up) == [i \in DOMAIN Ordered(up) |-> SubtreeProof(Ordered(up)[i])]

(* buildCompoundBUMP merges the proofs of all the token's txids.           *)
LEMMA CompoundIsMerged ==
  ASSUME PowerOfTwoSubtrees, own \in SUBSET Leafs, NEW up \in BOOLEAN,
         NEW proofs, proofs = CompoundProofs(up)
  PROVE  \E m, F : /\ Merged(m, own, F)
                   /\ BuildCompoundBUMP(proofs, TopProofs) = Prune(Filled(m))
<1>0. PICK n \in Nat : n = Cardinality(own)
  BY OrderedFacts
<1>1. PICK ord : n = Cardinality(own) /\ ord = Ordered(up)
  BY <1>0
<1>2. /\ DOMAIN ord = 0..(n - 1)
      /\ \A i \in 0..(n - 1) : ord[i] \in own
      /\ \A g \in own : \E i \in 0..(n - 1) : ord[i] = g
  BY <1>1, OrderedFacts
<1>3. proofs = [i \in 0..(n - 1) |-> SubtreeProof(ord[i])]
  BY <1>1, <1>2 DEF CompoundProofs
<1>4. Len0(proofs) = n
  <2>1. DOMAIN proofs = 0..(n - 1)
    BY <1>3
  <2>2. 0 \in Int /\ n - 1 \in Int
    OBVIOUS
  <2>3. Cardinality(0..(n - 1)) = IF 0 > n - 1 THEN 0 ELSE (n - 1) - 0 + 1
    BY <2>2, FS_Interval
  <2> QED
    BY <2>1, <2>3 DEF Len0
<1>5. \A i \in 0..(n - 1) : ord[i] \in Leafs /\ proofs[i] = SubtreeProof(ord[i])
  BY <1>2, <1>3
<1>6. own = {ord[i] : i \in 0..(n - 1)}
  BY <1>2
<1>7. PICK F : Merged(MergeProofs(proofs, TopProofs), {ord[i] : i \in 0..(n - 1)}, F)
  BY ONLY PowerOfTwoSubtrees, n \in Nat, <1>4, <1>5, MergeInOrder
<1>8. PICK m : m = MergeProofs(proofs, TopProofs)
  OBVIOUS
<1>9. BuildCompoundBUMP(proofs, TopProofs) = Prune(Filled(m))
  BY <1>8 DEF BuildCompoundBUMP, Filled
<1>10. Merged(m, own, F)
  BY <1>6, <1>7, <1>8
<1> QED
  BY <1>9, <1>10

-----------------------------------------------------------------------------
(* What levels have in common that were filled in one of these ways.       *)

(* Those of buildCompoundBUMP, too.                                        *)
LEMMA MergedLevels ==
  ASSUME NEW m, NEW F, Merged(m, own, F)
  PROVE  TrueLevels(Block, own, Filled(m))
<1> DEFINE levels == [h \in DOMAIN m |-> {m[h][off] : off \in DOMAIN m[h]}]
<1>1. DOMAIN m = 0..(TotalHeight - 1)
  BY DEF Merged
<1>2. ASSUME NEW h \in 0..(TotalHeight - 1)
      PROVE  /\ \A e \in levels[h] : e.hash = NodeAt(Block, h, e.offset)
             /\ Offsets(levels[h]) = DOMAIN m[h]
  <2>1. levels[h] = {m[h][off] : off \in DOMAIN m[h]}
    BY <1>1
  <2>2. \A off \in DOMAIN m[h] : m[h][off].offset = off /\ m[h][off].hash = NodeAt(Block, h, off)
    BY <1>1 DEF Merged, Entry
  <2> HIDE DEF levels
  <2> QED
    BY <2>1, <2>2 DEF Offsets
<1>3. \A h \in 0..(TotalHeight - 1) :
        DOMAIN m[h] = {Sibling(Shift(g, h)) : g \in own} \cup (IF h = 0 THEN own ELSE {})
  BY DEF Merged
<1>4. DOMAIN levels = 0..(TotalHeight - 1)
  BY <1>1
<1> HIDE DEF levels
<1>5. TrueLevels(Block, own, levels)
  BY <1>2, <1>3, <1>4 DEF TrueLevels
<1> QED
  BY <1>5 DEF levels, Filled

-----------------------------------------------------------------------------
FlaggedIn(bump) == {e.offset : e \in {x \in bump[0] : x.txid}}

(* The levels buildCompoundBUMP prunes, and what it makes of the flags.    *)
LEMMA CompoundLevels ==
  ASSUME PowerOfTwoSubtrees, own \in SUBSET Leafs, NEW m, NEW F, Merged(m, own, F),
         NEW levels, levels = Filled(m),
         NEW bump, bump = Prune(levels)
  PROVE  /\ FlaggedIn(bump) = F
         /\ \A h \in DOMAIN bump \ {0} : bump[h] = BumpOf(Block, own)[h]
<1> DEFINE plain == [h \in 0..(TotalHeight - 1) |-> Level(Block, own, h)]
<1>1. /\ TotalHeight \in Nat \ {0} /\ 0 \in 0..(TotalHeight - 1)
      /\ DOMAIN m = 0..(TotalHeight - 1)
  BY Heights DEF Merged
<1>2. TrueLevels(Block, own, levels) /\ TrueLevels(Block, own, plain)
  BY BumpLevels, MergedLevels, BlockFacts
<1>3. FlaggedIn(bump) = F
  <2>1. bump[0] = {m[0][off] : off \in DOMAIN m[0]}
    <3>1. IsBlock(Block)
      BY BlockFacts
    <3>2. bump[0] = levels[0]
      BY <1>2, <3>1, PrunedFacts
    <3> QED BY <1>1, <3>2 DEF Filled
  <2>2. \A off \in DOMAIN m[0] : m[0][off] = Entry(off, NodeAt(Block, 0, off), 0 = 0 /\ off \in F)
    BY <1>1 DEF Merged
  <2>3. F \subseteq DOMAIN m[0]
    BY <1>1 DEF Merged
  <2>4. ASSUME NEW off \in DOMAIN m[0]
        PROVE  m[0][off].offset = off /\ (m[0][off].txid <=> off \in F)
    <3>1. CASE off \in F
      <4>1. (0 = 0 /\ off \in F) = TRUE
        BY <3>1
      <4>2. m[0][off] = Entry(off, NodeAt(Block, 0, off), TRUE)
        BY <2>2, <4>1, Zenon
      <4> QED
        BY <3>1, <4>2 DEF Entry
    <3>2. CASE off \notin F
      <4>1. (0 = 0 /\ off \in F) = FALSE
        BY <3>2
      <4>2. m[0][off] = Entry(off, NodeAt(Block, 0, off), FALSE)
        BY <2>2, <4>1, Zenon
      <4> QED
        BY <3>2, <4>2 DEF Entry
    <3> QED
      BY <3>1, <3>2
  <2>5. ASSUME NEW e \in bump[0], e.txid PROVE e.offset \in F
    <3>1. PICK off \in DOMAIN m[0] : e = m[0][off]
      BY <2>1
    <3> QED
      BY <2>4, <2>5, <3>1
  <2>6. ASSUME NEW off \in F
        PROVE  \E e \in {x \in bump[0] : x.txid} : e.offset = off
    <3>1. m[0][off] \in bump[0]
      BY <2>1, <2>3
    <3>2. m[0][off].offset = off /\ m[0][off].txid
      BY <2>3, <2>4
    <3> QED
      BY <3>1, <3>2
  <2> QED
    BY <2>5, <2>6 DEF FlaggedIn
<1>4. ASSUME NEW h \in 0..(TotalHeight - 1), h # 0
      PROVE  levels[h] = Level(Block, own, h)
  <2> DEFINE off(g) == Sibling(Shift(g, h))
             Ent(o) == Entry(o, NodeAt(Block, h, o), FALSE)
  <2>1. DOMAIN m[h] = {off(g) : g \in own}
    BY <1>1, <1>4 DEF Merged
  <2>2. \A o \in DOMAIN m[h] : m[h][o] = Ent(o)
    BY <1>1, <1>4 DEF Merged
  <2>3. levels[h] = {m[h][o] : o \in DOMAIN m[h]}
    BY <1>1 DEF Filled
  <2>4. Level(Block, own, h) = {Ent(off(g)) : g \in own}
    BY <1>4 DEF Level
  <2> HIDE DEF off, Ent
  <2> QED
    BY <2>1, <2>2, <2>3, <2>4
<1>5. \A h \in 0..(TotalHeight - 1) : Offsets(levels[h]) = Offsets(plain[h])
  <2> HIDE DEF plain
  <2> QED
    BY <1>2 DEF TrueLevels
<1>6. ASSUME NEW h \in 0..(TotalHeight - 1), h # 0
      PROVE  bump[h] = BumpOf(Block, own)[h]
  <2>1. levels[h] = plain[h]
    BY <1>4, <1>6
  <2>2. h - 1 \in 0..(TotalHeight - 1)
    BY <1>1, <1>6
  <2>3. Offsets(levels[h - 1]) = Offsets(plain[h - 1])
    BY <1>5, <2>2
  <2>4. DOMAIN levels = 0..(TotalHeight - 1) /\ DOMAIN plain = 0..(TotalHeight - 1)
    BY <1>1 DEF Filled
  <2>5. BumpOf(Block, own) = Prune(plain)
    BY DEF BumpOf
  <2> HIDE DEF plain
  <2> QED
    BY <1>6, <2>1, <2>3, <2>4, <2>5 DEF Prune
<1>7. DOMAIN bump = 0..(TotalHeight - 1)
  BY <1>2, PrunedFacts, BlockFacts
<1> QED
  BY <1>3, <1>6, <1>7

(* The inductive invariant: the fragments stored are those of the sealed   *)
(* subtrees the token has txids in, and a BUMP is the one of the fast path *)
(* or that of buildCompoundBUMP for one of the orders of the proofs.       *)
BumpInv ==
  /\ own \in SUBSET Leafs
  /\ sealed \in 0..NumSubtrees
  /\ DOMAIN frags = {si \in Spanned : si < sealed}
  /\ \A si \in DOMAIN frags :
       frags[si] = ExtractSubtreeFragment(Block[si], Stores[si], LocalsIn(si), si)
  /\ way \in {"none", "fragments", "fast", "legacy", "compound"}
  /\ way \in {"fragments", "fast", "legacy"} =>
       path = AssembleTokenBUMPFast(own, Loaded, TopProofs)
  /\ way = "compound" =>
       \E up \in BOOLEAN : path = BuildCompoundBUMP(CompoundProofs(up), TopProofs)

(* The subtrees the token has txids in are subtrees of the block.          *)
LEMMA SpannedFacts ==
  ASSUME own \in SUBSET Leafs
  PROVE  /\ Spanned \subseteq Subtrees
         /\ \A si : si \in Spanned <=> LocalsIn(si) # {}
  BY Located DEF Spanned, LocalsIn

(* Init and every step of the block establish the invariant.               *)
LEMMA BumpStart ==
  ASSUME Init PROVE BumpInv
<1>1. DOMAIN frags = {} /\ sealed = 0 /\ own \in SUBSET Leafs /\ way = "none"
  <2>1. DOMAIN << >> = {}
    OBVIOUS
  <2> QED
    BY <2>1 DEF Init
<1>2. {si \in Spanned : si < sealed} = {}
  BY <1>1, SpannedFacts DEF Subtrees
<1>3. sealed \in 0..NumSubtrees
  BY <1>1, ShapeAssumption
<1> QED
  BY <1>1, <1>2, <1>3 DEF BumpInv

(* Every step keeps the invariant.                                         *)
LEMMA BumpStep ==
  ASSUME PowerOfTwoSubtrees, BumpInv, [Next]_vars
  PROVE  BumpInv'
<1>1. /\ own \in SUBSET Leafs /\ sealed \in 0..NumSubtrees
      /\ DOMAIN frags = {si \in Spanned : si < sealed}
      /\ \A si \in DOMAIN frags :
           frags[si] = ExtractSubtreeFragment(Block[si], Stores[si], LocalsIn(si), si)
  BY DEF BumpInv
<1>2. Spanned \subseteq Subtrees /\ \A si : si \in Spanned <=> LocalsIn(si) # {}
  BY <1>1, SpannedFacts
<1>3. NumSubtrees \in Nat /\ \A si \in Subtrees : si \in 0..(NumSubtrees - 1)
  BY ShapeAssumption DEF Subtrees
<1>4. CASE UNCHANGED vars
  <2>1. own' = own /\ sealed' = sealed /\ frags' = frags /\ path' = path /\ way' = way
    BY <1>4 DEF vars
  <2>2. \A si : LocalsIn(si)' = LocalsIn(si)
    BY <2>1 DEF LocalsIn
  <2>3. Spanned' = Spanned
    BY <2>1 DEF Spanned
  <2>4. Loaded' = Loaded /\ \A up : CompoundProofs(up)' = CompoundProofs(up)
    BY <2>1, <2>3 DEF Loaded, CompoundProofs, Ordered
  <2> QED
    BY <2>1, <2>2, <2>3, <2>4 DEF BumpInv
<1>5. CASE SealSubtree
  <2>1. /\ sealed < NumSubtrees /\ sealed' = sealed + 1
        /\ own' = own /\ path' = path /\ way' = way
        /\ frags' = [si \in DOMAIN frags \cup {s \in {sealed} : LocalsIn(s) # {}} |->
                       IF si = sealed
                       THEN ExtractSubtreeFragment(Block[si], Stores[si], LocalsIn(si), si)
                       ELSE frags[si]]
    BY <1>5 DEF SealSubtree
  <2>2. \A si : LocalsIn(si)' = LocalsIn(si)
    BY <2>1 DEF LocalsIn
  <2>3. Spanned' = Spanned
    BY <2>1 DEF Spanned
  <2>4. DOMAIN frags' = {si \in Spanned : si < sealed + 1}
    <3>1. DOMAIN frags' = DOMAIN frags \cup {s \in {sealed} : s \in Spanned}
      BY <1>2, <2>1
    <3>2. \A si \in Spanned : si < sealed + 1 <=> si < sealed \/ si = sealed
      BY <1>1, <1>2, <1>3
    <3> QED
      BY <1>1, <3>1, <3>2
  <2>5. \A si \in DOMAIN frags' :
          frags'[si] = ExtractSubtreeFragment(Block[si], Stores[si], LocalsIn(si), si)
    BY <1>1, <2>1
  <2>6. sealed' \in 0..NumSubtrees
    BY <1>1, <1>3, <2>1
  <2>7. Loaded' = Loaded /\ \A up : CompoundProofs(up)' = CompoundProofs(up)
    BY <2>1, <2>3 DEF Loaded, CompoundProofs, Ordered
  <2>8. /\ way \in {"none", "fragments", "fast", "legacy", "compound"}
        /\ way \in {"fragments", "fast", "legacy"} =>
             path = AssembleTokenBUMPFast(own, Loaded, TopProofs)
        /\ way = "compound" =>
             \E up \in BOOLEAN : path = BuildCompoundBUMP(CompoundProofs(up), TopProofs)
    BY DEF BumpInv
  <2> QED
    BY <1>1, <2>1, <2>2, <2>3, <2>4, <2>5, <2>6, <2>7, <2>8 DEF BumpInv
<1>6. ASSUME Found, own' = own, sealed' = sealed, frags' = frags,
             \/ /\ way' \in {"fragments", "fast", "legacy"}
                /\ path' = AssembleTokenBUMPFast(own, Loaded, TopProofs)
             \/ /\ way' = "compound"
                /\ \E up \in BOOLEAN : path' = BuildCompoundBUMP(CompoundProofs(up), TopProofs)
      PROVE  BumpInv'
  <2>1. \A si : LocalsIn(si)' = LocalsIn(si)
    BY <1>6 DEF LocalsIn
  <2>2. Spanned' = Spanned
    BY <1>6 DEF Spanned
  <2>3. Loaded' = Loaded /\ \A up : CompoundProofs(up)' = CompoundProofs(up)
    BY <1>6, <2>2 DEF Loaded, CompoundProofs, Ordered
  <2> QED
    BY <1>1, <1>6, <2>1, <2>2, <2>3 DEF BumpInv
<1>7. CASE AssembleFromFragments
  <2>1. /\ Found /\ way' = "fragments" /\ own' = own /\ sealed' = sealed /\ frags' = frags
    BY <1>7 DEF AssembleFromFragments
  <2>2. PICK position \in [Spanned -> 0..(Cardinality(Spanned) - 1)] :
          path' = AssembleTokenBUMPFromFragments(frags, position, TopProofs)
    BY <1>7 DEF AssembleFromFragments
  <2>3. DOMAIN frags = Spanned
    BY <1>1, <1>2, <1>3, <2>1 DEF Found
  <2>4. \A si \in Spanned : position[si] \in Nat
    BY <2>2
  <2>5. AssembleTokenBUMPFromFragments(frags, position, TopProofs) = BumpOf(Block, own)
    BY <1>1, <2>3, <2>4, FragmentsIsBump, BlockFacts
  <2>6. AssembleTokenBUMPFast(own, Loaded, TopProofs) = BumpOf(Block, own)
    BY <1>1, FastIsBump
  <2> QED
    BY <1>6, <2>1, <2>2, <2>5, <2>6
<1>8. CASE AssembleFast
  BY <1>6, <1>8 DEF AssembleFast
<1>9. CASE AssembleLegacy
  <2>1. AssembleTokenBUMP(own, Loaded, TopProofs) = AssembleTokenBUMPFast(own, Loaded, TopProofs)
    BY <1>1, FastIsBump, LegacyIsBump
  <2> QED
    BY <1>6, <1>9, <2>1 DEF AssembleLegacy
<1>10. CASE AssembleCompound
  BY <1>6, <1>10 DEF AssembleCompound, CompoundProofs
<1> QED
  BY <1>4, <1>5, <1>7, <1>8, <1>9, <1>10 DEF Next

(* What an assembled BUMP is, whichever way it was assembled.              *)
LEMMA PathIsPruned ==
  ASSUME PowerOfTwoSubtrees, BumpInv, Assembled
  PROVE  \E levels : TrueLevels(Block, own, levels) /\ path = Prune(levels)
<1>1. own \in SUBSET Leafs
  BY DEF BumpInv
<1>2. CASE way # "compound"
  <2>1. path = BumpOf(Block, own)
    BY <1>1, <1>2, FastIsBump DEF BumpInv, Assembled
  <2>2. TrueLevels(Block, own, [h \in 0..(TotalHeight - 1) |-> Level(Block, own, h)])
    BY <1>1, BumpLevels, BlockFacts
  <2> QED
    BY <2>1, <2>2 DEF BumpOf
<1>3. CASE way = "compound"
  <2>1. PICK up, proofs :
          /\ up \in BOOLEAN /\ proofs = CompoundProofs(up)
          /\ path = BuildCompoundBUMP(proofs, TopProofs)
    BY <1>3 DEF BumpInv
  <2>2. PICK m, F : Merged(m, own, F) /\ BuildCompoundBUMP(proofs, TopProofs) = Prune(Filled(m))
    BY <1>1, <2>1, CompoundIsMerged
  <2>3. TrueLevels(Block, own, Filled(m))
    BY <2>2, MergedLevels
  <2> QED
    BY <2>1, <2>2, <2>3
<1> QED
  BY <1>2, <1>3

(* The invariant holds throughout.                                         *)
THEOREM BumpInvariant ==
  ASSUME PowerOfTwoSubtrees
  PROVE  Spec => []BumpInv
<1>1. Init => BumpInv
  BY BumpStart
<1>2. BumpInv /\ [Next]_vars => BumpInv'
  BY BumpStep
<1> QED
  BY <1>1, <1>2, PTL DEF Spec

-----------------------------------------------------------------------------
(* What the invariant implies.                                             *)

(* EveryTxidVerifies.                                                      *)
LEMMA InvVerifies ==
  ASSUME PowerOfTwoSubtrees, BumpInv
  PROVE  EveryTxidVerifies
<1> SUFFICES ASSUME Assembled, NEW g \in own
             PROVE  ComputeRoot(path, g, Leaf(g)) = BlockRoot
  BY DEF EveryTxidVerifies
<1>1. own \in SUBSET Leafs
  BY DEF BumpInv
<1>2. PICK levels, bump : TrueLevels(Block, own, levels) /\ bump = Prune(levels) /\ bump = path
  BY PathIsPruned
<1>3. ComputeRoot(bump, g, Leaf(g)) = BlockRoot
  BY <1>1, <1>2, TrueLevelsVerify, BlockFacts
<1> QED
  BY <1>2, <1>3

(* EntriesAreNodes.                                                        *)
LEMMA InvNodes ==
  ASSUME PowerOfTwoSubtrees, BumpInv
  PROVE  EntriesAreNodes
<1> SUFFICES ASSUME Assembled PROVE EntriesAreNodes
  BY DEF EntriesAreNodes
<1>1. own \in SUBSET Leafs
  BY DEF BumpInv
<1>2. PICK levels, bump : TrueLevels(Block, own, levels) /\ bump = Prune(levels) /\ bump = path
  BY PathIsPruned
<1>3. \A h \in DOMAIN bump : \A e \in bump[h] :
        e.hash = IF h < SubtreeHeight
                 THEN PaddedLevel(Block[Shift(e.offset, SubtreeHeight - h)], h)
                        [e.offset % Pow2[SubtreeHeight - h]]
                 ELSE PaddedLevel(RootsOf(Block), h - SubtreeHeight)[e.offset]
  <2>1. IsBlock(Block)
    BY BlockFacts
  <2>2. NodesTrue(Block, bump)
    BY ONLY PowerOfTwoSubtrees, <1>1, <1>2, <2>1, TrueLevelsAreNodes
  <2> QED
    BY <2>2 DEF NodesTrue
<1>4. Roots = RootsOf(Block)
  BY BlockFacts
<1> QED
  BY <1>2, <1>3, <1>4 DEF EntriesAreNodes

(* PathsAgree.                                                             *)
LEMMA InvAgree ==
  ASSUME BumpInv PROVE PathsAgree
BY DEF BumpInv, PathsAgree, Assembled

(* FlagsExactlyOwn.                                                        *)
LEMMA InvFlags ==
  ASSUME PowerOfTwoSubtrees, BumpInv
  PROVE  FlagsExactlyOwn
<1>1. own \in SUBSET Leafs
  BY DEF BumpInv
<1>2. AssembleTokenBUMPFast(own, Loaded, TopProofs) = BumpOf(Block, own)
  BY <1>1, FastIsBump
<1>3. ASSUME Assembled, way # "compound"
      PROVE  {[offset |-> e.offset, hash |-> e.hash] : e \in Flagged}
               = {[offset |-> g, hash |-> Leaf(g)] : g \in own}
  <2>1. path = BumpOf(Block, own)
    BY <1>2, <1>3 DEF BumpInv, Assembled
  <2>2. 0 \in 0..(TotalHeight - 1)
    BY Heights
  <2>3. path[0] = Level(Block, own, 0)
    BY <2>1, <2>2 DEF BumpOf, Prune
  <2> DEFINE Tx(g) == Entry(g, Leaf(g), TRUE)
  <2>4. Flagged = {Tx(g) : g \in own}
    <3>1. {e \in Level(Block, own, 0) : e.txid} = {Entry(g, LeafAt(Block, g), TRUE) : g \in own}
      BY ONLY FlaggedOfLevel
    <3>2. Flagged = {Entry(g, LeafAt(Block, g), TRUE) : g \in own}
      BY <2>3, <3>1 DEF Flagged
    <3> QED
      BY <1>1, <3>2, BlockFacts
  <2>5. \A g : Tx(g).offset = g /\ Tx(g).hash = Leaf(g)
    BY DEF Entry
  <2> HIDE DEF Tx
  <2> QED
    BY <2>4, <2>5
<1>4. ASSUME way = "compound"
      PROVE  LET flagged == {e.offset : e \in Flagged} IN
               /\ flagged \subseteq own
               /\ \A g \in own : Cardinality({g, Sibling(g)} \cap flagged) = 1
               /\ \A h \in DOMAIN path \ {0} :
                    path[h] = AssembleTokenBUMPFast(own, Loaded, TopProofs)[h]
  <2>1. PICK up, proofs :
          /\ up \in BOOLEAN /\ proofs = CompoundProofs(up)
          /\ path = BuildCompoundBUMP(proofs, TopProofs)
    BY <1>4 DEF BumpInv
  <2>2. PICK m, F : Merged(m, own, F) /\ BuildCompoundBUMP(proofs, TopProofs) = Prune(Filled(m))
    BY <1>1, <2>1, CompoundIsMerged
  <2>3. PICK levels, bump : levels = Filled(m) /\ bump = Prune(levels) /\ bump = path
    BY <2>1, <2>2
  <2>4. /\ FlaggedIn(bump) = F
        /\ \A h \in DOMAIN bump \ {0} : bump[h] = BumpOf(Block, own)[h]
    <3>1. Merged(m, own, F) /\ levels = Filled(m) /\ bump = Prune(levels)
      BY <2>2, <2>3
    <3> QED
      BY ONLY PowerOfTwoSubtrees, <1>1, <3>1, CompoundLevels
  <2> DEFINE flagged == {e.offset : e \in Flagged}
  <2>5. flagged = F
    BY <2>3, <2>4 DEF Flagged, FlaggedIn
  <2> HIDE DEF flagged
  <2>6. F \subseteq own /\ \A g \in own : g \in F <=> Sibling(g) \notin F
    BY <2>2 DEF Merged
  <2>7. ASSUME NEW g \in own
        PROVE  Cardinality({g, Sibling(g)} \cap flagged) = 1
    <3>1. {g, Sibling(g)} \cap flagged = {g} \/ {g, Sibling(g)} \cap flagged = {Sibling(g)}
      BY <2>5, <2>6
    <3> QED
      BY <3>1, FS_Singleton
  <2>8. \A h \in DOMAIN path \ {0} :
          path[h] = AssembleTokenBUMPFast(own, Loaded, TopProofs)[h]
    BY <1>2, <2>3, <2>4
  <2> QED
    BY <2>5, <2>6, <2>7, <2>8 DEF flagged
<1> QED
  BY <1>3, <1>4 DEF FlagsExactlyOwn

-----------------------------------------------------------------------------
(* Every txid of the token verifies against the block's merkle root, by    *)
(* whichever path and in whatever order its BUMP was assembled, for every  *)
(* number of subtrees, every set of txids and every size of subtree that   *)
(* is a power of two.                                                      *)
THEOREM EveryTxidVerifiesHolds ==
  ASSUME PowerOfTwoSubtrees
  PROVE  Spec => []EveryTxidVerifies
<1>1. BumpInv => EveryTxidVerifies
  BY InvVerifies
<1> QED
  BY <1>1, BumpInvariant, PTL

(* Every entry of a BUMP is the node of the padded tree at its offset.     *)
THEOREM EntriesAreNodesHolds ==
  ASSUME PowerOfTwoSubtrees
  PROVE  Spec => []EntriesAreNodes
<1>1. BumpInv => EntriesAreNodes
  BY InvNodes
<1> QED
  BY <1>1, BumpInvariant, PTL

(* The fragments, the fast and the legacy path assemble the same BUMP,     *)
(* whatever order the index lists the fragments in.                        *)
THEOREM PathsAgreeHolds ==
  ASSUME PowerOfTwoSubtrees
  PROVE  Spec => []PathsAgree
<1>1. BumpInv => PathsAgree
  BY InvAgree
<1> QED
  BY <1>1, BumpInvariant, PTL

(* The flags are the token's txids; buildCompoundBUMP leaves of each pair  *)
(* with a txid exactly one flagged, and differs in nothing else.           *)
THEOREM FlagsExactlyOwnHolds ==
  ASSUME PowerOfTwoSubtrees
  PROVE  Spec => []FlagsExactlyOwn
<1>1. BumpInv => FlagsExactlyOwn
  BY InvFlags
<1> QED
  BY <1>1, BumpInvariant, PTL

-----------------------------------------------------------------------------
(* Codec: functions defined by recursion.                                  *)

(* f takes the n steps from a.                                             *)
Steps(n, S)        == [1..n -> [S -> S]]
Taken(f, n, a, step) == \A k \in 0..n : f[k] = IF k = 0 THEN a ELSE step[k][f[k - 1]]

(* Values defined one from the other, n of them: for any steps there is a  *)
(* function that takes them.                                               *)
LEMMA StepByStep ==
  ASSUME NEW n \in Nat, NEW S, NEW a \in S, NEW step \in Steps(n, S)
  PROVE  \E f \in [0..n -> S] : Taken(f, n, a, step)
<1> DEFINE T == {m \in 0..n : \E f \in [0..m -> S] : Taken(f, m, a, step)}
<1>1. 0 \in T
  <2> DEFINE g == [k \in 0..0 |-> a]
  <2>1. g \in [0..0 -> S] /\ Taken(g, 0, a, step)
    BY DEF Taken
  <2> HIDE DEF g
  <2> QED BY <2>1
<1>2. ASSUME NEW m \in 0..(n - 1), m \in T PROVE m + 1 \in T
  <2>1. PICK f \in [0..m -> S] : Taken(f, m, a, step)
    BY <1>2
  <2> DEFINE g == [k \in 0..(m + 1) |-> IF k <= m THEN f[k] ELSE step[m + 1][f[m]]]
  <2>2. m + 1 \in 1..n /\ f[m] \in S
    BY <2>1
  <2>3. step[m + 1] \in [S -> S]
    BY <2>2 DEF Steps
  <2>4. step[m + 1][f[m]] \in S
    BY <2>2, <2>3
  <2>5. g \in [0..(m + 1) -> S]
    BY <2>1, <2>4
  <2>7. ASSUME NEW k \in 0..(m + 1) PROVE g[k] = IF k = 0 THEN a ELSE step[k][g[k - 1]]
    <3>1. CASE k <= m
      <4>1. g[k] = f[k] /\ (k # 0 => g[k - 1] = f[k - 1]) /\ k \in 0..m
        BY <3>1
      <4> QED BY <2>1, <4>1 DEF Taken
    <3>2. CASE k = m + 1
      BY <3>2
    <3> QED BY <3>1, <3>2
  <2> HIDE DEF g
  <2>8. Taken(g, m + 1, a, step)
    BY <2>7 DEF Taken
  <2> QED BY <2>5, <2>8, <2>2
<1> HIDE DEF T
<1>3. 0..n \subseteq T
  BY <1>1, <1>2, UpTo
<1>4. n \in T
  BY <1>3
<1> QED BY <1>4 DEF T

(* What Power computes.                                                    *)
LEMMA PowerStep ==
  /\ Power[0] = 1
  /\ \A k \in 1..8 : Power[k] = Base * Power[k - 1]
<1> DEFINE step == [k \in 1..8 |-> [x \in Int |-> Base * x]]
           Is(f) == f = [k \in 0..8 |-> IF k = 0 THEN 1 ELSE Base * f[k - 1]]
<1>1. step \in Steps(8, Int)
  BY BaseAssumption DEF Steps
<1>2. PICK f \in [0..8 -> Int] : Taken(f, 8, 1, step)
  <2> HIDE DEF step
  <2>1. 8 \in Nat /\ 1 \in Int
    OBVIOUS
  <2> QED BY <1>1, <2>1, StepByStep
<1>3. ASSUME NEW k \in 0..8 PROVE f[k] = IF k = 0 THEN 1 ELSE Base * f[k - 1]
  BY <1>2 DEF Taken
<1>4. Is(f)
  BY <1>2, <1>3
<1>5. Is(Power)
  <2>1. Power = CHOOSE g : Is(g)
    BY DEF Power
  <2> HIDE DEF Is
  <2> QED BY <1>4, <2>1
<1> QED BY <1>5

(* The powers are positive.                                                *)
LEMMA PowerType == \A k \in 0..8 : Power[k] \in Nat \ {0}
<1> DEFINE T == {k \in 0..8 : Power[k] \in Nat \ {0}}
<1>1. 0 \in T
  BY PowerStep
<1>2. ASSUME NEW k \in 0..7, k \in T PROVE k + 1 \in T
  <2>1. Power[k + 1] = Base * Power[k] /\ Power[k] \in Nat \ {0}
    BY <1>2, PowerStep
  <2> DEFINE p == Power[k]
  <2> HIDE DEF p
  <2>2. p \in Nat \ {0} => Base * p \in Nat \ {0}
    BY BaseAssumption
  <2> QED BY <2>1, <2>2 DEF p
<1> HIDE DEF T
<1>3. 0..8 \subseteq T
  BY <1>1, <1>2, UpTo
<1> QED BY <1>3 DEF T

(* Those of the integers of four and of eight bytes.                       *)
LEMMA PowersUsed == Power[4] \in Nat \ {0} /\ Power[8] \in Nat \ {0}
BY PowerType

(* Any integer has a quotient and a remainder.                             *)
LEMMA IntDiv ==
  ASSUME NEW a \in Int, NEW b \in Nat \ {0}
  PROVE  \E q \in Int, r \in 0..(b - 1) : a = b * q + r
<1> DEFINE q == a \div b
<1>1. q \in Int /\ b * q <= a /\ a < b * q + b
  OBVIOUS
<1>2. a % b = a - b * q
  OBVIOUS
<1> HIDE DEF q
<1> DEFINE p == b * q
<1>3. p \in Int
  BY <1>1
<1> HIDE DEF p
<1> DEFINE r == a % b
<1>4. p <= a /\ a < p + b /\ r = a - p
  BY <1>1, <1>2 DEF p
<1> HIDE DEF r
<1>5. r \in 0..(b - 1) /\ a = p + r
  BY <1>3, <1>4
<1>6. q \in Int /\ r \in 0..(b - 1) /\ a = b * q + r
  BY <1>1, <1>5 DEF p
<1> QED BY <1>6

(* A quotient and a remainder are the quotient and the remainder.          *)
LEMMA IntDivUnique ==
  ASSUME NEW a \in Int, NEW b \in Nat \ {0}, NEW q \in Int, NEW r \in 0..(b - 1), a = b * q + r
  PROVE  a \div b = q /\ a % b = r
OBVIOUS

(* One more digit: the remainder by p, the digit of weight p, and the      *)
(* remainder by Base * p.                                                  *)
LEMMA DigitStep ==
  ASSUME NEW v \in Int, NEW p \in Nat \ {0}
  PROVE  (v % p) + ((v \div p) % Base) * p = v % (Base * p)
<1>1. PICK q \in Int, r \in 0..(p - 1) : v = p * q + r
  BY IntDiv
<1> DEFINE B == Base
<1>0. B \in Nat \ {0}
  BY BaseAssumption
<1> HIDE DEF B
<1>2. PICK e \in Int, d \in 0..(B - 1) : q = B * e + d
  BY <1>0, IntDiv
<1>10. v \div p = q /\ v % p = r
  BY <1>1, IntDivUnique
<1>11. q % B = d
  BY <1>0, <1>2, IntDivUnique
<1> DEFINE m == B * p
<1>3. m \in Nat \ {0}
  BY <1>0
<1>4. p * q = m * e + p * d
  <2>1. p * (B * e + d) = (B * p) * e + p * d
    BY <1>2, <1>0
  <2> QED BY <2>1, <1>2
<1>5. p * d \in Nat /\ p * d <= m - p
  <2>1. d \in Nat /\ d <= B - 1
    BY <1>2, <1>0
  <2>2. p * d <= p * (B - 1)
    BY <2>1, <1>0
  <2>3. p * (B - 1) = m - p
    BY <1>0
  <2> QED BY <2>1, <2>2, <2>3
<1> DEFINE w == p * d
<1>6. d * p = w
  BY <1>2, <1>0
<1> HIDE DEF m, w
<1>7. w \in Nat /\ w <= m - p /\ v = m * e + (r + w)
  <2> DEFINE x == p * q
             y == m * e
  <2>1. v = x + r /\ x = y + w /\ w \in Nat /\ w <= m - p
    BY <1>1, <1>4, <1>5 DEF w
  <2>2. y \in Int
    BY <1>2, <1>3
  <2> HIDE DEF x, y
  <2>3. v = y + (r + w)
    BY <2>1, <2>2, <1>1
  <2> QED BY <2>1, <2>3 DEF y
<1>8. r + w \in 0..(m - 1)
  BY <1>1, <1>3, <1>7
<1>9. v % m = r + w
  BY <1>2, <1>3, <1>7, <1>8, IntDivUnique
<1> QED BY <1>9, <1>6, <1>10, <1>11 DEF m, B

-----------------------------------------------------------------------------
(* What the bytes are made of.                                             *)
Cells == 0..(Base - 1) \cup Hashes

(* In the bytes, s stands behind the first off of them.                    *)
Holds(bytes, off, s) ==
  off + Len(s) <= Len(bytes) /\ \A i \in 1..Len(s) : bytes[off + i] = s[i]

(* A concatenation holds its parts.                                        *)
LEMMA HoldsParts ==
  ASSUME NEW S, NEW s \in Seq(S), NEW t \in Seq(S)
  PROVE  /\ s \o t \in Seq(S) /\ Len(s \o t) = Len(s) + Len(t)
         /\ Holds(s \o t, 0, s) /\ Holds(s \o t, Len(s), t)
<1>1. s \o t \in Seq(S) /\ Len(s \o t) = Len(s) + Len(t)
  OBVIOUS
<1>2. \A i \in 1..Len(s) : (s \o t)[0 + i] = s[i]
  OBVIOUS
<1>3. \A i \in 1..Len(t) : (s \o t)[Len(s) + i] = t[i]
  OBVIOUS
<1>4. Len(s) \in Nat /\ Len(t) \in Nat
  OBVIOUS
<1> QED BY <1>1, <1>2, <1>3, <1>4 DEF Holds

(* What a part holds, the whole holds further on.                          *)
LEMMA HoldsTrans ==
  ASSUME NEW S, NEW a \in Seq(S), NEW s \in Seq(S), NEW t \in Seq(S),
         NEW j \in Nat, NEW k \in Nat, Holds(a, j, s), Holds(s, k, t)
  PROVE  Holds(a, j + k, t)
<1>1. Len(a) \in Nat /\ Len(s) \in Nat /\ Len(t) \in Nat
  OBVIOUS
<1>2. ASSUME NEW i \in 1..Len(t) PROVE a[(j + k) + i] = t[i]
  <2>1. k + i \in 1..Len(s) /\ (j + k) + i = j + (k + i)
    BY <1>1 DEF Holds
  <2>2. a[j + (k + i)] = s[k + i]
    BY <2>1 DEF Holds
  <2>3. s[k + i] = t[i]
    BY DEF Holds
  <2> QED BY <2>1, <2>2, <2>3
<1> QED BY <1>1, <1>2 DEF Holds

(* What stands in the whole stands in the start of it that reaches so far. *)
LEMMA HoldsStart ==
  ASSUME NEW S, NEW all \in Seq(S), NEW bytes \in Seq(S), NEW s \in Seq(S), NEW off \in Nat,
         Holds(all, 0, bytes), Holds(all, off, s), off + Len(s) <= Len(bytes)
  PROVE  Holds(bytes, off, s)
<1>1. Len(all) \in Nat /\ Len(bytes) \in Nat /\ Len(s) \in Nat
  OBVIOUS
<1>2. ASSUME NEW i \in 1..Len(s) PROVE bytes[off + i] = s[i]
  <2>1. off + i \in 1..Len(bytes) /\ 0 + (off + i) = off + i
    BY <1>1
  <2>2. all[off + i] = bytes[off + i]
    BY <2>1 DEF Holds
  <2>3. all[off + i] = s[i]
    BY DEF Holds
  <2> QED BY <2>2, <2>3
<1> QED BY <1>2 DEF Holds

(* Where the parts of a flattened sequence stand.                          *)
Layout(pos, seqs, flat) ==
  /\ pos[0] = 0 /\ pos[Len(seqs)] = Len(flat)
  /\ \A i \in 1..Len(seqs) :
       pos[i] = pos[i - 1] + Len(seqs[i]) /\ Holds(flat, pos[i - 1], seqs[i])

(* Every flattened sequence has one.                                       *)
LEMMA FlattenLayout ==
  ASSUME NEW S, NEW seqs \in Seq(Seq(S))
  PROVE  /\ Flatten(seqs) \in Seq(S)
         /\ \E pos \in [0..Len(seqs) -> Nat] : Layout(pos, seqs, Flatten(seqs))
<1> DEFINE n == Len(seqs)
           step == [i \in 1..n |-> [x \in Seq(S) |-> x \o seqs[i]]]
           Is(u) == u = [i \in 0..n |-> IF i = 0 THEN << >> ELSE u[i - 1] \o seqs[i]]
<1>1. n \in Nat /\ \A i \in 1..n : seqs[i] \in Seq(S)
  OBVIOUS
<1>2. step \in Steps(n, Seq(S)) /\ \A i \in 1..n : \A x \in Seq(S) : step[i][x] = x \o seqs[i]
  <2>1. \A i \in 1..n : \A x \in Seq(S) : x \o seqs[i] \in Seq(S)
    BY <1>1
  <2> QED BY <2>1 DEF Steps
<1>3. << >> \in Seq(S)
  OBVIOUS
<1> HIDE DEF n, step, Is
<1>4. PICK f \in [0..n -> Seq(S)] : Taken(f, n, << >>, step)
  BY <1>1, <1>2, <1>3, StepByStep
<1>5. ASSUME NEW i \in 0..n PROVE f[i] = IF i = 0 THEN << >> ELSE f[i - 1] \o seqs[i]
  <2>1. i # 0 => i \in 1..n /\ f[i - 1] \in Seq(S)
    BY <1>1
  <2> QED BY <1>2, <1>4, <2>1 DEF Taken
<1>6. Is(f)
  BY <1>4, <1>5 DEF Is
<1>7. \E u : Is(u) /\ Flatten(seqs) = u[n]
  <2>1. Flatten(seqs) = (CHOOSE u : Is(u))[n]
    BY DEF Flatten, n, Is
  <2> QED BY <1>6, <2>1
<1>8. PICK u : Is(u) /\ Flatten(seqs) = u[n]
  BY <1>7
<1>9. u[0] = << >> /\ \A i \in 1..n : u[i] = u[i - 1] \o seqs[i]
  <2>1. u = [i \in 0..n |-> IF i = 0 THEN << >> ELSE u[i - 1] \o seqs[i]]
    BY <1>8 DEF Is
  <2>2. ASSUME NEW i \in 0..n PROVE u[i] = IF i = 0 THEN << >> ELSE u[i - 1] \o seqs[i]
    BY <2>1, Zenon
  <2>3. 0 \in 0..n /\ \A i \in 1..n : i \in 0..n /\ i # 0
    BY <1>1
  <2> QED BY <2>2, <2>3
<1>10. \A i \in 0..n : u[i] \in Seq(S)
  <2> DEFINE T == {i \in 0..n : u[i] \in Seq(S)}
  <2>1. 0 \in T
    <3>1. u[0] \in Seq(S)
      BY <1>3, <1>9, Zenon
    <3>2. 0 \in 0..n
      BY <1>1
    <3> QED BY <3>1, <3>2
  <2>2. ASSUME NEW i \in 0..(n - 1), i \in T PROVE i + 1 \in T
    <3>1. i + 1 \in 1..n /\ (i + 1) - 1 = i
      BY <1>1
    <3>2. u[i + 1] = u[i] \o seqs[i + 1] /\ seqs[i + 1] \in Seq(S) /\ u[i] \in Seq(S)
      BY <1>1, <1>9, <2>2, <3>1
    <3>3. u[i] \o seqs[i + 1] \in Seq(S)
      BY <3>2, HoldsParts
    <3>4. u[i + 1] \in Seq(S)
      BY <3>2, <3>3, Zenon
    <3>5. i + 1 \in 0..n
      BY <3>1
    <3> QED BY <3>4, <3>5
  <2> HIDE DEF T
  <2>3. 0..n \subseteq T
    BY <1>1, <2>1, <2>2, UpTo
  <2> QED BY <2>3 DEF T
<1> DEFINE pos == [i \in 0..n |-> Len(u[i])]
<1>11. pos \in [0..n -> Nat] /\ pos[0] = 0 /\ pos[n] = Len(u[n])
  BY <1>1, <1>9, <1>10
<1>12. ASSUME NEW i \in 1..n
       PROVE  /\ pos[i] = pos[i - 1] + Len(seqs[i])
              /\ Holds(u[i], 0, u[i - 1]) /\ Holds(u[i], pos[i - 1], seqs[i])
  <2>0. i - 1 \in 0..n
    BY <1>1
  <2>1. u[i] = u[i - 1] \o seqs[i] /\ u[i - 1] \in Seq(S) /\ seqs[i] \in Seq(S)
    BY <1>1, <1>9, <1>10, <2>0
  <2>2. pos[i] = Len(u[i]) /\ pos[i - 1] = Len(u[i - 1])
    BY <1>1
  <2> HIDE DEF pos
  <2> QED BY <2>1, <2>2, HoldsParts
<1> HIDE DEF pos
<1> DEFINE T == {k \in 0..n : \A i \in 1..k : Holds(u[k], pos[i - 1], seqs[i])}
<1>13. 0 \in T
  BY <1>1
<1>14. ASSUME NEW k \in 0..(n - 1), k \in T PROVE k + 1 \in T
  <2>1. k + 1 \in 1..n /\ (k + 1) - 1 = k
    BY <1>1
  <2>2. ASSUME NEW i \in 1..k PROVE Holds(u[k + 1], pos[i - 1], seqs[i])
    <3>1. Holds(u[k], pos[i - 1], seqs[i]) /\ Holds(u[k + 1], 0, u[k])
      BY <1>12, <1>14, <2>1
    <3>2. /\ u[k + 1] \in Seq(S) /\ u[k] \in Seq(S) /\ seqs[i] \in Seq(S)
          /\ pos[i - 1] \in Nat
      BY <1>1, <1>10, <1>11, <2>1
    <3>3. Holds(u[k + 1], 0 + pos[i - 1], seqs[i])
      BY <3>1, <3>2, HoldsTrans
    <3> QED BY <3>2, <3>3
  <2>3. Holds(u[k + 1], pos[k], seqs[k + 1])
    BY <1>12, <2>1
  <2>4. \A i \in 1..(k + 1) : Holds(u[k + 1], pos[i - 1], seqs[i])
    BY <2>2, <2>3, <2>1
  <2> QED BY <2>1, <2>4
<1> HIDE DEF T
<1>15. 0..n \subseteq T
  BY <1>1, <1>13, <1>14, UpTo
<1>16. n \in T
  BY <1>1, <1>15
<1>17. Layout(pos, seqs, u[n])
  BY <1>11, <1>12, <1>16 DEF Layout, n, T
<1> QED BY <1>1, <1>8, <1>10, <1>11, <1>17 DEF n

-----------------------------------------------------------------------------
(* An integer takes its width, in bytes.                                   *)
LEMMA UintCells ==
  ASSUME NEW v \in Int, NEW width \in 0..8
  PROVE  PutUint(v, width) \in Seq(Cells) /\ Len(PutUint(v, width)) = width
<1>1. ASSUME NEW i \in 1..width PROVE (v \div Power[i - 1]) % Base \in Cells
  <2>1. Power[i - 1] \in Nat \ {0}
    BY PowerType
  <2>2. v \div Power[i - 1] \in Int
    BY <2>1
  <2> DEFINE q == v \div Power[i - 1]
  <2> HIDE DEF q
  <2>3. q \in Int => q % Base \in 0..(Base - 1)
    BY BaseAssumption
  <2> QED BY <2>2, <2>3 DEF Cells, q
<1> DEFINE digit == [i \in 1..width |-> (v \div Power[i - 1]) % Base]
<1>2. digit \in [1..width -> Cells] /\ width \in Nat
  BY <1>1
<1>3. digit = PutUint(v, width)
  BY DEF PutUint
<1> HIDE DEF digit
<1>4. digit \in Seq(Cells) /\ Len(digit) = width
  BY <1>2
<1> QED BY <1>3, <1>4

(* What is read where an integer stands is its remainder.                  *)
LEMMA ReadUint ==
  ASSUME NEW bytes, NEW off \in Nat, NEW v \in Int, NEW width \in 0..8,
         Holds(bytes, off, PutUint(v, width))
  PROVE  GetUint(bytes, off, width) = v % Power[width]
<1> DEFINE Is(u) ==
             u = [i \in 0..width |->
                    IF i = 0 THEN 0 ELSE u[i - 1] + bytes[off + i] * Power[i - 1]]
           low == [i \in 0..width |-> v % Power[i]]
<1>1. ASSUME NEW i \in 1..width
      PROVE  (v % Power[i - 1]) + bytes[off + i] * Power[i - 1] = v % Power[i]
  <2>1. bytes[off + i] = (v \div Power[i - 1]) % Base
    <3>1. bytes[off + i] = PutUint(v, width)[i]
      BY UintCells DEF Holds
    <3> QED BY <3>1 DEF PutUint
  <2>2. Power[i - 1] \in Nat \ {0} /\ Power[i] = Base * Power[i - 1]
    BY PowerType, PowerStep
  <2> DEFINE p == Power[i - 1]
  <2> HIDE DEF p
  <2>3. p \in Nat \ {0} => (v % p) + ((v \div p) % Base) * p = v % (Base * p)
    BY DigitStep
  <2> QED BY <2>1, <2>2, <2>3 DEF p
<1>2. ASSUME NEW i \in 0..width
      PROVE  low[i] = IF i = 0 THEN 0 ELSE low[i - 1] + bytes[off + i] * Power[i - 1]
  <2>1. CASE i = 0
    <3>1. low[0] = v % 1
      BY PowerStep
    <3> QED BY <2>1, <3>1
  <2>2. CASE i # 0
    <3>1. i \in 1..width /\ i - 1 \in 0..width
      BY <2>2
    <3>2. low[i] = v % Power[i] /\ low[i - 1] = v % Power[i - 1]
      BY <3>1
    <3> HIDE DEF low
    <3> QED BY <1>1, <2>2, <3>1, <3>2
  <2> QED BY <2>1, <2>2
<1>3. low = [i \in 0..width |-> low[i]]
  OBVIOUS
<1>4. low[width] = v % Power[width]
  OBVIOUS
<1> HIDE DEF low
<1>5. Is(low)
  BY <1>2, <1>3
<1>6. GetUint(bytes, off, width) = (CHOOSE u : Is(u))[width]
  BY DEF GetUint
<1> HIDE DEF Is
<1>7. PICK u : Is(u) /\ GetUint(bytes, off, width) = u[width]
  BY <1>5, <1>6
<1>8. \A i \in 0..width : u[i] = IF i = 0 THEN 0 ELSE u[i - 1] + bytes[off + i] * Power[i - 1]
  BY <1>7, Zenon DEF Is
<1> DEFINE T == {i \in 0..width : u[i] = low[i]}
<1>9. 0 \in T
  BY <1>2, <1>8
<1>10. ASSUME NEW i \in 0..(width - 1), i \in T PROVE i + 1 \in T
  <2>1. i + 1 \in 0..width /\ i + 1 # 0 /\ (i + 1) - 1 = i /\ u[i] = low[i]
    BY <1>10
  <2> QED BY <1>2, <1>8, <2>1
<1> HIDE DEF T
<1>11. 0..width \subseteq T
  BY <1>9, <1>10, UpTo
<1>12. u[width] = low[width]
  BY <1>11 DEF T
<1> QED BY <1>4, <1>7, <1>12

(* An integer that fits comes back as it was.                              *)
LEMMA ReadSmallUint ==
  ASSUME NEW bytes, NEW off \in Nat, NEW width \in 0..8, NEW v \in 0..(Power[width] - 1),
         Holds(bytes, off, PutUint(v, width))
  PROVE  GetUint(bytes, off, width) = v
<1>1. Power[width] \in Nat \ {0}
  BY PowerType
<1> DEFINE p == Power[width]
<1> HIDE DEF p
<1>2. p \in Nat \ {0} /\ v \in 0..(p - 1) => v % p = v
  OBVIOUS
<1>3. v \in Int
  BY <1>1
<1> QED BY <1>1, <1>2, <1>3, ReadUint DEF p

-----------------------------------------------------------------------------
(* How many bytes follow the first one of an integer of variable length.   *)
Width(mark) ==
  IF mark = Base - 3 THEN 2 ELSE IF mark = Base - 2 THEN 4
  ELSE IF mark = Base - 1 THEN 8 ELSE 0

(* The first byte tells how many follow, and they have room for the value. *)
LEMMA VarIntForm ==
  ASSUME NEW v \in 0..(Power[8] - 1)
  PROVE  \E mark \in 0..(Base - 1) :
           /\ WriteVarInt(v) = <<mark>> \o PutUint(v, Width(mark))
           /\ IF Width(mark) = 0 THEN mark = v ELSE v < Power[Width(mark)]
<1>1. Power[2] \in Nat /\ Power[4] \in Nat /\ Power[8] \in Nat
  BY PowerType
<1>2. CASE v < Base - 3
  <2>1. v \in 0..(Base - 1) /\ Width(v) = 0 /\ WriteVarInt(v) = <<v>>
    BY <1>1, <1>2, BaseAssumption DEF Width, WriteVarInt
  <2>2. PutUint(v, 0) = << >>
    BY DEF PutUint
  <2>3. <<v>> \o << >> = <<v>>
    OBVIOUS
  <2> QED BY <2>1, <2>2, <2>3
<1>3. CASE ~(v < Base - 3) /\ v < Power[2]
  <2> DEFINE mark == Base - 3
  <2>1. mark \in 0..(Base - 1) /\ Width(mark) = 2
    BY BaseAssumption DEF Width
  <2>2. WriteVarInt(v) = <<mark>> \o PutUint(v, 2)
    BY <1>3 DEF WriteVarInt
  <2> HIDE DEF mark
  <2> QED BY <1>3, <2>1, <2>2
<1>4. CASE ~(v < Base - 3) /\ ~(v < Power[2]) /\ v < Power[4]
  <2> DEFINE mark == Base - 2
  <2>1. mark \in 0..(Base - 1) /\ Width(mark) = 4
    BY BaseAssumption DEF Width
  <2>2. WriteVarInt(v) = <<mark>> \o PutUint(v, 4)
    BY <1>4 DEF WriteVarInt
  <2> HIDE DEF mark
  <2> QED BY <1>4, <2>1, <2>2
<1>5. CASE ~(v < Base - 3) /\ ~(v < Power[2]) /\ ~(v < Power[4])
  <2> DEFINE mark == Base - 1
  <2>1. mark \in 0..(Base - 1) /\ Width(mark) = 8
    BY BaseAssumption DEF Width
  <2>2. WriteVarInt(v) = <<mark>> \o PutUint(v, 8)
    BY <1>5 DEF WriteVarInt
  <2> HIDE DEF mark
  <2>3. v < Power[8]
    BY <1>1
  <2> QED BY <2>3, <2>1, <2>2
<1> QED BY <1>2, <1>3, <1>4, <1>5

(* The bytes of an integer of variable length, one at least.               *)
LEMMA VarIntCells ==
  ASSUME NEW v \in 0..(Power[8] - 1)
  PROVE  WriteVarInt(v) \in Seq(Cells) /\ Len(WriteVarInt(v)) \in Nat \ {0}
<1>1. PICK mark \in 0..(Base - 1) : WriteVarInt(v) = <<mark>> \o PutUint(v, Width(mark))
  BY VarIntForm
<1>2. Width(mark) \in 0..8 /\ v \in Int
  BY PowerType DEF Width
<1>3. PutUint(v, Width(mark)) \in Seq(Cells)
  BY <1>2, UintCells
<1>4. <<mark>> \in Seq(Cells) /\ Len(<<mark>>) = 1
  BY DEF Cells
<1> DEFINE s == <<mark>>
           t == PutUint(v, Width(mark))
<1> HIDE DEF s, t
<1>5. s \in Seq(Cells) /\ t \in Seq(Cells) /\ Len(s) = 1
  BY <1>3, <1>4 DEF s, t
<1>6. s \o t \in Seq(Cells) /\ Len(s \o t) \in Nat \ {0}
  BY <1>5, HoldsParts
<1> QED BY <1>1, <1>6 DEF s, t

(* What is read where an integer of variable length was written, of bytes  *)
(* that may have been cut.                                                 *)
LEMMA ReadVarIntBack ==
  ASSUME NEW all \in Seq(Cells), NEW bytes \in Seq(Cells), Holds(all, 0, bytes),
         NEW off \in Nat, NEW v \in 0..(Power[8] - 1), Holds(all, off, WriteVarInt(v))
  PROVE  LET end == off + Len(WriteVarInt(v)) IN
         ReadVarInt(bytes, off) = IF end <= Len(bytes)
                                    THEN [ok |-> TRUE, off |-> end, value |-> v] ELSE Error
<1>1. PICK mark \in 0..(Base - 1) :
        /\ WriteVarInt(v) = <<mark>> \o PutUint(v, Width(mark))
        /\ IF Width(mark) = 0 THEN mark = v ELSE v < Power[Width(mark)]
  BY VarIntForm
<1> DEFINE w == Width(mark)
           s == <<mark>>
           t == PutUint(v, w)
<1>2. w \in 0..8 /\ v \in Nat /\ v \in Int
  BY PowerType DEF Width
<1>3. s \in Seq(Cells) /\ Len(s) = 1 /\ s[1] = mark
  BY DEF Cells
<1>4. t \in Seq(Cells) /\ Len(t) = w
  BY <1>2, UintCells
<1>5. w = IF mark = Base - 3 THEN 2 ELSE IF mark = Base - 2 THEN 4
          ELSE IF mark = Base - 1 THEN 8 ELSE 0
  BY DEF Width
<1>6. IF w = 0 THEN mark = v ELSE v < Power[w]
  BY <1>1
<1>7. WriteVarInt(v) = s \o t
  BY <1>1
<1> HIDE DEF w, s, t
<1>8. /\ s \o t \in Seq(Cells) /\ Len(s \o t) = 1 + w
      /\ Holds(s \o t, 0, s) /\ Holds(s \o t, 1, t)
  BY <1>3, <1>4, HoldsParts
<1>9. Holds(all, off, s) /\ Holds(all, off + 1, t)
  <2> DEFINE x == s \o t
  <2>1. x \in Seq(Cells) /\ Holds(x, 0, s) /\ Holds(x, 1, t) /\ Holds(all, off, x)
    BY <1>7, <1>8
  <2> HIDE DEF x
  <2>2. Holds(all, off + 0, s) /\ Holds(all, off + 1, t)
    BY <1>3, <1>4, <2>1, HoldsTrans
  <2> QED BY <2>2
<1>10. Len(bytes) \in Nat /\ Len(WriteVarInt(v)) = 1 + w
  BY <1>7, <1>8
<1>11. CASE off >= Len(bytes)
  BY <1>2, <1>10, <1>11 DEF ReadVarInt
<1>12. CASE off < Len(bytes)
  <2>0. off + Len(s) <= Len(bytes)
    BY <1>3, <1>10, <1>12
  <2>1. Holds(bytes, off, s)
    BY <1>3, <1>9, <2>0, HoldsStart
  <2>2. bytes[off + 1] = mark
    BY <1>3, <2>1 DEF Holds
  <2>3. ReadVarInt(bytes, off) =
          IF off + 1 + w > Len(bytes) THEN Error
          ELSE [ok |-> TRUE, off |-> off + 1 + w,
                value |-> IF w = 0 THEN mark ELSE GetUint(bytes, off + 1, w)]
    BY <1>5, <1>10, <1>12, <2>2 DEF ReadVarInt
  <2>4. CASE off + 1 + w > Len(bytes)
    BY <1>2, <1>10, <2>3, <2>4
  <2>5. CASE off + 1 + w <= Len(bytes)
    <3>1. w # 0 => GetUint(bytes, off + 1, w) = v
      <4>1. Holds(bytes, off + 1, t)
        BY <1>2, <1>4, <1>9, <1>10, <2>5, HoldsStart
      <4>2. Power[w] \in Nat
        BY <1>2, PowerType
      <4>3. w # 0 => v \in 0..(Power[w] - 1)
        BY <1>2, <1>6, <4>2
      <4> QED BY <1>2, <4>1, <4>3, ReadSmallUint DEF t
    <3> DEFINE value == IF w = 0 THEN mark ELSE GetUint(bytes, off + 1, w)
    <3>2. value = v
      BY <1>6, <3>1
    <3>5. ReadVarInt(bytes, off) = IF off + 1 + w > Len(bytes) THEN Error
                                   ELSE [ok |-> TRUE, off |-> off + 1 + w, value |-> value]
      BY <2>3
    <3> HIDE DEF value
    <3>3. ReadVarInt(bytes, off) = [ok |-> TRUE, off |-> off + 1 + w, value |-> v]
      BY <1>2, <1>10, <2>5, <3>2, <3>5
    <3>4. off + 1 + w = off + Len(WriteVarInt(v))
      BY <1>2, <1>10
    <3> QED BY <2>5, <3>3, <3>4
  <2> QED BY <1>2, <1>10, <2>4, <2>5
<1> QED BY <1>10, <1>11, <1>12

-----------------------------------------------------------------------------
(* s is n bytes long.                                                      *)
Sized(s, n) == s \in Seq(Cells) /\ Len(s) = n

(* Where the parts of a concatenation of bytes stand.                      *)
LEMMA Joined ==
  ASSUME NEW j \in Nat, NEW k \in Nat, NEW s, NEW t, Sized(s, j), Sized(t, k)
  PROVE  /\ Sized(s \o t, j + k) /\ Holds(s \o t, 0, s) /\ Holds(s \o t, j, t)
         /\ \A x \in Seq(Cells) : \A l \in Nat : Holds(s, l, x) => Holds(s \o t, l, x)
<1> DEFINE a == s \o t
<1>1. s \in Seq(Cells) /\ t \in Seq(Cells) /\ Len(s) = j /\ Len(t) = k
  BY DEF Sized
<1>2. a \in Seq(Cells) /\ Len(a) = Len(s) + Len(t) /\ Holds(a, 0, s) /\ Holds(a, Len(s), t)
  BY <1>1, HoldsParts
<1>3. Len(a) = j + k /\ Holds(a, j, t)
  BY <1>1, <1>2
<1> HIDE DEF a
<1>4. ASSUME NEW x \in Seq(Cells), NEW l \in Nat, Holds(s, l, x) PROVE Holds(a, l, x)
  <2>1. Holds(a, 0 + l, x)
    BY <1>1, <1>2, <1>4, HoldsTrans
  <2> QED BY <2>1
<1>5. Sized(a, j + k)
  BY <1>2, <1>3 DEF Sized
<1> QED BY <1>2, <1>3, <1>4, <1>5 DEF a

(* The bytes are the first m of all.                                       *)
CutFrom(bytes, m, all) ==
  all \in Seq(Cells) /\ m \in Nat /\ Sized(bytes, m) /\ Holds(all, 0, bytes)

(* What stands in the whole stands in the start of it that reaches so far. *)
LEMMA StartHolds ==
  ASSUME NEW all \in Seq(Cells), NEW bytes, NEW n \in Nat, Sized(bytes, n), Holds(all, 0, bytes),
         NEW s, NEW k \in Nat, Sized(s, k), NEW off \in Nat, Holds(all, off, s), off + k <= n
  PROVE  Holds(bytes, off, s)
<1>1. bytes \in Seq(Cells) /\ Len(bytes) = n /\ s \in Seq(Cells) /\ Len(s) = k
  BY DEF Sized
<1>2. off + Len(s) <= Len(bytes)
  BY <1>1
<1> QED BY <1>1, <1>2, HoldsStart

(* What stands in a sequence ends within it.                               *)
LEMMA HoldsWithin ==
  ASSUME NEW all, NEW n \in Nat, Sized(all, n), NEW s, NEW k \in Nat, Sized(s, k),
         NEW off \in Nat, Holds(all, off, s)
  PROVE  off + k <= n
BY DEF Sized, Holds

(* Integers of four and of eight bytes, and what is read of them.          *)
LEMMA Uint4 ==
  ASSUME NEW v \in Int
  PROVE  /\ Sized(PutUint(v, 4), 4)
         /\ \A bytes : \A off \in Nat : Holds(bytes, off, PutUint(v, 4)) =>
              /\ GetUint(bytes, off, 4) = v % Power[4]
              /\ v \in 0..(Power[4] - 1) => GetUint(bytes, off, 4) = v
<1> DEFINE w == 4
<1>1. w \in 0..8
  OBVIOUS
<1> HIDE DEF w
<1>2. Sized(PutUint(v, w), w)
  BY <1>1, UintCells DEF Sized
<1>3. ASSUME NEW bytes, NEW off \in Nat, Holds(bytes, off, PutUint(v, w))
      PROVE  /\ GetUint(bytes, off, w) = v % Power[w]
             /\ v \in 0..(Power[w] - 1) => GetUint(bytes, off, w) = v
  BY <1>1, <1>3, ReadUint, ReadSmallUint
<1> QED BY <1>2, <1>3 DEF w

(* The same of eight bytes.                                                *)
LEMMA Uint8 ==
  ASSUME NEW v \in Int
  PROVE  /\ Sized(PutUint(v, 8), 8)
         /\ \A bytes : \A off \in Nat : Holds(bytes, off, PutUint(v, 8)) =>
              (v \in 0..(Power[8] - 1) => GetUint(bytes, off, 8) = v)
<1> DEFINE w == 8
<1>1. w \in 0..8
  OBVIOUS
<1> HIDE DEF w
<1>2. Sized(PutUint(v, w), w)
  BY <1>1, UintCells DEF Sized
<1>3. ASSUME NEW bytes, NEW off \in Nat, Holds(bytes, off, PutUint(v, w)),
             v \in 0..(Power[w] - 1)
      PROVE  GetUint(bytes, off, w) = v
  BY <1>1, <1>3, ReadSmallUint
<1> QED BY <1>2, <1>3 DEF w

(* The part of a sequence that is a sequence held there.                   *)
LEMMA HeldPart ==
  ASSUME NEW bytes \in Seq(Cells), NEW s \in Seq(Cells), NEW off \in Nat, NEW k \in Nat,
         Len(s) = k, Holds(bytes, off, s)
  PROVE  SubSeq(bytes, off + 1, off + k) = s
<1>1. off + k <= Len(bytes) /\ \A i \in 1..k : bytes[off + i] = s[i]
  BY DEF Holds
<1> DEFINE sub == SubSeq(bytes, off + 1, off + k)
<1>2. sub \in Seq(Cells) /\ Len(sub) = k
  BY <1>1
<1>3. \A i \in 1..k : sub[i] = bytes[off + i]
  BY <1>1
<1> HIDE DEF sub
<1>4. \A i \in 1..k : sub[i] = s[i]
  BY <1>1, <1>3
<1>5. sub = s
  BY <1>2, <1>4
<1> QED BY <1>5 DEF sub

(* A list of hashes comes back whole, or is an error.                      *)
LEMMA HashesBack ==
  ASSUME NEW hs \in Seq(Hashes), Len(hs) < Power[4], NEW bytes, NEW m \in Nat,
         Sized(bytes, m), Holds(MarshalHashes(hs), 0, bytes)
  PROVE  /\ Sized(MarshalHashes(hs), 4 + Len(hs))
         /\ UnmarshalHashes(bytes) = IF m = 4 + Len(hs) THEN [ok |-> TRUE, item |-> hs]
                                     ELSE Error
<1> DEFINE n == Len(hs)
           s == PutUint(n, 4)
           all == s \o hs
<1>1. n \in Nat /\ n \in Int /\ n \in 0..(Power[4] - 1)
  <2>1. Power[4] \in Nat
    BY PowerType
  <2>2. n \in Nat /\ n < Power[4]
    OBVIOUS
  <2> HIDE DEF n
  <2> QED BY <2>1, <2>2
<1>2. Sized(s, 4)
  BY <1>1, Uint4
<1>3. hs \in Seq(Cells) /\ Sized(hs, n)
  BY DEF Cells, Sized
<1>4. MarshalHashes(hs) = all
  BY DEF MarshalHashes
<1> SUFFICES /\ Sized(all, 4 + n)
             /\ UnmarshalHashes(bytes) = IF m = 4 + n THEN [ok |-> TRUE, item |-> hs] ELSE Error
  BY <1>4
<1> HIDE DEF n
<1>5. Sized(all, 4 + n) /\ Holds(all, 0, s) /\ Holds(all, 4, hs)
  BY <1>1, <1>2, <1>3, Joined
<1>6. Holds(all, 0, bytes)
  BY <1>4
<1> HIDE DEF all
<1>7. m <= 4 + n
  <2>1. 0 + m <= 4 + n
    BY <1>1, <1>5, <1>6, HoldsWithin
  <2> QED BY <2>1
<1>8. all \in Seq(Cells) /\ bytes \in Seq(Cells) /\ Len(bytes) = m
  BY <1>5 DEF Sized
<1>9. CASE m < 4
  <2>1. UnmarshalHashes(bytes) = Error
    BY <1>8, <1>9 DEF UnmarshalHashes
  <2> QED BY <1>1, <1>5, <1>9, <2>1
<1>10. CASE m >= 4
  <2>1. Holds(bytes, 0, s)
    <3>1. 0 + 4 <= m
      BY <1>10
    <3> QED BY <1>2, <1>5, <1>6, <1>8, <3>1, StartHolds
  <2>2. GetUint(bytes, 0, 4) = n
    BY <1>1, <2>1, Uint4
  <2> DEFINE count == GetUint(bytes, 0, 4)
  <2>3. UnmarshalHashes(bytes) = IF m < 4 + count THEN Error
                                 ELSE [ok |-> TRUE, item |-> SubSeq(bytes, 5, 4 + count)]
    BY <1>8, <1>10 DEF UnmarshalHashes
  <2> HIDE DEF count
  <2>4. UnmarshalHashes(bytes) = IF m < 4 + n THEN Error
                                 ELSE [ok |-> TRUE, item |-> SubSeq(bytes, 5, 4 + n)]
    BY <2>2, <2>3 DEF count
  <2>5. ASSUME m = 4 + n PROVE SubSeq(bytes, 5, 4 + n) = hs
    <3> DEFINE at == 4
    <3>1. at \in Nat /\ Holds(all, at, hs) /\ Len(hs) = n /\ at + n <= m
      BY <1>1, <1>5, <2>5 DEF n
    <3> HIDE DEF at
    <3>2. Holds(bytes, at, hs)
      BY <1>1, <1>3, <1>6, <1>8, <3>1, StartHolds
    <3>3. SubSeq(bytes, at + 1, at + n) = hs
      BY <1>1, <1>3, <1>8, <3>1, <3>2, HeldPart
    <3> QED BY <3>3 DEF at
  <2> DEFINE sub == SubSeq(bytes, 5, 4 + n)
  <2> HIDE DEF sub
  <2>6. UnmarshalHashes(bytes) = IF m < 4 + n THEN Error ELSE [ok |-> TRUE, item |-> sub]
    BY <2>4 DEF sub
  <2>7. m = 4 + n => sub = hs
    BY <2>5 DEF sub
  <2>8. CASE m = 4 + n
    BY <1>1, <1>5, <2>6, <2>7, <2>8
  <2>9. CASE m # 4 + n
    BY <1>1, <1>5, <1>7, <2>6, <2>9
  <2> QED BY <2>8, <2>9
<1> QED BY <1>9, <1>10

-----------------------------------------------------------------------------
(* An entry with its indices as they come back.                            *)
Narrowed(e) ==
  [txid |-> e.txid, subtreeIdx |-> e.subtreeIdx % Power[4], localIdx |-> e.localIdx % Power[4],
   globalIdx |-> e.globalIdx % Power[4], siblings |-> e.siblings]

(* The parts of an entry.                                                  *)
LEMMA EntryTypes ==
  ASSUME NEW e \in StumpEntries
  PROVE  /\ e.txid \in Hashes /\ e.subtreeIdx \in Int /\ e.localIdx \in Int /\ e.globalIdx \in Int
         /\ e.siblings \in Seq(Cells) /\ Len(e.siblings) \in Nat /\ Len(e.siblings) \in Int
         /\ 17 + Len(e.siblings) \in 0..(Power[4] - 1) /\ Len(e.siblings) \in 0..(Power[4] - 1)
<1>1. /\ e.txid \in Hashes /\ e.subtreeIdx \in Int /\ e.localIdx \in Int /\ e.globalIdx \in Int
      /\ e.siblings \in Seq(Hashes) /\ 17 + Len(e.siblings) < Power[4]
  BY DEF StumpEntries, HeaderSize
<1>2. e.siblings \in Seq(Cells) /\ Len(e.siblings) \in Nat
  <2> DEFINE s == e.siblings
  <2>1. s \in Seq(Hashes)
    BY <1>1
  <2> HIDE DEF s
  <2>2. s \in Seq(Cells) /\ Len(s) \in Nat
    BY <2>1 DEF Cells
  <2> QED BY <2>2 DEF s
<1>3. Power[4] \in Nat
  BY PowerType
<1> QED BY <1>1, <1>2, <1>3

(* Where the parts of an encoded entry stand.                              *)
LEMMA EntryParts ==
  ASSUME NEW e \in StumpEntries, NEW n \in Nat, n = Len(e.siblings)
  PROVE  /\ Sized(MarshalEntry(e), 17 + n)
         /\ Holds(MarshalEntry(e), 0, <<e.txid>>)
         /\ Holds(MarshalEntry(e), 1, PutUint(e.subtreeIdx, 4))
         /\ Holds(MarshalEntry(e), 5, PutUint(e.localIdx, 4))
         /\ Holds(MarshalEntry(e), 9, PutUint(e.globalIdx, 4))
         /\ Holds(MarshalEntry(e), 13, PutUint(n, 4))
         /\ Holds(MarshalEntry(e), 17, e.siblings)
<1> DEFINE a == <<e.txid>>
           b == PutUint(e.subtreeIdx, 4)
           c == PutUint(e.localIdx, 4)
           d == PutUint(e.globalIdx, 4)
           f == PutUint(n, 4)
           g == e.siblings
<1>1. Sized(a, 1) /\ a \in Seq(Cells) /\ Sized(g, n)
  BY EntryTypes DEF Cells, Sized
<1>2. Sized(b, 4) /\ Sized(c, 4) /\ Sized(d, 4) /\ Sized(f, 4)
  BY EntryTypes, Uint4
<1>3. b \in Seq(Cells) /\ c \in Seq(Cells) /\ d \in Seq(Cells) /\ f \in Seq(Cells)
  BY <1>2 DEF Sized
<1> DEFINE ab == a \o b
           ac == ab \o c
           ad == ac \o d
           af == ad \o f
           ag == af \o g
<1>4. MarshalEntry(e) = ag
  BY DEF MarshalEntry
<1> HIDE DEF a, b, c, d, f, g, ab, ac, ad, af, ag
<1>6. Sized(ab, 5) /\ Holds(ab, 0, a) /\ Holds(ab, 1, b)
  BY <1>1, <1>2, Joined DEF ab
<1>7. Sized(ac, 9) /\ Holds(ac, 0, a) /\ Holds(ac, 1, b) /\ Holds(ac, 5, c)
  BY <1>1, <1>2, <1>3, <1>6, Joined DEF ac
<1>8. /\ Sized(ad, 13)
      /\ Holds(ad, 0, a) /\ Holds(ad, 1, b) /\ Holds(ad, 5, c) /\ Holds(ad, 9, d)
  BY <1>1, <1>2, <1>3, <1>7, Joined DEF ad
<1>9. /\ Sized(af, 17)
      /\ Holds(af, 0, a) /\ Holds(af, 1, b) /\ Holds(af, 5, c) /\ Holds(af, 9, d)
      /\ Holds(af, 13, f)
  BY <1>1, <1>2, <1>3, <1>8, Joined DEF af
<1>10. /\ Sized(ag, 17 + n)
       /\ Holds(ag, 0, a) /\ Holds(ag, 1, b) /\ Holds(ag, 5, c) /\ Holds(ag, 9, d)
       /\ Holds(ag, 13, f) /\ Holds(ag, 17, g)
  BY <1>1, <1>2, <1>3, <1>9, Joined DEF ag
<1> QED BY <1>4, <1>10 DEF a, b, c, d, f, g

(* An entry comes back whole, its indices cut to four bytes, or is an      *)
(* error.                                                                  *)
LEMMA EntryBack ==
  ASSUME NEW e \in StumpEntries, NEW n \in Nat, n = Len(e.siblings),
         NEW bytes, NEW m \in Nat, Sized(bytes, m), Holds(MarshalEntry(e), 0, bytes)
  PROVE  UnmarshalEntry(bytes) = IF m = 17 + n THEN [ok |-> TRUE, item |-> Narrowed(e)]
                                 ELSE Error
<1> DEFINE all == MarshalEntry(e)
           t == <<e.txid>>
           g == e.siblings
<1>1. n \in 0..(Power[4] - 1) /\ Sized(g, n) /\ g \in Seq(Cells) /\ Sized(t, 1) /\ t[1] = e.txid
  BY EntryTypes DEF Sized, Cells
<1>2. /\ Sized(all, 17 + n) /\ Holds(all, 0, t) /\ Holds(all, 1, PutUint(e.subtreeIdx, 4))
      /\ Holds(all, 5, PutUint(e.localIdx, 4)) /\ Holds(all, 9, PutUint(e.globalIdx, 4))
      /\ Holds(all, 13, PutUint(n, 4)) /\ Holds(all, 17, g)
  BY EntryParts
<1> HIDE DEF all, t, g
<1>3. Holds(all, 0, bytes) /\ all \in Seq(Cells) /\ bytes \in Seq(Cells) /\ Len(bytes) = m
  BY <1>2 DEF all, Sized
<1>4. m <= 17 + n
  <2>1. 0 + m <= 17 + n
    BY <1>2, <1>3, HoldsWithin
  <2> QED BY <2>1
<1>5. CASE m < 17
  <2>1. UnmarshalEntry(bytes) = Error
    BY <1>3, <1>5 DEF UnmarshalEntry, HeaderSize
  <2> QED BY <1>5, <2>1
<1>6. CASE m >= 17
  <2>1. ASSUME NEW off \in 0..13, NEW v \in Int, Holds(all, off, PutUint(v, 4))
        PROVE  /\ GetUint(bytes, off, 4) = v % Power[4]
               /\ v \in 0..(Power[4] - 1) => GetUint(bytes, off, 4) = v
    <3>1. Sized(PutUint(v, 4), 4) /\ off \in Nat /\ off + 4 <= m
      BY <1>6, Uint4
    <3>2. Holds(bytes, off, PutUint(v, 4))
      BY <1>3, <2>1, <3>1, StartHolds
    <3> QED BY <3>1, <3>2, Uint4
  <2>2. GetUint(bytes, 13, 4) = n
    BY <1>1, <1>2, <2>1
  <2>3. /\ GetUint(bytes, 1, 4) = e.subtreeIdx % Power[4]
        /\ GetUint(bytes, 5, 4) = e.localIdx % Power[4]
        /\ GetUint(bytes, 9, 4) = e.globalIdx % Power[4]
    BY <1>2, <2>1, EntryTypes
  <2>4. bytes[1] = e.txid
    <3>1. Holds(bytes, 0, t)
      <4>1. 0 + 1 <= m
        BY <1>6
      <4> QED BY <1>1, <1>2, <1>3, <4>1, StartHolds
    <3>2. bytes[0 + 1] = t[1]
      BY <1>1, <3>1 DEF Holds, Sized
    <3> QED BY <1>1, <3>2
  <2> DEFINE k == GetUint(bytes, 13, 4)
             sub == SubSeq(bytes, 18, 17 + k)
             read == [txid |-> bytes[1], subtreeIdx |-> GetUint(bytes, 1, 4),
                      localIdx |-> GetUint(bytes, 5, 4), globalIdx |-> GetUint(bytes, 9, 4),
                      siblings |-> sub]
  <2>5. UnmarshalEntry(bytes) = IF m < 17 + k THEN Error ELSE [ok |-> TRUE, item |-> read]
    BY <1>3, <1>6 DEF UnmarshalEntry, HeaderSize
  <2>6. k = n
    BY <2>2
  <2>7. m = 17 + n => sub = g
    <3> DEFINE at == 17
    <3>1. at \in Nat /\ Holds(all, at, g) /\ Len(g) = n
      BY <1>2 DEF g
    <3>2. ASSUME m = 17 + n PROVE at + n <= m
      BY <3>2
    <3> HIDE DEF at, k, sub
    <3>3. m = 17 + n => Holds(bytes, at, g)
      BY <1>1, <1>2, <1>3, <3>1, <3>2, StartHolds
    <3>4. m = 17 + n => SubSeq(bytes, at + 1, at + n) = g
      BY <1>1, <1>3, <3>1, <3>3, HeldPart
    <3> QED BY <2>6, <3>4 DEF at, sub
  <2>8. m = 17 + n => read = Narrowed(e)
    <3> HIDE DEF sub
    <3> QED BY <2>3, <2>4, <2>7 DEF Narrowed, g
  <2> HIDE DEF k, sub, read
  <2>9. CASE m = 17 + n
    BY <2>5, <2>6, <2>8, <2>9
  <2>10. CASE m # 17 + n
    BY <1>4, <2>5, <2>6, <2>10
  <2> QED BY <2>9, <2>10
<1> QED BY <1>5, <1>6

-----------------------------------------------------------------------------
(* The first k values of f.                                                *)
Firsts(f, k) == [j \in 1..k |-> f[j]]

(* One value more, and all of them.                                        *)
LEMMA FirstsNext ==
  ASSUME NEW S, NEW f \in Seq(S)
  PROVE  /\ Firsts(f, 0) = << >> /\ Firsts(f, Len(f)) = f
         /\ \A k \in 1..Len(f) : Append(Firsts(f, k - 1), f[k]) = Firsts(f, k)
<1>1. Firsts(f, 0) = << >>
  BY DEF Firsts
<1>2. Firsts(f, Len(f)) = f
  BY DEF Firsts
<1>3. ASSUME NEW k \in 1..Len(f) PROVE Append(Firsts(f, k - 1), f[k]) = Firsts(f, k)
  <2> DEFINE s == Firsts(f, k - 1)
             t == Firsts(f, k)
  <2>1. s \in Seq(S) /\ Len(s) = k - 1 /\ \A j \in 1..(k - 1) : s[j] = f[j]
    BY DEF Firsts
  <2>2. t \in Seq(S) /\ Len(t) = k /\ \A j \in 1..k : t[j] = f[j]
    BY DEF Firsts
  <2>3. f[k] \in S
    OBVIOUS
  <2> HIDE DEF s, t
  <2> DEFINE a == Append(s, f[k])
  <2>4. a \in Seq(S) /\ Len(a) = k /\ (\A j \in 1..(k - 1) : a[j] = s[j]) /\ a[k] = f[k]
    BY <2>1, <2>3
  <2> HIDE DEF a
  <2>5. \A j \in 1..k : a[j] = t[j]
    BY <2>1, <2>2, <2>4
  <2>6. a = t
    BY <2>2, <2>4, <2>5
  <2> QED BY <2>6 DEF a, s, t
<1> QED BY <1>1, <1>2, <1>3

-----------------------------------------------------------------------------
(* An entry behind its length, as it stands in a list.                     *)
Framed(e) == PutUint(Len(MarshalEntry(e)), 4) \o MarshalEntry(e)

(* One round of UnmarshalEntries.                                          *)
NextEntry(bytes, before) ==
  IF ~before.ok \/ before.off + 4 > Len(bytes) THEN Error
  ELSE LET eLen == GetUint(bytes, before.off, 4)
           off  == before.off + 4
           e    == UnmarshalEntry(SubSeq(bytes, off + 1, off + eLen))
       IN IF off + eLen > Len(bytes) \/ ~e.ok THEN Error
          ELSE [ok |-> TRUE, off |-> off + eLen, item |-> Append(before.item, e.item)]

(* How long an encoded entry is.                                           *)
EntryLen(e) == 17 + Len(e.siblings)

(* That is the length of its cells, and four bytes have room for it.       *)
LEMMA EntrySized ==
  ASSUME NEW e \in StumpEntries
  PROVE  /\ EntryLen(e) \in Nat /\ EntryLen(e) \in 0..(Power[4] - 1)
         /\ Sized(MarshalEntry(e), EntryLen(e))
<1>1. EntryLen(e) \in 0..(Power[4] - 1) /\ Len(e.siblings) \in Nat /\ EntryLen(e) \in Nat
  BY EntryTypes DEF EntryLen
<1> DEFINE n == Len(e.siblings)
<1>2. n \in Nat
  BY <1>1
<1> HIDE DEF n
<1>3. Sized(MarshalEntry(e), 17 + n)
  BY <1>2, EntryParts DEF n
<1> QED BY <1>1, <1>3 DEF n, EntryLen

(* The same of UnmarshalEntry.                                             *)
LEMMA EntryReadBack ==
  ASSUME NEW e \in StumpEntries, NEW bytes, NEW m \in Nat, Sized(bytes, m),
         Holds(MarshalEntry(e), 0, bytes)
  PROVE  UnmarshalEntry(bytes) = IF m = EntryLen(e) THEN [ok |-> TRUE, item |-> Narrowed(e)]
                                 ELSE Error
<1> DEFINE n == Len(e.siblings)
<1>1. n \in Nat /\ n = Len(e.siblings)
  BY EntryTypes
<1>2. EntryLen(e) = 17 + n
  BY DEF EntryLen
<1> HIDE DEF n
<1>3. UnmarshalEntry(bytes) = IF m = 17 + n THEN [ok |-> TRUE, item |-> Narrowed(e)] ELSE Error
  BY <1>1, EntryBack
<1> QED BY <1>2, <1>3

(* The parts of a framed entry.                                            *)
LEMMA FramedParts ==
  ASSUME NEW e \in StumpEntries, NEW k \in Nat, k = EntryLen(e)
  PROVE  /\ Sized(Framed(e), 4 + k)
         /\ Holds(Framed(e), 0, PutUint(k, 4)) /\ Holds(Framed(e), 4, MarshalEntry(e))
<1> DEFINE s == MarshalEntry(e)
           t == PutUint(k, 4)
<1>1. Sized(s, k)
  BY EntrySized
<1>2. Sized(t, 4)
  BY Uint4
<1>3. Framed(e) = t \o s
  BY <1>1 DEF Framed, Sized
<1> HIDE DEF s, t
<1>4. Sized(t \o s, 4 + k) /\ Holds(t \o s, 0, t) /\ Holds(t \o s, 4, s)
  BY <1>1, <1>2, Joined
<1> QED BY <1>3, <1>4 DEF s, t

(* A round reads an entry back, or finds that the bytes end before it.     *)
EntryRead(bytes, m, off, read, e) ==
  NextEntry(bytes, [ok |-> TRUE, off |-> off, item |-> read]) =
    IF off + (4 + EntryLen(e)) <= m
      THEN [ok |-> TRUE, off |-> off + (4 + EntryLen(e)), item |-> Append(read, Narrowed(e))]
      ELSE Error

(* So it does of every entry that stands in the whole.                     *)
LEMMA NextEntryBack ==
  ASSUME NEW all, NEW bytes, NEW m, CutFrom(bytes, m, all),
         NEW e \in StumpEntries,
         NEW off \in Nat, Holds(all, off, Framed(e)), NEW read
  PROVE  EntryRead(bytes, m, off, read, e)
<1>cut. all \in Seq(Cells) /\ m \in Nat /\ Sized(bytes, m) /\ Holds(all, 0, bytes)
  BY DEF CutFrom
<1> USE <1>cut
<1> SUFFICES ASSUME NEW k \in Nat, k = EntryLen(e)
             PROVE  NextEntry(bytes, [ok |-> TRUE, off |-> off, item |-> read]) =
                      IF off + (4 + k) <= m
                        THEN [ok |-> TRUE, off |-> off + (4 + k), item |-> Append(read, Narrowed(e))]
                        ELSE Error
  BY EntrySized DEF EntryRead
<1> DEFINE x == Framed(e)
           s == MarshalEntry(e)
           t == PutUint(k, 4)
           before == [ok |-> TRUE, off |-> off, item |-> read]
<1>1. bytes \in Seq(Cells) /\ Len(bytes) = m /\ k \in 0..(Power[4] - 1)
  BY EntrySized DEF Sized
<1>2. Sized(s, k) /\ s \in Seq(Cells) /\ Sized(t, 4) /\ t \in Seq(Cells)
  BY EntrySized, Uint4 DEF Sized
<1>3. Sized(x, 4 + k) /\ x \in Seq(Cells) /\ Holds(x, 0, t) /\ Holds(x, 4, s)
  BY FramedParts DEF Sized
<1>4. before.ok = TRUE /\ before.off = off /\ before.item = read
  OBVIOUS
<1>5. t = PutUint(k, 4) /\ s = MarshalEntry(e) /\ Holds(all, off, x)
  OBVIOUS
<1> HIDE DEF x, s, t, before
<1>6. Holds(all, off + 0, t) /\ Holds(all, off + 4, s)
  BY <1>2, <1>3, <1>5, HoldsTrans
<1>7. CASE off + 4 > m
  <2>1. NextEntry(bytes, before) = Error
    BY <1>1, <1>4, <1>7 DEF NextEntry
  <2> QED BY <1>7, <2>1 DEF before
<1>8. CASE off + 4 <= m
  <2>1. Holds(bytes, off, t)
    BY <1>2, <1>6, <1>8, StartHolds
  <2>2. GetUint(bytes, off, 4) = k
    BY <1>1, <1>5, <2>1, Uint4
  <2> DEFINE eLen == GetUint(bytes, off, 4)
             sub == SubSeq(bytes, (off + 4) + 1, (off + 4) + eLen)
             got == UnmarshalEntry(sub)
  <2>3. NextEntry(bytes, before) =
          IF (off + 4) + eLen > m \/ ~got.ok THEN Error
          ELSE [ok |-> TRUE, off |-> (off + 4) + eLen, item |-> Append(read, got.item)]
    BY <1>1, <1>4, <1>8 DEF NextEntry
  <2>4. eLen = k
    BY <2>2
  <2> HIDE DEF eLen
  <2>5. CASE off + (4 + k) > m
    <3>1. (off + 4) + eLen > m
      BY <2>4, <2>5
    <3>2. NextEntry(bytes, before) = Error
      BY <2>3, <3>1
    <3> QED BY <2>5, <3>2 DEF before
  <2>6. CASE off + (4 + k) <= m
    <3>1. Holds(bytes, off + 4, s)
      <4>1. (off + 4) + k <= m
        BY <2>6
      <4> QED BY <1>2, <1>6, <4>1, StartHolds
    <3>2. Len(s) = k
      BY <1>2 DEF Sized
    <3>3. sub = s
      <4> DEFINE at == off + 4
      <4>1. at \in Nat /\ Holds(bytes, at, s) /\ sub = SubSeq(bytes, at + 1, at + k)
        BY <2>4, <3>1
      <4> HIDE DEF at, sub
      <4>3. k \in Nat /\ bytes \in Seq(Cells) /\ s \in Seq(Cells)
        BY <1>1, <1>2 DEF Sized
      <4>2. SubSeq(bytes, at + 1, at + k) = s
        BY ONLY <3>2, <4>1, <4>3, HeldPart
      <4> QED BY <4>1, <4>2
    <3> HIDE DEF sub
    <3>8. Holds(s, 0, s)
      BY <1>2 DEF Holds, Sized
    <3>4. Sized(sub, k) /\ Holds(s, 0, sub)
      BY <1>2, <3>3, <3>8
    <3>5. got = [ok |-> TRUE, item |-> Narrowed(e)]
      BY <1>5, <3>4, EntryReadBack
    <3> HIDE DEF got
    <3>6. (off + 4) + eLen = off + (4 + k)
      BY <2>4
    <3>9. got.ok = TRUE /\ got.item = Narrowed(e)
      BY <3>5
    <3>10. ~((off + 4) + eLen > m)
      BY <2>4, <2>6
    <3>7. NextEntry(bytes, before) =
            [ok |-> TRUE, off |-> off + (4 + k), item |-> Append(read, Narrowed(e))]
      BY <2>3, <3>6, <3>9, <3>10
    <3> QED BY <2>6, <3>7 DEF before
  <2> QED BY <2>5, <2>6
<1> QED BY <1>7, <1>8

(* A layout only grows, up to the length of the whole.                     *)
LEMMA LayoutEnd ==
  ASSUME NEW S, NEW seqs \in Seq(Seq(S)), NEW flat \in Seq(S),
         NEW pos \in [0..Len(seqs) -> Nat], Layout(pos, seqs, flat)
  PROVE  /\ \A i \in 1..Len(seqs) : pos[i - 1] <= pos[i] /\ pos[i] <= pos[Len(seqs)]
         /\ pos[0] = 0 /\ pos[Len(seqs)] = Len(flat)
<1>1. ASSUME NEW i \in 1..Len(seqs) PROVE pos[i - 1] <= pos[i] /\ pos[i] <= pos[Len(seqs)]
  <2>1. seqs[i] \in Seq(S)
    OBVIOUS
  <2>5. Len(seqs) \in Nat /\ Len(seqs[i]) \in Nat /\ Len(flat) \in Nat
    BY <2>1
  <2>6. i \in 0..Len(seqs) /\ i - 1 \in 0..Len(seqs)
    BY <2>5
  <2>2. Len(seqs[i]) \in Nat /\ pos[i - 1] \in Nat /\ pos[i] \in Nat /\ Len(flat) \in Nat
    BY <2>5, <2>6
  <2>3. pos[i] = pos[i - 1] + Len(seqs[i]) /\ pos[i - 1] + Len(seqs[i]) <= Len(flat)
    BY DEF Layout, Holds
  <2>4. pos[Len(seqs)] = Len(flat)
    BY DEF Layout
  <2> QED BY <2>2, <2>3, <2>4
<1> QED BY <1>1 DEF Layout

-----------------------------------------------------------------------------
(* In all, of which they are the last, the n parts F stand one behind the  *)
(* other, the i-th from pos[i - 1] to pos[i].                              *)
Laid(pos, n, F, all) ==
  /\ Sized(all, pos[n])
  /\ \A i \in 1..n :
       /\ pos[i - 1] \in Nat /\ pos[i] \in Nat
       /\ pos[i] = pos[i - 1] + Len(F[i]) /\ pos[i] <= pos[n]
       /\ Holds(all, pos[i - 1], F[i])

(* So stand the parts of a list behind its head.                           *)
LEMMA ListLaid ==
  ASSUME NEW n \in Nat, NEW F \in Seq(Seq(Cells)), Len(F) = n, NEW s, NEW k \in Nat, Sized(s, k)
  PROVE  /\ Holds(s \o Flatten(F), 0, s)
         /\ \E pos \in [0..n -> Nat] : pos[0] = k /\ Laid(pos, n, F, s \o Flatten(F))
<1> DEFINE flat == Flatten(F)
           all == s \o flat
<1>1. flat \in Seq(Cells) /\ \E at \in [0..n -> Nat] : Layout(at, F, flat)
  BY FlattenLayout
<1> HIDE DEF flat
<1>2. PICK at \in [0..n -> Nat] : Layout(at, F, flat)
  BY <1>1
<1>3. /\ \A i \in 1..n : at[i - 1] <= at[i] /\ at[i] <= at[n]
      /\ at[0] = 0 /\ Sized(flat, at[n])
  BY <1>1, <1>2, LayoutEnd DEF Sized
<1>4. at[n] \in Nat /\ \A i \in 1..n : at[i - 1] \in Nat /\ at[i] \in Nat
  BY <1>2
<1>5. Sized(all, k + at[n]) /\ Holds(all, 0, s) /\ Holds(all, k, flat)
  BY <1>3, <1>4, Joined
<1>6. all \in Seq(Cells)
  BY <1>5 DEF Sized
<1> HIDE DEF all
<1> DEFINE pos == [i \in 0..n |-> k + at[i]]
<1>7. pos \in [0..n -> Nat] /\ pos[0] = k /\ pos[n] = k + at[n]
  BY <1>2, <1>3
<1>8. ASSUME NEW i \in 1..n
      PROVE  /\ pos[i - 1] \in Nat /\ pos[i] \in Nat
             /\ pos[i] = pos[i - 1] + Len(F[i]) /\ pos[i] <= pos[n]
             /\ Holds(all, pos[i - 1], F[i])
  <2>1. pos[i - 1] = k + at[i - 1] /\ pos[i] = k + at[i] /\ pos[n] = k + at[n]
    BY <1>2
  <2>8. k \in Nat /\ at[i - 1] \in Nat /\ at[i] \in Nat /\ at[n] \in Nat
    BY <1>4
  <2>2. at[i] = at[i - 1] + Len(F[i]) /\ Holds(flat, at[i - 1], F[i]) /\ F[i] \in Seq(Cells)
    BY <1>2 DEF Layout
  <2>3. Len(F[i]) \in Nat
    BY <2>2
  <2>4. Holds(all, k + at[i - 1], F[i])
    BY <1>1, <1>4, <1>5, <1>6, <2>2, HoldsTrans
  <2> HIDE DEF pos
  <2>5. Holds(all, pos[i - 1], F[i])
    BY <2>1, <2>4
  <2>9. at[i] = at[i - 1] + Len(F[i]) /\ at[i] <= at[n]
    BY <1>3, <2>2
  <2>6. pos[i] = pos[i - 1] + Len(F[i]) /\ pos[i] <= pos[n]
    <3> DEFINE a == at[i - 1]
               b == at[i]
               c == at[n]
               w == Len(F[i])
    <3>1. k \in Nat /\ a \in Nat /\ b \in Nat /\ c \in Nat /\ w \in Nat /\ b = a + w /\ b <= c
      BY <2>3, <2>8, <2>9
    <3>2. pos[i - 1] = k + a /\ pos[i] = k + b /\ pos[n] = k + c
      BY <2>1
    <3> HIDE DEF a, b, c, w
    <3>3. k + b = (k + a) + w /\ k + b <= k + c
      BY <3>1
    <3> QED BY <3>2, <3>3 DEF w
  <2>7. pos[i - 1] \in Nat /\ pos[i] \in Nat
    BY ONLY <2>1, <2>8
  <2> QED BY <2>5, <2>6, <2>7
<1> HIDE DEF pos
<1>9. Laid(pos, n, F, all)
  BY <1>5, <1>7, <1>8 DEF Laid
<1> QED BY <1>5, <1>7, <1>9 DEF all, flat

(* Parts of ten bytes each.                                                *)
LEMMA EvenlyLaid ==
  ASSUME NEW n \in Nat, NEW F, NEW all, NEW k \in Nat, NEW pos \in [0..n -> Nat],
         pos[0] = k, Laid(pos, n, F, all), \A i \in 1..n : Len(F[i]) = 10
  PROVE  \A i \in 0..n : pos[i] = k + i * 10
<1> DEFINE T == {i \in 0..n : pos[i] = k + i * 10}
<1>1. 0 \in T
  OBVIOUS
<1>2. ASSUME NEW i \in 0..(n - 1), i \in T PROVE i + 1 \in T
  <2>1. i + 1 \in 1..n /\ (i + 1) - 1 = i /\ i + 1 \in 0..n /\ pos[i] = k + i * 10
    BY <1>2
  <2>2. pos[i + 1] = pos[i] + 10
    BY <2>1 DEF Laid
  <2>3. pos[i + 1] = k + (i + 1) * 10
    BY <2>1, <2>2
  <2> QED BY <2>1, <2>3
<1> HIDE DEF T
<1>3. 0..n \subseteq T
  BY <1>1, <1>2, UpTo
<1> QED BY <1>3 DEF T

(* What begins alike and goes on alike ends alike.                         *)
LEMMA Agree ==
  ASSUME NEW n \in Nat, NEW u, NEW g, u[0] = g[0],
         \A i \in 1..n : u[i - 1] = g[i - 1] => u[i] = g[i]
  PROVE  u[n] = g[n]
<1> DEFINE T == {i \in 0..n : u[i] = g[i]}
<1>1. 0 \in T
  OBVIOUS
<1>2. ASSUME NEW i \in 0..(n - 1), i \in T PROVE i + 1 \in T
  <2>1. i + 1 \in 1..n /\ (i + 1) - 1 = i /\ i + 1 \in 0..n /\ u[i] = g[i]
    BY <1>2
  <2> QED BY <2>1
<1> HIDE DEF T
<1>3. 0..n \subseteq T
  BY <1>1, <1>2, UpTo
<1> QED BY <1>3 DEF T

-----------------------------------------------------------------------------
(* A node of a level: its offset, its flag and its hash.                   *)
Nodes == [offset : 0..(Power[8] - 1), txid : BOOLEAN, hash : Hashes]

(* The flags and the hash of a node.                                       *)
Tail2(e) == <<Flags(e.txid), e.hash>>

(* They are two cells, from which the flag and the hash are read back.     *)
LEMMA TailCells ==
  ASSUME NEW e \in Nodes
  PROVE  /\ Sized(Tail2(e), 2) /\ HasTxidFlag(Tail2(e)[1]) = e.txid /\ Tail2(e)[2] = e.hash
         /\ e.offset \in 0..(Power[8] - 1) /\ e.offset \in Int
         /\ e = [offset |-> e.offset, txid |-> e.txid, hash |-> e.hash]
<1>1. /\ e.txid \in BOOLEAN /\ e.hash \in Hashes /\ e.offset \in 0..(Power[8] - 1)
      /\ e = [offset |-> e.offset, txid |-> e.txid, hash |-> e.hash]
  BY DEF Nodes
<1>2. Power[8] \in Nat
  BY PowerType
<1> DEFINE f == Flags(e.txid)
           h == e.hash
<1>3. f \in Cells /\ h \in Cells /\ HasTxidFlag(f) = e.txid
  <2>1. f \in 0..(Base - 1)
    BY BaseAssumption DEF Flags
  <2>2. (2 \div 2) % 2 = 1 /\ (0 \div 2) % 2 = 0
    OBVIOUS
  <2>3. HasTxidFlag(f) = e.txid
    BY <1>1, <2>2 DEF HasTxidFlag, Flags
  <2> QED BY <1>1, <2>1, <2>3 DEF Cells
<1>4. Tail2(e) = <<f, h>>
  BY DEF Tail2
<1> HIDE DEF f
<1>5. <<f, h>> \in Seq(Cells) /\ Len(<<f, h>>) = 2 /\ <<f, h>>[1] = f /\ <<f, h>>[2] = h
  BY <1>3
<1> QED BY <1>1, <1>2, <1>3, <1>4, <1>5 DEF Sized

-----------------------------------------------------------------------------
(* A node in a fragment, and how it is read where it stands.               *)
FragmentBytes(e) == PutUint(e.offset, 8) \o <<Flags(e.txid), e.hash>>

(* It takes ten cells, and FragmentEntry reads it back wherever it stands. *)
LEMMA FragmentEntryBack ==
  ASSUME NEW e \in Nodes
  PROVE  /\ Sized(FragmentBytes(e), 10)
         /\ \A bytes \in Seq(Cells) : \A off \in Nat :
              Holds(bytes, off, FragmentBytes(e)) => FragmentEntry(bytes, off) = e
<1> DEFINE a == PutUint(e.offset, 8)
           b == Tail2(e)
           c == a \o b
<1>1. Sized(a, 8) /\ Sized(b, 2) /\ a \in Seq(Cells) /\ b \in Seq(Cells)
  BY TailCells, Uint8 DEF Sized
<1>2. FragmentBytes(e) = c
  BY DEF FragmentBytes, Tail2
<1>3. b = Tail2(e) /\ a = PutUint(e.offset, 8)
  OBVIOUS
<1> HIDE DEF a, b
<1>4. Sized(c, 10) /\ Holds(c, 0, a) /\ Holds(c, 8, b) /\ c \in Seq(Cells)
  <2>1. Sized(c, 10) /\ Holds(c, 0, a) /\ Holds(c, 8, b)
    BY <1>1, Joined
  <2> QED BY <2>1 DEF Sized
<1> HIDE DEF c
<1>5. ASSUME NEW bytes \in Seq(Cells), NEW off \in Nat, Holds(bytes, off, c)
      PROVE  FragmentEntry(bytes, off) = e
  <2>1. Holds(bytes, off + 0, a) /\ Holds(bytes, off + 8, b)
    BY <1>1, <1>4, <1>5, HoldsTrans
  <2>2. GetUint(bytes, off, 8) = e.offset
    BY <1>3, <2>1, Uint8, TailCells
  <2>3. bytes[off + 9] = b[1] /\ bytes[off + 10] = b[2]
    <3>1. bytes[(off + 8) + 1] = b[1] /\ bytes[(off + 8) + 2] = b[2]
      BY <1>1, <2>1 DEF Holds, Sized
    <3> QED BY <3>1
  <2>4. HasTxidFlag(bytes[off + 9]) = e.txid /\ bytes[off + 10] = e.hash
    BY <1>3, <2>3, TailCells
  <2>5. FragmentEntry(bytes, off) = [offset |-> e.offset, txid |-> e.txid, hash |-> e.hash]
    BY <2>2, <2>4 DEF FragmentEntry
  <2> QED BY <2>5, TailCells
<1> QED BY <1>2, <1>4, <1>5

(* A level in a fragment.                                                  *)
FragmentLevel(l) == PutUint(Len(l), 4) \o Flatten([i \in 1..Len(l) |-> FragmentBytes(l[i])])

(* Its count takes four cells, and its nodes follow, ten cells each.       *)
LEMMA FragmentLevelParts ==
  ASSUME NEW l \in Seq(Nodes), NEW n \in Nat, n = Len(l), NEW f, f = FragmentLevel(l)
  PROVE  /\ Sized(f, 4 + n * 10) /\ Holds(f, 0, PutUint(n, 4))
         /\ \A i \in 1..n : Holds(f, 4 + (i - 1) * 10, FragmentBytes(l[i]))
<1> DEFINE F == [i \in 1..n |-> FragmentBytes(l[i])]
           s == PutUint(n, 4)
<1>1. \A i \in 1..n : l[i] \in Nodes
  OBVIOUS
<1>2. ASSUME NEW i \in 1..n PROVE FragmentBytes(l[i]) \in Seq(Cells) /\ Len(FragmentBytes(l[i])) = 10
  BY <1>1, FragmentEntryBack DEF Sized
<1>3. F \in Seq(Seq(Cells)) /\ Len(F) = n /\ \A i \in 1..n : F[i] = FragmentBytes(l[i])
  <2>1. F \in [1..n -> Seq(Cells)]
    BY <1>2
  <2> QED BY <2>1
<1>4. f = s \o Flatten(F)
  BY DEF FragmentLevel
<1>5. Sized(s, 4)
  BY Uint4
<1> HIDE DEF F, s
<1>6. Holds(f, 0, s) /\ \E pos \in [0..n -> Nat] : pos[0] = 4 /\ Laid(pos, n, F, f)
  BY <1>3, <1>4, <1>5, ListLaid
<1>7. PICK pos \in [0..n -> Nat] : pos[0] = 4 /\ Laid(pos, n, F, f)
  BY <1>6
<1>8. \A i \in 0..n : pos[i] = 4 + i * 10
  <2>1. \A i \in 1..n : Len(F[i]) = 10
    BY <1>2, <1>3
  <2>2. PICK k \in Nat : k = 4
    OBVIOUS
  <2>3. pos[0] = k /\ Laid(pos, n, F, f)
    BY <1>7, <2>2
  <2>4. \A i \in 0..n : pos[i] = k + i * 10
    BY <2>1, <2>3, EvenlyLaid
  <2> QED BY <2>2, <2>4
<1>9. Sized(f, 4 + n * 10)
  BY <1>7, <1>8 DEF Laid
<1>10. ASSUME NEW i \in 1..n PROVE Holds(f, 4 + (i - 1) * 10, FragmentBytes(l[i]))
  <2>1. Holds(f, pos[i - 1], F[i])
    BY <1>7 DEF Laid
  <2>2. pos[i - 1] = 4 + (i - 1) * 10 /\ F[i] = FragmentBytes(l[i])
    BY <1>3, <1>8
  <2> QED BY <2>1, <2>2
<1> QED BY <1>6, <1>9, <1>10 DEF s

(* The length of an encoded level, and the levels whose count fits.        *)
LevelLen(l) == 4 + Len(l) * 10
ShortLevels == {l \in Seq(Nodes) : Len(l) \in 0..(Power[4] - 1)}

(* One round of UnmarshalFragment.                                         *)
NextLevel(bytes, before) ==
  IF ~before.ok \/ before.off + 4 > Len(bytes) THEN Error
  ELSE LET n   == GetUint(bytes, before.off, 4)
           off == before.off + 4
       IN IF off + n * EntrySize > Len(bytes) THEN Error
          ELSE [ok |-> TRUE, off |-> off + n * EntrySize,
                item |-> Append(before.item,
                           [i \in 1..n |-> FragmentEntry(bytes, off + (i - 1) * EntrySize)])]

(* A round reads a level back, or finds that the bytes end before it.      *)
LevelRead(bytes, m, off, read, l) ==
  NextLevel(bytes, [ok |-> TRUE, off |-> off, item |-> read]) =
    IF off + LevelLen(l) <= m
      THEN [ok |-> TRUE, off |-> off + LevelLen(l), item |-> Append(read, l)]
      ELSE Error

(* So it does of every level that stands in the whole.                     *)
LEMMA NextLevelBack ==
  ASSUME NEW all, NEW bytes, NEW m, CutFrom(bytes, m, all),
         NEW l \in ShortLevels,
         NEW off \in Nat, Holds(all, off, FragmentLevel(l)), NEW read
  PROVE  LevelRead(bytes, m, off, read, l)
<1>cut. all \in Seq(Cells) /\ m \in Nat /\ Sized(bytes, m) /\ Holds(all, 0, bytes)
  BY DEF CutFrom
<1> USE <1>cut
<1> DEFINE w == LevelLen(l)
           x == FragmentLevel(l)
           n == Len(l)
           s == PutUint(n, 4)
           before == [ok |-> TRUE, off |-> off, item |-> read]
<1>0. l \in Seq(Nodes) /\ n \in 0..(Power[4] - 1) /\ w = 4 + n * 10
  BY DEF ShortLevels, LevelLen
<1>9. n = Len(l)
  OBVIOUS
<1> SUFFICES NextLevel(bytes, before) =
               IF off + w <= m THEN [ok |-> TRUE, off |-> off + w, item |-> Append(read, l)]
               ELSE Error
  BY DEF LevelRead
<1> HIDE DEF n, w
<1>1. n \in Nat /\ n \in Int /\ bytes \in Seq(Cells) /\ Len(bytes) = m
  BY <1>0, PowerType DEF Sized
<1>2. x = FragmentLevel(l) /\ Holds(all, off, x)
  OBVIOUS
<1> HIDE DEF x
<1>3. /\ Sized(x, 4 + n * 10) /\ Holds(x, 0, s) /\ x \in Seq(Cells)
      /\ \A i \in 1..n : Holds(x, 4 + (i - 1) * 10, FragmentBytes(l[i]))
  BY <1>0, <1>1, <1>2, <1>9, FragmentLevelParts DEF Sized
<1>4. Sized(s, 4) /\ s \in Seq(Cells) /\ s = PutUint(n, 4)
  BY <1>1, Uint4 DEF Sized
<1>5. before.ok = TRUE /\ before.off = off /\ before.item = read
  OBVIOUS
<1> HIDE DEF s, before
<1>6. Holds(all, off + 0, s)
  BY <1>2, <1>3, <1>4, HoldsTrans
<1>7. CASE off + 4 > m
  <2>1. NextLevel(bytes, before) = Error
    BY <1>1, <1>5, <1>7 DEF NextLevel
  <2> QED BY <1>0, <1>1, <1>7, <2>1 DEF before
<1>8. CASE off + 4 <= m
  <2>1. GetUint(bytes, off, 4) = n
    <3>1. Holds(bytes, off, s)
      BY <1>4, <1>6, <1>8, StartHolds
    <3> QED BY <1>0, <1>1, <1>4, <3>1, Uint4
  <2> DEFINE k == GetUint(bytes, off, 4)
             got(j) == [i \in 1..j |-> FragmentEntry(bytes, (off + 4) + (i - 1) * 10)]
  <2>2. NextLevel(bytes, before) =
          IF (off + 4) + k * 10 > m THEN Error
          ELSE [ok |-> TRUE, off |-> (off + 4) + k * 10, item |-> Append(read, got(k))]
    BY <1>1, <1>5, <1>8 DEF NextLevel, EntrySize
  <2>3. k = n
    BY <2>1
  <2> HIDE DEF k, got
  <2>4. NextLevel(bytes, before) =
          IF (off + 4) + n * 10 > m THEN Error
          ELSE [ok |-> TRUE, off |-> (off + 4) + n * 10, item |-> Append(read, got(n))]
    BY <2>2, <2>3
  <2>5. (off + 4) + n * 10 = off + w
    BY <1>0, <1>1
  <2>6. CASE off + w > m
    BY <1>0, <1>1, <2>4, <2>5, <2>6 DEF before
  <2>7. CASE off + w <= m
    <3>1. ASSUME NEW i \in 1..n
          PROVE  FragmentEntry(bytes, (off + 4) + (i - 1) * 10) = l[i]
      <4> DEFINE at == 4 + (i - 1) * 10
                 y == FragmentBytes(l[i])
      <4>1. l[i] \in Nodes
        BY <1>0, <1>1, <1>9
      <4>2. Sized(y, 10) /\ y \in Seq(Cells)
        BY <4>1, FragmentEntryBack DEF Sized
      <4>3. at \in Nat /\ off + at + 10 <= m /\ off + at \in Nat
        BY <1>0, <1>1, <2>7
      <4>4. Holds(x, at, y)
        BY <1>3
      <4>5. (off + 4) + (i - 1) * 10 = off + at
        BY <1>1
      <4>6. y = FragmentBytes(l[i])
        OBVIOUS
      <4> HIDE DEF at, y
      <4>7. Holds(all, off + at, y)
        BY <1>2, <1>3, <4>2, <4>3, <4>4, HoldsTrans
      <4>8. Holds(bytes, off + at, y)
        BY <4>2, <4>3, <4>7, StartHolds
      <4>9. FragmentEntry(bytes, off + at) = l[i]
        BY <1>1, <4>1, <4>3, <4>6, <4>8, FragmentEntryBack
      <4> QED BY <4>5, <4>9
    <3>2. got(n) = l
      <4>1. l = [i \in 1..n |-> l[i]]
        BY <1>0, <1>9
      <4>2. got(n) = [i \in 1..n |-> l[i]]
        BY <3>1, Zenon DEF got
      <4> QED BY <4>1, <4>2
    <3>3. ~((off + 4) + n * 10 > m)
      BY <1>0, <1>1, <2>7
    <3> QED BY <2>4, <2>5, <2>7, <3>2, <3>3 DEF before
  <2> QED BY <1>0, <1>1, <2>6, <2>7
<1> QED BY <1>7, <1>8

-----------------------------------------------------------------------------
(* The parts of a level list.                                              *)
LEMMA LevelsTypes ==
  ASSUME NEW levels \in Levels
  PROVE  /\ levels \in Seq(Seq(Nodes)) /\ Len(levels) \in Nat /\ Len(levels) \in 0..(Base - 1)
         /\ \A k \in 1..Len(levels) :
              /\ levels[k] \in Seq(Nodes) /\ Len(levels[k]) \in 0..(Power[4] - 1)
              /\ Len(levels[k]) \in 0..(Power[8] - 1)
<1>1. levels \in Seq(Seq(Nodes)) /\ Len(levels) < Base
  BY DEF Levels, Nodes
<1>2. \A k \in DOMAIN levels : Len(levels[k]) < Power[4]
  BY DEF Levels
<1>3. Len(levels) \in Nat /\ DOMAIN levels = 1..Len(levels)
  BY <1>1
<1>4. Power[4] <= Power[8]
  <2> DEFINE T == {k \in 0..4 : Power[4] <= Power[4 + k]}
  <2>1. 0 \in T
    BY PowerType
  <2>2. ASSUME NEW k \in 0..3, k \in T PROVE k + 1 \in T
    <3>1. Power[4 + (k + 1)] = Base * Power[4 + k]
      <4>1. 4 + (k + 1) \in 1..8 /\ (4 + (k + 1)) - 1 = 4 + k
        OBVIOUS
      <4> QED BY <4>1, PowerStep
    <3>2. Power[4 + k] \in Nat /\ Power[4] \in Nat /\ Power[4] <= Power[4 + k]
      BY <2>2, PowerType
    <3> DEFINE p == Power[4 + k]
    <3> HIDE DEF p
    <3>3. p \in Nat => p <= Base * p
      BY BaseAssumption
    <3>4. p \in Nat /\ Power[4] <= p /\ Power[4 + (k + 1)] = Base * p
      BY <3>1, <3>2 DEF p
    <3>5. Base * p \in Int
      BY BaseAssumption, <3>4
    <3>6. Power[4] <= Power[4 + (k + 1)]
      <4> DEFINE b == Base * p
      <4>1. p <= b /\ b \in Int /\ Power[4 + (k + 1)] = b
        BY <3>3, <3>4, <3>5
      <4> HIDE DEF b
      <4> QED BY <3>2, <3>4, <4>1
    <3> QED BY <3>6
  <2> HIDE DEF T
  <2>3. 0..4 \subseteq T
    <3> DEFINE n == 4
    <3>1. n \in Nat /\ 0 \in T /\ \A k \in 0..(n - 1) : k \in T => k + 1 \in T
      BY <2>1, <2>2
    <3> HIDE DEF n
    <3>2. 0..n \subseteq T
      BY <3>1, UpTo
    <3> QED BY <3>2 DEF n
  <2>4. 4 \in T /\ 4 + 4 = 8
    BY <2>3
  <2> QED BY <2>4 DEF T
<1>5. ASSUME NEW k \in 1..Len(levels)
      PROVE  /\ levels[k] \in Seq(Nodes) /\ Len(levels[k]) \in 0..(Power[4] - 1)
             /\ Len(levels[k]) \in 0..(Power[8] - 1)
  <2>1. levels[k] \in Seq(Nodes) /\ Len(levels[k]) < Power[4]
    BY <1>1, <1>2, <1>3
  <2> DEFINE len == Len(levels[k])
  <2>2. len \in Nat /\ len < Power[4]
    BY <2>1
  <2>3. Power[4] \in Nat /\ Power[8] \in Nat
    BY PowersUsed
  <2> HIDE DEF len
  <2>4. len \in 0..(Power[4] - 1) /\ len \in 0..(Power[8] - 1)
    BY <1>4, <2>2, <2>3
  <2> QED BY <2>1, <2>4 DEF len
<1> QED BY <1>1, <1>3, <1>5, BaseAssumption

(* A count of one byte.                                                    *)
LEMMA ByteBack ==
  ASSUME NEW n \in 0..(Base - 1)
  PROVE  Byte(n) = n /\ Sized(<<n>>, 1) /\ <<n>>[1] = n
<1>1. n % Base = n
  BY BaseAssumption
<1>2. <<n>> \in Seq(Cells)
  BY DEF Cells
<1> QED BY <1>1, <1>2 DEF Byte, Sized

-----------------------------------------------------------------------------
(* How long an integer of variable length is.                              *)
VarLen(v) == Len(WriteVarInt(v))

(* It is at least one cell, and its cells are that many.                   *)
LEMMA VarIntRead ==
  ASSUME NEW v \in 0..(Power[8] - 1)
  PROVE  /\ VarLen(v) \in Nat \ {0} /\ VarLen(v) \in Nat /\ Sized(WriteVarInt(v), VarLen(v))
         /\ WriteVarInt(v) \in Seq(Cells)
<1>1. WriteVarInt(v) \in Seq(Cells) /\ Len(WriteVarInt(v)) \in Nat \ {0}
  BY VarIntCells
<1> QED BY <1>1 DEF VarLen, Sized

(* Of the first m bytes it is read back, or is an error when they end      *)
(* before it does.                                                         *)
LEMMA VarIntReadBack ==
  ASSUME NEW all, NEW bytes, NEW m, CutFrom(bytes, m, all),
         NEW off \in Nat, NEW v \in 0..(Power[8] - 1), Holds(all, off, WriteVarInt(v))
  PROVE  ReadVarInt(bytes, off) =
           IF off + VarLen(v) <= m THEN [ok |-> TRUE, off |-> off + VarLen(v), value |-> v]
           ELSE Error
<1>cut. all \in Seq(Cells) /\ m \in Nat /\ Sized(bytes, m) /\ Holds(all, 0, bytes)
  BY DEF CutFrom
<1> USE <1>cut
<1>1. bytes \in Seq(Cells) /\ Len(bytes) = m
  BY DEF Sized
<1> DEFINE end == off + Len(WriteVarInt(v))
<1>2. ReadVarInt(bytes, off) = IF end <= Len(bytes)
                                 THEN [ok |-> TRUE, off |-> end, value |-> v] ELSE Error
  BY <1>1, ReadVarIntBack
<1>3. end = off + VarLen(v)
  BY DEF VarLen
<1> HIDE DEF end
<1> QED BY <1>1, <1>2, <1>3

(* A node in a BUMP.                                                       *)
NodeBytes(e) == WriteVarInt(e.offset) \o <<Flags(e.txid), e.hash>>

NodeLen(e) == VarLen(e.offset) + 2

(* Its offset stands first, and its flags and its hash behind it.          *)
LEMMA NodeParts ==
  ASSUME NEW e \in Nodes
  PROVE  /\ NodeLen(e) \in Nat /\ Sized(NodeBytes(e), NodeLen(e)) /\ NodeBytes(e) \in Seq(Cells)
         /\ Holds(NodeBytes(e), 0, WriteVarInt(e.offset))
         /\ Holds(NodeBytes(e), VarLen(e.offset), Tail2(e))
<1> DEFINE v == e.offset
           k == VarLen(v)
           a == WriteVarInt(v)
           b == Tail2(e)
<1>1. v \in 0..(Power[8] - 1) /\ Sized(b, 2)
  BY TailCells
<1>2. k \in Nat /\ Sized(a, k)
  BY <1>1, VarIntRead
<1>3. NodeBytes(e) = a \o b /\ NodeLen(e) = k + 2
  BY DEF NodeBytes, Tail2, NodeLen
<1> HIDE DEF k, a, b
<1>4. Sized(a \o b, k + 2) /\ Holds(a \o b, 0, a) /\ Holds(a \o b, k, b)
  BY <1>1, <1>2, Joined
<1>5. k + 2 \in Nat
  BY <1>2
<1>6. a \o b \in Seq(Cells)
  BY <1>4 DEF Sized
<1> QED BY <1>3, <1>4, <1>5, <1>6 DEF a, b, k

(* One round of the reader of a level.                                     *)
NextNode(bytes, before) ==
  LET offset == IF before.ok THEN ReadVarInt(bytes, before.off) ELSE Error
  IN IF ~offset.ok THEN Error
     ELSE IF offset.off + 2 > Len(bytes) THEN Error
     ELSE [ok    |-> TRUE,
           off   |-> offset.off + 2,
           level |-> Append(before.level,
                       [offset |-> offset.value,
                        txid   |-> HasTxidFlag(bytes[offset.off + 1]),
                        hash   |-> bytes[offset.off + 2]])]

(* Such a round reads a node back, or finds that the bytes end before it.  *)
LEMMA NextNodeBack ==
  ASSUME NEW all, NEW bytes, NEW m, CutFrom(bytes, m, all),
         NEW e \in Nodes, NEW off \in Nat, Holds(all, off, NodeBytes(e)), NEW read
  PROVE  NextNode(bytes, [ok |-> TRUE, off |-> off, level |-> read]) =
           IF off + NodeLen(e) <= m
             THEN [ok |-> TRUE, off |-> off + NodeLen(e), level |-> Append(read, e)]
             ELSE Error
<1>cut. all \in Seq(Cells) /\ m \in Nat /\ Sized(bytes, m) /\ Holds(all, 0, bytes)
  BY DEF CutFrom
<1> USE <1>cut
<1> DEFINE v == e.offset
           k == VarLen(v)
           a == WriteVarInt(v)
           b == Tail2(e)
           x == NodeBytes(e)
           before == [ok |-> TRUE, off |-> off, level |-> read]
           got == ReadVarInt(bytes, off)
           end == off + k
<1>1. /\ v \in 0..(Power[8] - 1) /\ Sized(b, 2) /\ HasTxidFlag(b[1]) = e.txid /\ b[2] = e.hash
      /\ e = [offset |-> v, txid |-> e.txid, hash |-> e.hash] /\ b \in Seq(Cells)
  BY TailCells DEF Sized
<1>2. k \in Nat /\ a \in Seq(Cells) /\ Sized(a, k)
  BY <1>1, VarIntRead
<1>3. /\ Sized(x, NodeLen(e)) /\ x \in Seq(Cells) /\ Holds(x, 0, a) /\ Holds(x, k, b)
      /\ Holds(all, off, x)
  BY NodeParts
<1>4. off + NodeLen(e) = end + 2 /\ end \in Nat
  BY <1>2 DEF NodeLen
<1>5. bytes \in Seq(Cells) /\ Len(bytes) = m
  BY DEF Sized
<1>6. Holds(all, off, a) /\ Holds(all, end, b)
  <2> HIDE DEF v, k, a, b, x
  <2>1. Holds(all, off + 0, a) /\ Holds(all, off + k, b)
    BY <1>1, <1>2, <1>3, HoldsTrans
  <2> QED BY <2>1
<1>7. got = IF end <= m THEN [ok |-> TRUE, off |-> end, value |-> v] ELSE Error
  <2> HIDE DEF v
  <2>1. got = IF off + VarLen(v) <= m THEN [ok |-> TRUE, off |-> off + VarLen(v), value |-> v]
              ELSE Error
    BY <1>1, <1>6, VarIntReadBack
  <2> QED BY <2>1
<1>8. NextNode(bytes, before) =
        IF ~got.ok THEN Error
        ELSE IF got.off + 2 > m THEN Error
        ELSE [ok |-> TRUE, off |-> got.off + 2,
              level |-> Append(read, [offset |-> got.value,
                                      txid   |-> HasTxidFlag(bytes[got.off + 1]),
                                      hash   |-> bytes[got.off + 2]])]
  <2> HIDE DEF got
  <2>1. before.ok = TRUE /\ before.off = off /\ before.level = read
    OBVIOUS
  <2> HIDE DEF before
  <2>2. NextNode(bytes, before) =
          IF ~ReadVarInt(bytes, off).ok THEN Error
          ELSE IF ReadVarInt(bytes, off).off + 2 > Len(bytes) THEN Error
          ELSE [ok |-> TRUE, off |-> ReadVarInt(bytes, off).off + 2,
                level |-> Append(read,
                            [offset |-> ReadVarInt(bytes, off).value,
                             txid   |-> HasTxidFlag(bytes[ReadVarInt(bytes, off).off + 1]),
                             hash   |-> bytes[ReadVarInt(bytes, off).off + 2]])]
    BY <2>1 DEF NextNode
  <2> QED BY <1>5, <2>2 DEF got
<1> SUFFICES NextNode(bytes, before) =
               IF end + 2 <= m THEN [ok |-> TRUE, off |-> end + 2, level |-> Append(read, e)]
               ELSE Error
  BY <1>4
<1> HIDE DEF before, got
<1>9. CASE end > m
  <2>1. ~got.ok
    BY <1>4, <1>7, <1>9 DEF Error
  <2>2. NextNode(bytes, before) = Error
    BY <1>8, <2>1
  <2> QED BY <1>4, <1>9, <2>2
<1>10. CASE end <= m
  <2>1. got.ok = TRUE /\ got.off = end /\ got.value = v
    BY <1>7, <1>10
  <2>2. CASE end + 2 > m
    <3> HIDE DEF end
    <3>1. NextNode(bytes, before) = Error
      BY <1>8, <2>1, <2>2
    <3> QED BY <1>4, <2>2, <3>1
  <2>3. CASE end + 2 <= m
    <3> HIDE DEF v, k, a, b, end
    <3>1. Holds(bytes, end, b)
      BY <1>1, <1>4, <1>6, <2>3, StartHolds
    <3>2. bytes[end + 1] = b[1] /\ bytes[end + 2] = b[2]
      BY <1>1, <3>1 DEF Holds, Sized
    <3>3. HasTxidFlag(bytes[end + 1]) = e.txid /\ bytes[end + 2] = e.hash
      BY <1>1, <3>2
    <3>4. [offset |-> got.value, txid |-> HasTxidFlag(bytes[got.off + 1]),
           hash |-> bytes[got.off + 2]] = e
      BY <1>1, <2>1, <3>3
    <3> DEFINE node == [offset |-> got.value, txid |-> HasTxidFlag(bytes[got.off + 1]),
                        hash |-> bytes[got.off + 2]]
    <3>6. NextNode(bytes, before) =
            IF ~got.ok THEN Error
            ELSE IF got.off + 2 > m THEN Error
            ELSE [ok |-> TRUE, off |-> got.off + 2, level |-> Append(read, node)]
      BY <1>8
    <3>7. node = e
      BY <3>4
    <3> HIDE DEF node
    <3>8. ~(end + 2 > m)
      BY <1>4, <2>3
    <3>5. NextNode(bytes, before) = [ok |-> TRUE, off |-> end + 2, level |-> Append(read, e)]
      BY <2>1, <3>6, <3>7, <3>8
    <3> QED BY <2>3, <3>5
  <2> QED BY <1>4, <2>2, <2>3
<1> QED BY <1>4, <1>9, <1>10

-----------------------------------------------------------------------------
(* A level in a BUMP, of no more nodes than a variable length has room for. *)
LevelBytes(l) == WriteVarInt(Len(l)) \o Flatten([i \in 1..Len(l) |-> NodeBytes(l[i])])

(* The levels whose count fits, and the length of one.                     *)
LongLevels == {l \in Seq(Nodes) : Len(l) \in 0..(Power[8] - 1)}

BytesLen(l) == Len(LevelBytes(l))

(* Where its nodes stand.                                                  *)
LEMMA LevelLaid ==
  ASSUME NEW l \in LongLevels
  PROVE  \E n \in Nat, f \in Seq(Cells) :
           /\ n = Len(l) /\ f = LevelBytes(l) /\ Holds(f, 0, WriteVarInt(n))
           /\ \E pos \in [0..n -> Nat] :
                /\ pos[0] = VarLen(n) /\ Sized(f, pos[n])
                /\ \A i \in 1..n :
                     /\ pos[i - 1] \in Nat /\ pos[i] \in Nat
                     /\ pos[i] = pos[i - 1] + NodeLen(l[i]) /\ pos[i] <= pos[n]
                     /\ Holds(f, pos[i - 1], NodeBytes(l[i]))
<1>0. PICK n \in Nat : n = Len(l)
  BY DEF LongLevels
<1> DEFINE f == LevelBytes(l)
           F == [i \in 1..n |-> NodeBytes(l[i])]
           s == WriteVarInt(n)
           k == VarLen(n)
<1>1. l \in Seq(Nodes) /\ n \in 0..(Power[8] - 1) /\ \A i \in 1..n : l[i] \in Nodes
  <2>1. l \in Seq(Nodes) /\ Len(l) \in 0..(Power[8] - 1)
    BY DEF LongLevels
  <2> QED BY <1>0, <2>1
<1>2. ASSUME NEW i \in 1..n
      PROVE  NodeBytes(l[i]) \in Seq(Cells) /\ Len(NodeBytes(l[i])) = NodeLen(l[i])
  BY <1>1, NodeParts DEF Sized
<1>3. F \in Seq(Seq(Cells)) /\ Len(F) = n /\ \A i \in 1..n : F[i] = NodeBytes(l[i])
  <2>1. F \in [1..n -> Seq(Cells)]
    BY <1>2
  <2> QED BY <2>1
<1>4. f = s \o Flatten(F)
  BY <1>0 DEF LevelBytes
<1>5. k \in Nat /\ Sized(s, k)
  BY <1>1, VarIntRead
<1>10. f = LevelBytes(l)
  OBVIOUS
<1> HIDE DEF f, F, s, k
<1>6. Holds(f, 0, s) /\ \E pos \in [0..n -> Nat] : pos[0] = k /\ Laid(pos, n, F, f)
  BY <1>3, <1>4, <1>5, ListLaid
<1>7. PICK pos \in [0..n -> Nat] : pos[0] = k /\ Laid(pos, n, F, f)
  BY <1>6
<1>8. ASSUME NEW i \in 1..n
      PROVE  /\ pos[i - 1] \in Nat /\ pos[i] \in Nat
             /\ pos[i] = pos[i - 1] + NodeLen(l[i]) /\ pos[i] <= pos[n]
             /\ Holds(f, pos[i - 1], NodeBytes(l[i]))
  BY <1>2, <1>3, <1>7 DEF Laid
<1>9. Sized(f, pos[n]) /\ f \in Seq(Cells)
  BY <1>7 DEF Laid, Sized
<1> QED BY <1>0, <1>6, <1>7, <1>8, <1>9, <1>10 DEF s, k

(* A level comes back whole, or is an error.                               *)
LEMMA LevelBack ==
  ASSUME NEW all, NEW bytes, NEW m, CutFrom(bytes, m, all),
         NEW l \in LongLevels, NEW off \in Nat, Holds(all, off, LevelBytes(l))
  PROVE  /\ BytesLen(l) \in Nat
         /\ ReadLevel(bytes, off) =
              IF off + BytesLen(l) <= m
                THEN [ok |-> TRUE, off |-> off + BytesLen(l), level |-> l] ELSE Error
<1>cut. all \in Seq(Cells) /\ m \in Nat /\ Sized(bytes, m) /\ Holds(all, 0, bytes)
  BY DEF CutFrom
<1> USE <1>cut
<1>0. PICK n \in Nat, x \in Seq(Cells) :
        /\ n = Len(l) /\ x = LevelBytes(l) /\ Holds(x, 0, WriteVarInt(n))
        /\ \E pos \in [0..n -> Nat] :
             /\ pos[0] = VarLen(n) /\ Sized(x, pos[n])
             /\ \A i \in 1..n :
                  /\ pos[i - 1] \in Nat /\ pos[i] \in Nat
                  /\ pos[i] = pos[i - 1] + NodeLen(l[i]) /\ pos[i] <= pos[n]
                  /\ Holds(x, pos[i - 1], NodeBytes(l[i]))
  BY LevelLaid
<1>12. ASSUME NEW e \in Nodes, NEW at \in Nat, Holds(all, at, NodeBytes(e)), NEW read
       PROVE  NextNode(bytes, [ok |-> TRUE, off |-> at, level |-> read]) =
                IF at + NodeLen(e) <= m
                  THEN [ok |-> TRUE, off |-> at + NodeLen(e), level |-> Append(read, e)]
                  ELSE Error
  BY <1>12, NextNodeBack
<1> DEFINE s == WriteVarInt(n)
           k == VarLen(n)
<1>1. /\ l \in Seq(Nodes) /\ n \in 0..(Power[8] - 1) /\ n \in Nat /\ \A i \in 1..n : l[i] \in Nodes
  <2>1. l \in Seq(Nodes) /\ Len(l) \in 0..(Power[8] - 1)
    BY DEF LongLevels
  <2> QED BY <1>0, <2>1
<1>2. n = Len(l) /\ x = LevelBytes(l) /\ Holds(all, off, x)
  BY <1>0
<1>3. Holds(x, 0, s)
  BY <1>0
<1>4. PICK pos \in [0..n -> Nat] :
        /\ pos[0] = k /\ Sized(x, pos[n])
        /\ \A i \in 1..n :
             /\ pos[i - 1] \in Nat /\ pos[i] \in Nat
             /\ pos[i] = pos[i - 1] + NodeLen(l[i]) /\ pos[i] <= pos[n]
             /\ Holds(x, pos[i - 1], NodeBytes(l[i]))
  BY <1>0
<1>5. k \in Nat /\ Sized(s, k) /\ s \in Seq(Cells) /\ Holds(x, 0, s)
  BY <1>1, <1>3, VarIntRead
<1>6. pos[n] \in Nat /\ x \in Seq(Cells) /\ BytesLen(l) = pos[n] /\ k <= pos[n]
  <2>1. pos[n] \in Nat /\ x \in Seq(Cells) /\ BytesLen(l) = pos[n]
    BY <1>1, <1>2, <1>4 DEF Sized, BytesLen
  <2>2. 0 + k <= pos[n]
    BY <1>4, <1>5, <2>1, HoldsWithin
  <2> QED BY <1>5, <2>1, <2>2
<1>7. bytes \in Seq(Cells) /\ Len(bytes) = m
  BY DEF Sized
<1>8. Holds(all, off, s)
  <2> HIDE DEF s
  <2>1. Holds(all, off + 0, s)
    BY <1>2, <1>5, <1>6, HoldsTrans
  <2> QED BY <2>1
<1> DEFINE head == ReadVarInt(bytes, off)
<1>9. head = IF off + k <= m THEN [ok |-> TRUE, off |-> off + k, value |-> n] ELSE Error
  BY <1>1, <1>8, VarIntReadBack
<1> SUFFICES ReadLevel(bytes, off) =
               IF off + pos[n] <= m THEN [ok |-> TRUE, off |-> off + pos[n], level |-> l]
               ELSE Error
  BY <1>6
<1> HIDE DEF head, k, s
<1>10. CASE off + k > m
  <2>1. ~head.ok
    BY <1>5, <1>9, <1>10 DEF Error
  <2>2. ReadLevel(bytes, off) = Error
    BY <2>1 DEF ReadLevel, head
  <2> QED BY <1>5, <1>6, <1>10, <2>2
<1>11. CASE off + k <= m
  <2>1. head.ok = TRUE /\ head.off = off + k /\ head.value = n
    BY <1>9, <1>11
  <2> DEFINE start == [ok |-> TRUE, off |-> off + k, level |-> << >>]
             Is(u) == u = [i \in 0..n |-> IF i = 0 THEN start ELSE NextNode(bytes, u[i - 1])]
             g == [i \in 0..n |->
                     IF off + pos[i] <= m
                       THEN [ok |-> TRUE, off |-> off + pos[i], level |-> Firsts(l, i)]
                       ELSE Error]
  <2>2. ReadLevel(bytes, off) = (CHOOSE u : Is(u))[n]
    <3> DEFINE count == head.value
               first == [ok |-> TRUE, off |-> head.off, level |-> << >>]
    <3>1. ReadLevel(bytes, off) =
            (CHOOSE u : u = [i \in 0..count |->
                               IF i = 0 THEN first ELSE NextNode(bytes, u[i - 1])])[count]
      BY <2>1 DEF ReadLevel, NextNode, head
    <3>2. count = n /\ first = start
      BY <2>1
    <3> HIDE DEF count, start, first
    <3> QED BY <3>1, <3>2
  <2>3. Firsts(l, 0) = << >> /\ Firsts(l, n) = l
    BY <1>1, <1>2, FirstsNext
  <2>4. ASSUME NEW i \in 1..n PROVE g[i] = NextNode(bytes, g[i - 1])
    <3>1. i \in 0..n /\ i - 1 \in 0..n
      BY <1>1
    <3>2. PICK e \in Nodes, at \in Nat : e = l[i] /\ at = off + pos[i - 1]
      <4>1. l[i] \in Nodes
        BY <1>1
      <4>2. off + pos[i - 1] \in Nat
        BY <1>4
      <4> QED BY <4>1, <4>2
    <3>3. NodeLen(e) \in Nat /\ off + pos[i] = at + NodeLen(e)
      <4>1. NodeLen(e) \in Nat
        BY NodeParts
      <4> QED BY <1>4, <3>2, <4>1
    <3>10. Holds(all, at, NodeBytes(e))
      <4> DEFINE y == NodeBytes(e)
                 p == pos[i - 1]
      <4>1. y \in Seq(Cells) /\ p \in Nat /\ Holds(x, p, y)
        BY <1>4, <3>2, NodeParts
      <4> HIDE DEF y, p
      <4>2. Holds(all, off + p, y)
        BY <1>2, <1>6, <4>1, HoldsTrans
      <4> QED BY <3>2, <4>2 DEF y, p
    <3> DEFINE read == Firsts(l, i - 1)
    <3>4. Append(read, e) = Firsts(l, i)
      BY <1>1, <1>2, <3>2, FirstsNext
    <3> HIDE DEF read
    <3>5. NextNode(bytes, [ok |-> TRUE, off |-> at, level |-> read]) =
            IF at + NodeLen(e) <= m
              THEN [ok |-> TRUE, off |-> at + NodeLen(e), level |-> Append(read, e)]
              ELSE Error
      BY <1>12, <3>10
    <3>6. g[i] = IF off + pos[i] <= m
                   THEN [ok |-> TRUE, off |-> off + pos[i], level |-> Firsts(l, i)] ELSE Error
      BY <3>1
    <3>7. g[i - 1] = IF at <= m THEN [ok |-> TRUE, off |-> at, level |-> read] ELSE Error
      BY <3>1, <3>2 DEF read
    <3> HIDE DEF g
    <3>8. CASE at <= m
      BY <3>3, <3>4, <3>5, <3>6, <3>7, <3>8
    <3>9. CASE at > m
      <4>1. g[i - 1] = Error
        BY <3>2, <3>7, <3>9
      <4>2. NextNode(bytes, g[i - 1]) = Error
        BY <4>1 DEF NextNode, Error
      <4>3. ~(off + pos[i] <= m)
        BY <3>2, <3>3, <3>9
      <4> QED BY <3>6, <4>2, <4>3
    <3> QED BY <3>2, <3>8, <3>9
  <2>5. g[0] = start
    <3>1. 0 \in 0..n
      BY <1>1
    <3>2. g[0] = IF off + pos[0] <= m
                   THEN [ok |-> TRUE, off |-> off + pos[0], level |-> Firsts(l, 0)] ELSE Error
      BY <3>1
    <3> QED BY <1>4, <1>11, <2>3, <3>2
  <2>6. g[n] = IF off + pos[n] <= m THEN [ok |-> TRUE, off |-> off + pos[n], level |-> l]
               ELSE Error
    <3>1. g[n] = IF off + pos[n] <= m
                   THEN [ok |-> TRUE, off |-> off + pos[n], level |-> Firsts(l, n)] ELSE Error
      BY <1>1
    <3> QED BY <2>3, <3>1
  <2>7. g = [i \in 0..n |-> g[i]]
    OBVIOUS
  <2> HIDE DEF g, start
  <2>8. Is(g)
    <3>1. \A i \in 0..n : g[i] = IF i = 0 THEN start ELSE NextNode(bytes, g[i - 1])
      BY <1>1, <2>4, <2>5
    <3> QED BY <2>7, <3>1
  <2> HIDE DEF Is
  <2>9. PICK u : Is(u) /\ ReadLevel(bytes, off) = u[n]
    BY <2>2, <2>8
  <2>10. \A i \in 0..n : u[i] = IF i = 0 THEN start ELSE NextNode(bytes, u[i - 1])
    BY <2>9, Zenon DEF Is
  <2>11. u[n] = g[n]
    <3>1. u[0] = g[0]
      BY <1>1, <2>5, <2>10
    <3>2. ASSUME NEW i \in 1..n, u[i - 1] = g[i - 1] PROVE u[i] = g[i]
      <4>1. i \in 0..n /\ i # 0
        BY <1>1
      <4> QED BY <2>4, <2>10, <3>2, <4>1
    <3> QED BY <1>1, <3>1, <3>2, Agree
  <2> QED BY <2>6, <2>9, <2>11
<1> QED BY <1>5, <1>10, <1>11

-----------------------------------------------------------------------------
(* One round of the reader of a BUMP.                                      *)
NextBUMPLevel(bytes, before) ==
  LET level == IF before.ok THEN ReadLevel(bytes, before.off) ELSE Error
  IN IF ~level.ok THEN Error
     ELSE [ok |-> TRUE, off |-> level.off, levels |-> Append(before.levels, level.level)]

(* A round reads a level back, or finds that the bytes end before it.      *)
BUMPLevelRead(bytes, m, off, read, l) ==
  NextBUMPLevel(bytes, [ok |-> TRUE, off |-> off, levels |-> read]) =
    IF off + BytesLen(l) <= m
      THEN [ok |-> TRUE, off |-> off + BytesLen(l), levels |-> Append(read, l)]
      ELSE Error

(* So it does of every level that stands in the whole.                     *)
LEMMA NextBUMPLevelBack ==
  ASSUME NEW all, NEW bytes, NEW m, CutFrom(bytes, m, all),
         NEW l \in LongLevels, NEW off \in Nat, Holds(all, off, LevelBytes(l)), NEW read
  PROVE  BUMPLevelRead(bytes, m, off, read, l)
<1>cut. all \in Seq(Cells) /\ m \in Nat /\ Sized(bytes, m) /\ Holds(all, 0, bytes)
  BY DEF CutFrom
<1> USE <1>cut
<1> DEFINE before == [ok |-> TRUE, off |-> off, levels |-> read]
           got == ReadLevel(bytes, off)
           end == off + BytesLen(l)
<1>1. got = IF end <= m THEN [ok |-> TRUE, off |-> end, level |-> l] ELSE Error
  BY LevelBack
<1>2. before.ok = TRUE /\ before.off = off /\ before.levels = read
  OBVIOUS
<1> SUFFICES NextBUMPLevel(bytes, before) =
               IF end <= m THEN [ok |-> TRUE, off |-> end, levels |-> Append(read, l)] ELSE Error
  BY DEF BUMPLevelRead
<1> HIDE DEF before, end
<1>3. NextBUMPLevel(bytes, before) =
        IF ~got.ok THEN Error
        ELSE [ok |-> TRUE, off |-> got.off, levels |-> Append(read, got.level)]
  BY <1>2 DEF NextBUMPLevel
<1> HIDE DEF got
<1>4. CASE end <= m
  <2>1. got.ok = TRUE /\ got.off = end /\ got.level = l
    BY <1>1, <1>4
  <2> QED BY <1>3, <1>4, <2>1
<1>5. CASE ~(end <= m)
  <2>1. ~got.ok
    BY <1>1, <1>5 DEF Error
  <2> QED BY <1>3, <1>5, <2>1
<1> QED BY <1>4, <1>5

(* What the reader of a BUMP reads behind the count of its levels.         *)
BUMPLevels(bytes, n, from) ==
  LET read[i \in 0..n] == IF i = 0 THEN [ok |-> TRUE, off |-> from, levels |-> << >>]
                          ELSE NextBUMPLevel(bytes, read[i - 1])
  IN read[n]

(* They stand there one behind the other.                                  *)
LevelsLaid(pos, n, levels, all) ==
  /\ n \in Nat /\ Len(levels) = n /\ pos \in [0..n -> Nat]
  /\ \A i \in 1..n : /\ pos[i] = pos[i - 1] + BytesLen(levels[i])
                     /\ Holds(all, pos[i - 1], LevelBytes(levels[i]))

(* Of the first m bytes the reader reads all the levels, or is an error    *)
(* when the bytes end before the last of them does.                        *)
BUMPLevelsRead(bytes, m, levels, n, pos) ==
  BUMPLevels(bytes, n, pos[0]) =
    IF pos[n] <= m THEN [ok |-> TRUE, off |-> pos[n], levels |-> levels] ELSE Error

(* So it does when they stand in the whole.                                *)
LEMMA BUMPLevelsBack ==
  ASSUME NEW all, NEW bytes, NEW m, CutFrom(bytes, m, all),
         NEW levels \in Seq(LongLevels), NEW n, NEW pos, LevelsLaid(pos, n, levels, all),
         pos[0] <= m
  PROVE  BUMPLevelsRead(bytes, m, levels, n, pos)
<1>cut. /\ all \in Seq(Cells) /\ m \in Nat /\ Sized(bytes, m) /\ Holds(all, 0, bytes)
      /\ n \in Nat /\ Len(levels) = n /\ pos \in [0..n -> Nat]
      /\ \A i \in 1..n : /\ pos[i] = pos[i - 1] + BytesLen(levels[i])
                         /\ Holds(all, pos[i - 1], LevelBytes(levels[i]))
  BY DEF CutFrom, LevelsLaid
<1> USE <1>cut
<1> DEFINE start == [ok |-> TRUE, off |-> pos[0], levels |-> << >>]
           Is(u) == u = [i \in 0..n |-> IF i = 0 THEN start ELSE NextBUMPLevel(bytes, u[i - 1])]
           chosen == (CHOOSE u : Is(u))[n]
           g == [i \in 0..n |->
                   IF pos[i] <= m THEN [ok |-> TRUE, off |-> pos[i], levels |-> Firsts(levels, i)]
                   ELSE Error]
<1>1. ASSUME NEW l \in LongLevels, NEW off \in Nat, Holds(all, off, LevelBytes(l)), NEW read
      PROVE  /\ NextBUMPLevel(bytes, [ok |-> TRUE, off |-> off, levels |-> read]) =
                  IF off + BytesLen(l) <= m
                    THEN [ok |-> TRUE, off |-> off + BytesLen(l), levels |-> Append(read, l)]
                    ELSE Error
             /\ BytesLen(l) \in Nat
  <2>2. BytesLen(l) \in Nat
    BY <1>1, LevelBack
  <2>3. BUMPLevelRead(bytes, m, off, read, l)
    BY <1>1, NextBUMPLevelBack
  <2> QED BY <2>2, <2>3 DEF BUMPLevelRead
<1>3. Firsts(levels, 0) = << >> /\ Firsts(levels, n) = levels
  BY FirstsNext
<1>4. ASSUME NEW i \in 1..n PROVE g[i] = NextBUMPLevel(bytes, g[i - 1])
  <2>1. i \in 0..n /\ i - 1 \in 0..n
    OBVIOUS
  <2>2. PICK l \in LongLevels, off \in Nat : l = levels[i] /\ off = pos[i - 1]
    <3>1. levels[i] \in LongLevels
      OBVIOUS
    <3>2. pos[i - 1] \in Nat
      BY <2>1
    <3> QED BY <3>1, <3>2
  <2>3. pos[i] = off + BytesLen(l) /\ Holds(all, off, LevelBytes(l)) /\ pos[i] \in Nat
    BY <2>1, <2>2
  <2> DEFINE read == Firsts(levels, i - 1)
  <2>4. Append(read, l) = Firsts(levels, i)
    BY <2>2, FirstsNext
  <2> HIDE DEF read
  <2>5. Holds(all, off, LevelBytes(l))
    BY <2>3
  <2>6. /\ NextBUMPLevel(bytes, [ok |-> TRUE, off |-> off, levels |-> read]) =
             IF off + BytesLen(l) <= m
               THEN [ok |-> TRUE, off |-> off + BytesLen(l), levels |-> Append(read, l)]
               ELSE Error
        /\ BytesLen(l) \in Nat
    BY <1>1, <2>5
  <2>7. g[i] = IF pos[i] <= m
                 THEN [ok |-> TRUE, off |-> pos[i], levels |-> Firsts(levels, i)] ELSE Error
    BY <2>1
  <2>8. g[i - 1] = IF off <= m THEN [ok |-> TRUE, off |-> off, levels |-> read] ELSE Error
    BY <2>1, <2>2 DEF read
  <2> HIDE DEF g
  <2>9. CASE off <= m
    BY <2>3, <2>4, <2>6, <2>7, <2>8, <2>9
  <2>10. CASE off > m
    <3>1. g[i - 1] = Error
      BY <2>2, <2>8, <2>10
    <3>2. NextBUMPLevel(bytes, g[i - 1]) = Error
      BY <3>1 DEF NextBUMPLevel, Error
    <3>3. ~(pos[i] <= m)
      BY <2>2, <2>3, <2>6, <2>10
    <3> QED BY <2>7, <3>2, <3>3
  <2> QED BY <2>2, <2>9, <2>10
<1>5. g[0] = start
  <2>1. g[0] = IF pos[0] <= m
                 THEN [ok |-> TRUE, off |-> pos[0], levels |-> Firsts(levels, 0)] ELSE Error
    OBVIOUS
  <2> QED BY <1>3, <2>1
<1>6. g[n] = IF pos[n] <= m THEN [ok |-> TRUE, off |-> pos[n], levels |-> levels] ELSE Error
  <2>1. g[n] = IF pos[n] <= m
                 THEN [ok |-> TRUE, off |-> pos[n], levels |-> Firsts(levels, n)] ELSE Error
    OBVIOUS
  <2> QED BY <1>3, <2>1
<1>10. g = [i \in 0..n |-> g[i]]
  OBVIOUS
<1> HIDE DEF g, start
<1>8. Is(g)
  <2>1. \A i \in 0..n : g[i] = IF i = 0 THEN start ELSE NextBUMPLevel(bytes, g[i - 1])
    BY <1>4, <1>5
  <2> QED BY <1>10, <2>1
<1>9. PICK u : Is(u) /\ chosen = u[n]
  <2> HIDE DEF Is
  <2> QED BY <1>8
<1>2. \A i \in 0..n : u[i] = IF i = 0 THEN start ELSE NextBUMPLevel(bytes, u[i - 1])
  <2>1. Is(u)
    BY <1>9
  <2> QED BY <2>1, Zenon DEF Is
<1>7. u[n] = g[n]
  <2>1. u[0] = g[0]
    <3>1. 0 \in 0..n
      OBVIOUS
    <3> QED BY <1>2, <1>5, <3>1
  <2>2. ASSUME NEW i \in 1..n, u[i - 1] = g[i - 1] PROVE u[i] = g[i]
    <3>1. i \in 0..n /\ i # 0
      OBVIOUS
    <3> QED BY <1>2, <1>4, <2>2, <3>1
  <2> QED BY <2>1, <2>2, Agree
<1>11. chosen = IF pos[n] <= m THEN [ok |-> TRUE, off |-> pos[n], levels |-> levels] ELSE Error
  BY <1>6, <1>7, <1>9
<1>12. BUMPLevels(bytes, n, pos[0]) = chosen
  BY DEF BUMPLevels, start, Is, chosen
<1> HIDE DEF chosen
<1> QED BY <1>11, <1>12 DEF BUMPLevelsRead

-----------------------------------------------------------------------------
(* Where the levels of a BUMP stand.                                       *)
LEMMA BUMPLaid ==
  ASSUME NEW h \in 0..(Power[8] - 1), NEW levels \in Levels
  PROVE  \E n \in Nat, x \in Seq(Cells), k \in Nat :
           /\ n = Len(levels) /\ x = SerializeBUMP(h, levels) /\ k = VarLen(h)
           /\ Holds(x, 0, WriteVarInt(h)) /\ Holds(x, k, <<n>>)
           /\ \E pos \in [0..n -> Nat] :
                /\ pos[0] = k + 1 /\ Sized(x, pos[n])
                /\ \A i \in 1..n : /\ pos[i] = pos[i - 1] + BytesLen(levels[i])
                                   /\ Holds(x, pos[i - 1], LevelBytes(levels[i]))
<1>0. PICK n \in Nat : n = Len(levels)
  BY LevelsTypes
<1> DEFINE F == [i \in 1..n |-> LevelBytes(levels[i])]
           a == WriteVarInt(h)
           b == <<n>>
           s == a \o b
           x == s \o Flatten(F)
           k == VarLen(h)
<1>1. /\ n \in 0..(Base - 1) /\ levels \in Seq(Seq(Nodes))
      /\ \A i \in 1..n : levels[i] \in Seq(Nodes) /\ levels[i] \in LongLevels
  BY <1>0, LevelsTypes DEF LongLevels
<1>2. SerializeBUMP(h, levels) = x
  <2>1. ASSUME NEW i \in DOMAIN levels
        PROVE  Flatten(Map(LAMBDA e : WriteVarInt(e.offset) \o <<Flags(e.txid), e.hash>>, levels[i]))
                 = Flatten([j \in 1..Len(levels[i]) |-> NodeBytes(levels[i][j])])
    <3>1. DOMAIN levels[i] = 1..Len(levels[i])
      BY <1>1, <2>1
    <3> QED BY <3>1 DEF Map, NodeBytes
  <2>2. DOMAIN levels = 1..n
    BY <1>0, <1>1
  <2>3. Map(LAMBDA l : WriteVarInt(Len(l))
                         \o Flatten(Map(LAMBDA e : WriteVarInt(e.offset)
                                                     \o <<Flags(e.txid), e.hash>>, l)),
            levels) = F
    BY <2>1, <2>2 DEF Map, LevelBytes
  <2>4. Byte(Len(levels)) = n
    BY <1>0, <1>1, ByteBack
  <2> QED BY <2>3, <2>4 DEF SerializeBUMP
<1>3. ASSUME NEW i \in 1..n
      PROVE  LevelBytes(levels[i]) \in Seq(Cells) /\ Len(LevelBytes(levels[i])) = BytesLen(levels[i])
  <2>1. levels[i] \in LongLevels
    BY <1>1
  <2>2. LevelBytes(levels[i]) \in Seq(Cells)
    BY <2>1, LevelLaid
  <2> QED BY <2>2 DEF BytesLen
<1>4. F \in Seq(Seq(Cells)) /\ Len(F) = n /\ \A i \in 1..n : F[i] = LevelBytes(levels[i])
  <2>1. F \in [1..n -> Seq(Cells)]
    BY <1>3
  <2> QED BY <2>1
<1>5. k \in Nat /\ Sized(a, k) /\ Sized(b, 1) /\ a \in Seq(Cells) /\ b \in Seq(Cells)
  BY <1>1, VarIntRead, ByteBack DEF Sized
<1> HIDE DEF F, a, b, k
<1>6. Sized(s, k + 1) /\ Holds(s, 0, a) /\ Holds(s, k, b) /\ k + 1 \in Nat
  BY <1>5, Joined
<1> HIDE DEF s
<1>7. Holds(x, 0, s) /\ \E pos \in [0..n -> Nat] : pos[0] = k + 1 /\ Laid(pos, n, F, x)
  <2> DEFINE w == k + 1
  <2>1. w \in Nat /\ Sized(s, w)
    BY <1>6
  <2> HIDE DEF w
  <2>2. Holds(x, 0, s) /\ \E pos \in [0..n -> Nat] : pos[0] = w /\ Laid(pos, n, F, x)
    BY <1>4, <2>1, ListLaid
  <2> QED BY <2>2 DEF w
<1> HIDE DEF x
<1>8. PICK pos \in [0..n -> Nat] : pos[0] = k + 1 /\ Laid(pos, n, F, x)
  BY <1>7
<1>9. Sized(x, pos[n]) /\ x \in Seq(Cells)
  BY <1>8 DEF Laid, Sized
<1>10. Holds(x, 0, a) /\ Holds(x, k, b)
  <2>1. s \in Seq(Cells)
    BY <1>6 DEF Sized
  <2>2. Holds(x, 0 + 0, a) /\ Holds(x, 0 + k, b)
    BY <1>5, <1>6, <1>7, <1>9, <2>1, HoldsTrans
  <2> QED BY <1>5, <2>2
<1>11. ASSUME NEW i \in 1..n
       PROVE  /\ pos[i] = pos[i - 1] + BytesLen(levels[i])
              /\ Holds(x, pos[i - 1], LevelBytes(levels[i]))
  BY <1>3, <1>4, <1>8 DEF Laid
<1>12. k = VarLen(h) /\ a = WriteVarInt(h) /\ b = <<n>>
  BY DEF k, a, b
<1> QED BY <1>0, <1>2, <1>5, <1>8, <1>9, <1>10, <1>11, <1>12

(* A BUMP comes back whole, or is an error.                                *)
LEMMA BUMPBack ==
  ASSUME NEW h \in 0..(Power[8] - 1), NEW levels \in Levels, NEW bytes, NEW m \in Nat,
         Sized(bytes, m), Holds(SerializeBUMP(h, levels), 0, bytes)
  PROVE  \E end \in Nat :
           /\ Sized(SerializeBUMP(h, levels), end)
           /\ ReadBUMP(bytes) =
                IF m = end THEN [ok |-> TRUE, item |-> [height |-> h, levels |-> levels]] ELSE Error
<1>1. PICK n \in Nat, x \in Seq(Cells), k \in Nat :
        /\ n = Len(levels) /\ x = SerializeBUMP(h, levels) /\ k = VarLen(h)
        /\ Holds(x, 0, WriteVarInt(h)) /\ Holds(x, k, <<n>>)
        /\ \E pos \in [0..n -> Nat] :
             /\ pos[0] = k + 1 /\ Sized(x, pos[n])
             /\ \A i \in 1..n : /\ pos[i] = pos[i - 1] + BytesLen(levels[i])
                                /\ Holds(x, pos[i - 1], LevelBytes(levels[i]))
  BY BUMPLaid
<1>2. PICK pos \in [0..n -> Nat] :
        /\ pos[0] = k + 1 /\ Sized(x, pos[n])
        /\ \A i \in 1..n : /\ pos[i] = pos[i - 1] + BytesLen(levels[i])
                           /\ Holds(x, pos[i - 1], LevelBytes(levels[i]))
  BY <1>1
<1>3. /\ n \in 0..(Base - 1) /\ levels \in Seq(LongLevels) /\ Len(levels) = n
      /\ Sized(<<n>>, 1) /\ <<n>>[1] = n
  <2>1. n \in 0..(Base - 1)
    BY <1>1, LevelsTypes
  <2>2. levels \in Seq(Seq(Nodes)) /\ \A i \in 1..Len(levels) : levels[i] \in LongLevels
    BY LevelsTypes DEF LongLevels
  <2>3. levels \in Seq(LongLevels)
    BY <2>2
  <2> QED BY <1>1, <2>1, <2>3, ByteBack
<1>4. pos[n] \in Nat /\ Holds(x, 0, bytes) /\ bytes \in Seq(Cells) /\ Len(bytes) = m
  BY <1>1, <1>2 DEF Sized
<1>5. m <= pos[n] /\ k + 1 <= pos[n]
  <2>1. 0 + m <= pos[n]
    BY <1>2, <1>4, HoldsWithin
  <2>2. k + 1 <= pos[n]
    BY <1>1, <1>2, <1>3, <1>4, HoldsWithin
  <2> QED BY <1>4, <2>1, <2>2
<1> DEFINE height == ReadVarInt(bytes, 0)
<1>6. height = IF k <= m THEN [ok |-> TRUE, off |-> k, value |-> h] ELSE Error
  <2>1. height = IF 0 + VarLen(h) <= m
                   THEN [ok |-> TRUE, off |-> 0 + VarLen(h), value |-> h] ELSE Error
    <3>1. CutFrom(bytes, m, x)
      BY <1>4 DEF CutFrom
    <3> QED BY <1>1, <3>1, VarIntReadBack
  <2>2. 0 + VarLen(h) = k
    BY <1>1
  <2> HIDE DEF height
  <2> QED BY <2>1, <2>2
<1> SUFFICES ReadBUMP(bytes) =
               IF m = pos[n] THEN [ok |-> TRUE, item |-> [height |-> h, levels |-> levels]]
               ELSE Error
  BY <1>1, <1>2, <1>4
<1> HIDE DEF height
<1>7. CASE m < k + 1
  <2>1. ~height.ok \/ (height.ok /\ height.off >= Len(bytes))
    <3>1. CASE k <= m
      <4>1. height.ok /\ height.off = k
        BY <1>6, <3>1
      <4> QED BY <1>4, <1>7, <3>1, <4>1
    <3>2. CASE ~(k <= m)
      BY <1>6, <3>2 DEF Error
    <3> QED BY <3>1, <3>2
  <2>2. ReadBUMP(bytes) = Error
    BY <2>1 DEF ReadBUMP, height
  <2> QED BY <1>4, <1>5, <1>7, <2>2
<1>8. CASE m >= k + 1
  <2>1. height.ok = TRUE /\ height.off = k /\ height.value = h
    BY <1>6, <1>8
  <2>2. bytes[k + 1] = n
    <3> DEFINE b == <<n>>
    <3>1. Sized(b, 1) /\ b[1] = n /\ Holds(x, k, b)
      BY <1>1, <1>3
    <3> HIDE DEF b
    <3>2. Holds(bytes, k, b)
      BY <1>4, <1>8, <3>1, StartHolds
    <3> QED BY <3>1, <3>2 DEF Holds, Sized
  <2> DEFINE start == [ok |-> TRUE, off |-> pos[0], levels |-> << >>]
             Is(u) == u = [i \in 0..n |-> IF i = 0 THEN start ELSE NextBUMPLevel(bytes, u[i - 1])]
             all == BUMPLevels(bytes, n, pos[0])
  <2>3. ReadBUMP(bytes) =
          IF ~all.ok THEN Error
          ELSE [ok |-> TRUE, item |-> [height |-> h, levels |-> all.levels]]
    <3> DEFINE count == bytes[height.off + 1]
               first == [ok |-> TRUE, off |-> height.off + 1, levels |-> << >>]
               got == (CHOOSE u : u = [i \in 0..count |->
                                         IF i = 0 THEN first ELSE NextBUMPLevel(bytes, u[i - 1])])[count]
    <3>1. ~(~height.ok \/ (height.ok /\ height.off >= Len(bytes)))
      BY <1>4, <1>8, <2>1
    <3>2. ReadBUMP(bytes) =
            IF ~got.ok THEN Error
            ELSE [ok |-> TRUE, item |-> [height |-> height.value, levels |-> got.levels]]
      BY <3>1 DEF ReadBUMP, NextBUMPLevel, height
    <3>3. count = n /\ first = start
      BY <1>2, <2>1, <2>2
    <3>4. got = all
      <4>1. all = (CHOOSE u : Is(u))[n]
        BY DEF BUMPLevels
      <4> HIDE DEF count, first, start, all
      <4> QED BY <3>3, <4>1
    <3> HIDE DEF got, all
    <3> QED BY <2>1, <3>2, <3>4
  <2>4. all = IF pos[n] <= m THEN [ok |-> TRUE, off |-> pos[n], levels |-> levels] ELSE Error
    <3>1. pos[0] <= m
      BY <1>2, <1>8
    <3>2. CutFrom(bytes, m, x)
      BY <1>4 DEF CutFrom
    <3>3. LevelsLaid(pos, n, levels, x)
      BY <1>2, <1>3 DEF LevelsLaid
    <3>4. levels \in Seq(LongLevels)
      BY <1>3
    <3>5. BUMPLevelsRead(bytes, m, levels, n, pos)
      BY <3>1, <3>2, <3>3, <3>4, BUMPLevelsBack
    <3> QED BY <3>5 DEF BUMPLevelsRead
  <2> HIDE DEF all
  <2>5. CASE pos[n] <= m
    <3>1. all.ok = TRUE /\ all.levels = levels /\ m = pos[n]
      BY <1>4, <1>5, <2>4, <2>5
    <3> QED BY <2>3, <3>1
  <2>6. CASE ~(pos[n] <= m)
    <3>1. ~all.ok /\ m # pos[n]
      BY <1>4, <2>4, <2>6 DEF Error
    <3> QED BY <2>3, <3>1
  <2> QED BY <2>5, <2>6
<1> QED BY <1>4, <1>7, <1>8

-----------------------------------------------------------------------------
(* Where the entries of a list stand.                                      *)
LEMMA EntriesLaid ==
  ASSUME NEW es \in Seq(StumpEntries), Len(es) < Power[4]
  PROVE  \E n \in Nat, x \in Seq(Cells) :
           /\ n = Len(es) /\ x = MarshalEntries(es) /\ Holds(x, 0, PutUint(n, 4))
           /\ \E pos \in [0..n -> Nat] :
                /\ pos[0] = 4 /\ Sized(x, pos[n])
                /\ \A i \in 1..n : /\ pos[i] = pos[i - 1] + (4 + EntryLen(es[i]))
                                   /\ Holds(x, pos[i - 1], Framed(es[i]))
<1>0. PICK n \in Nat : n = Len(es)
  OBVIOUS
<1> DEFINE F == [i \in 1..n |-> Framed(es[i])]
           s == PutUint(n, 4)
           x == s \o Flatten(F)
<1>1. \A i \in 1..n : es[i] \in StumpEntries
  BY <1>0
<1>2. MarshalEntries(es) = x
  <2>1. DOMAIN es = 1..n
    BY <1>0
  <2>2. MarshalEntries(es) = PutUint(Len(es), 4) \o Flatten([i \in DOMAIN es |-> Framed(es[i])])
    BY DEF MarshalEntries, Framed, Map
  <2> QED BY <1>0, <2>1, <2>2
<1>3. ASSUME NEW i \in 1..n
      PROVE  Framed(es[i]) \in Seq(Cells) /\ Len(Framed(es[i])) = 4 + EntryLen(es[i])
  BY <1>1, EntrySized, FramedParts DEF Sized
<1>4. F \in Seq(Seq(Cells)) /\ Len(F) = n /\ \A i \in 1..n : F[i] = Framed(es[i])
  <2>1. F \in [1..n -> Seq(Cells)]
    BY <1>3
  <2> QED BY <2>1
<1>5. Sized(s, 4)
  BY Uint4
<1> HIDE DEF F, s
<1>6. Holds(x, 0, s) /\ \E pos \in [0..n -> Nat] : pos[0] = 4 /\ Laid(pos, n, F, x)
  BY <1>4, <1>5, ListLaid
<1> HIDE DEF x
<1>7. PICK pos \in [0..n -> Nat] : pos[0] = 4 /\ Laid(pos, n, F, x)
  BY <1>6
<1>8. Sized(x, pos[n]) /\ x \in Seq(Cells)
  BY <1>7 DEF Laid, Sized
<1>9. ASSUME NEW i \in 1..n
      PROVE  /\ pos[i] = pos[i - 1] + (4 + EntryLen(es[i]))
             /\ Holds(x, pos[i - 1], Framed(es[i]))
  BY <1>3, <1>4, <1>7 DEF Laid
<1> QED BY <1>0, <1>2, <1>6, <1>7, <1>8, <1>9 DEF s

(* A list of entries comes back whole, with the indices cut to four bytes, *)
(* or is an error.                                                         *)
LEMMA EntriesBack ==
  ASSUME NEW es \in Seq(StumpEntries), Len(es) < Power[4], NEW bytes, NEW m \in Nat,
         Sized(bytes, m), Holds(MarshalEntries(es), 0, bytes)
  PROVE  \E end \in Nat :
           /\ Sized(MarshalEntries(es), end)
           /\ UnmarshalEntries(bytes) =
                IF m = end THEN [ok |-> TRUE, off |-> end,
                                 item |-> [i \in 1..Len(es) |-> Narrowed(es[i])]]
                ELSE Error
<1>1. PICK n \in Nat, x \in Seq(Cells) :
        /\ n = Len(es) /\ x = MarshalEntries(es) /\ Holds(x, 0, PutUint(n, 4))
        /\ \E pos \in [0..n -> Nat] :
             /\ pos[0] = 4 /\ Sized(x, pos[n])
             /\ \A i \in 1..n : /\ pos[i] = pos[i - 1] + (4 + EntryLen(es[i]))
                                /\ Holds(x, pos[i - 1], Framed(es[i]))
  BY EntriesLaid
<1>2. PICK pos \in [0..n -> Nat] :
        /\ pos[0] = 4 /\ Sized(x, pos[n])
        /\ \A i \in 1..n : /\ pos[i] = pos[i - 1] + (4 + EntryLen(es[i]))
                           /\ Holds(x, pos[i - 1], Framed(es[i]))
  BY <1>1
<1> DEFINE narrow == [i \in 1..n |-> Narrowed(es[i])]
           s == PutUint(n, 4)
<1>3. n \in 0..(Power[4] - 1) /\ n \in Int /\ \A i \in 1..n : es[i] \in StumpEntries
  <2>1. n \in Nat /\ n < Power[4] /\ Power[4] \in Nat
    BY <1>1, PowersUsed
  <2>2. \A i \in 1..n : es[i] \in StumpEntries
    BY <1>1
  <2> QED BY <2>1, <2>2
<1>4. CutFrom(bytes, m, x) /\ Holds(x, 0, bytes) /\ bytes \in Seq(Cells) /\ Len(bytes) = m
  BY <1>1 DEF CutFrom, Sized
<1>5. Sized(s, 4) /\ Holds(x, 0, s) /\ pos[n] \in Nat
  BY <1>1, <1>2, Uint4
<1>6. m <= pos[n] /\ 4 <= pos[n]
  <2>1. 0 + m <= pos[n]
    BY <1>2, <1>4, <1>5, HoldsWithin
  <2>2. 0 + 4 <= pos[n]
    BY <1>2, <1>5, HoldsWithin
  <2> QED BY <2>1, <2>2, <1>5
<1> SUFFICES UnmarshalEntries(bytes) =
               IF m = pos[n] THEN [ok |-> TRUE, off |-> pos[n], item |-> narrow] ELSE Error
  BY <1>1, <1>2, <1>5
<1>7. CASE m < 4
  <2>1. UnmarshalEntries(bytes) = Error
    BY <1>4, <1>7 DEF UnmarshalEntries
  <2> QED BY <1>5, <1>6, <1>7, <2>1
<1>8. CASE m >= 4
  <2>1. GetUint(bytes, 0, 4) = n
    <3>1. 0 + 4 <= m
      BY <1>8
    <3>2. Holds(bytes, 0, s)
      BY <1>4, <1>5, <3>1, StartHolds
    <3> QED BY <1>3, <3>2, Uint4
  <2> DEFINE start == [ok |-> TRUE, off |-> 4, item |-> << >>]
             Is(u) == u = [i \in 0..n |-> IF i = 0 THEN start ELSE NextEntry(bytes, u[i - 1])]
             g == [i \in 0..n |->
                     IF pos[i] <= m THEN [ok |-> TRUE, off |-> pos[i], item |-> Firsts(narrow, i)]
                     ELSE Error]
  <2>2. UnmarshalEntries(bytes) = (CHOOSE u : Is(u))[n]
    <3> DEFINE count == GetUint(bytes, 0, 4)
    <3>1. UnmarshalEntries(bytes) =
            (CHOOSE u : u = [i \in 0..count |->
                               IF i = 0 THEN start ELSE NextEntry(bytes, u[i - 1])])[count]
      BY <1>4, <1>8, SMTT(20) DEF UnmarshalEntries, NextEntry
    <3>2. count = n
      BY <2>1
    <3> HIDE DEF count, start
    <3> QED BY <3>1, <3>2
  <2>3. /\ Firsts(narrow, 0) = << >> /\ Firsts(narrow, n) = narrow
        /\ \A i \in 1..n : Append(Firsts(narrow, i - 1), Narrowed(es[i])) = Firsts(narrow, i)
    <3> DEFINE N == {Narrowed(e) : e \in StumpEntries}
    <3>1. narrow \in [1..n -> N]
      BY <1>3
    <3>2. narrow \in Seq(N) /\ Len(narrow) = n /\ \A i \in 1..n : narrow[i] = Narrowed(es[i])
      BY <1>1, <3>1
    <3> HIDE DEF narrow, N
    <3> QED BY <3>2, FirstsNext
  <2> HIDE DEF narrow
  <2>4. ASSUME NEW i \in 1..n PROVE g[i] = NextEntry(bytes, g[i - 1])
    <3>1. i \in 0..n /\ i - 1 \in 0..n
      BY <1>1
    <3>2. PICK e \in StumpEntries, off \in Nat : e = es[i] /\ off = pos[i - 1]
      <4>1. pos[i - 1] \in Nat
        BY <1>2, <3>1
      <4> QED BY <1>3, <4>1
    <3>3. Holds(x, off, Framed(e))
      BY <1>2, <3>2
    <3>4. EntryLen(e) \in Nat
      BY EntrySized
    <3>5. pos[i] = off + (4 + EntryLen(e))
      BY <1>2, <3>2
    <3> DEFINE read == Firsts(narrow, i - 1)
    <3>6. Append(read, Narrowed(e)) = Firsts(narrow, i)
      BY <2>3, <3>2
    <3> HIDE DEF read
    <3>7. NextEntry(bytes, [ok |-> TRUE, off |-> off, item |-> read]) =
            IF off + (4 + EntryLen(e)) <= m
              THEN [ok |-> TRUE, off |-> off + (4 + EntryLen(e)), item |-> Append(read, Narrowed(e))]
              ELSE Error
      <4>1. EntryRead(bytes, m, off, read, e)
        BY <1>4, <3>3, NextEntryBack
      <4> QED BY <4>1 DEF EntryRead
    <3>8. g[i] = IF pos[i] <= m
                   THEN [ok |-> TRUE, off |-> pos[i], item |-> Firsts(narrow, i)] ELSE Error
      BY <3>1
    <3>9. g[i - 1] = IF off <= m THEN [ok |-> TRUE, off |-> off, item |-> read] ELSE Error
      BY <3>1, <3>2 DEF read
    <3> HIDE DEF g
    <3>10. CASE off <= m
      BY <3>5, <3>6, <3>7, <3>8, <3>9, <3>10
    <3>11. CASE off > m
      <4>1. g[i - 1] = Error
        BY <3>2, <3>9, <3>11
      <4>2. NextEntry(bytes, g[i - 1]) = Error
        BY <4>1 DEF NextEntry, Error
      <4>3. ~(pos[i] <= m)
        BY <3>2, <3>4, <3>5, <3>11
      <4> QED BY <3>8, <4>2, <4>3
    <3> QED BY <3>2, <3>10, <3>11
  <2>5. g[0] = start
    <3>1. 0 \in 0..n
      BY <1>1
    <3>2. g[0] = IF pos[0] <= m
                   THEN [ok |-> TRUE, off |-> pos[0], item |-> Firsts(narrow, 0)] ELSE Error
      BY <3>1
    <3> QED BY <1>2, <1>8, <2>3, <3>2
  <2>6. g[n] = IF m = pos[n] THEN [ok |-> TRUE, off |-> pos[n], item |-> narrow] ELSE Error
    <3>1. g[n] = IF pos[n] <= m
                   THEN [ok |-> TRUE, off |-> pos[n], item |-> Firsts(narrow, n)] ELSE Error
      BY <1>1
    <3> HIDE DEF g
    <3>2. pos[n] <= m <=> m = pos[n]
      BY <1>5, <1>6
    <3> QED BY <2>3, <3>1, <3>2
  <2>7. g = [i \in 0..n |-> g[i]]
    OBVIOUS
  <2> HIDE DEF g, start
  <2>8. Is(g)
    <3>1. \A i \in 0..n : g[i] = IF i = 0 THEN start ELSE NextEntry(bytes, g[i - 1])
      BY <1>1, <2>4, <2>5
    <3> QED BY <2>7, <3>1
  <2> HIDE DEF Is
  <2>9. PICK u : Is(u) /\ UnmarshalEntries(bytes) = u[n]
    BY <2>2, <2>8
  <2>10. \A i \in 0..n : u[i] = IF i = 0 THEN start ELSE NextEntry(bytes, u[i - 1])
    BY <2>9, Zenon DEF Is
  <2>11. u[n] = g[n]
    <3>1. u[0] = g[0]
      BY <1>1, <2>5, <2>10
    <3>2. ASSUME NEW i \in 1..n, u[i - 1] = g[i - 1] PROVE u[i] = g[i]
      <4>1. i \in 0..n /\ i # 0
        BY <1>1
      <4> QED BY <2>4, <2>10, <3>2, <4>1
    <3> QED BY <1>1, <3>1, <3>2, Agree
  <2> QED BY <2>6, <2>9, <2>11
<1> QED BY <1>7, <1>8

-----------------------------------------------------------------------------
(* Where the levels of a fragment stand.                                   *)
LEMMA FragmentLaid ==
  ASSUME NEW levels \in Levels
  PROVE  \E n \in Nat, x \in Seq(Cells) :
           /\ n = Len(levels) /\ x = MarshalFragment(levels) /\ Holds(x, 0, <<n>>)
           /\ \E pos \in [0..n -> Nat] :
                /\ pos[0] = 1 /\ Sized(x, pos[n])
                /\ \A i \in 1..n : /\ pos[i] = pos[i - 1] + LevelLen(levels[i])
                                   /\ Holds(x, pos[i - 1], FragmentLevel(levels[i]))
<1>0. PICK n \in Nat : n = Len(levels)
  BY LevelsTypes
<1> DEFINE F == [i \in 1..n |-> FragmentLevel(levels[i])]
           s == <<n>>
           x == s \o Flatten(F)
<1>1. /\ n \in 0..(Base - 1) /\ levels \in Seq(Seq(Nodes))
      /\ \A i \in 1..n : levels[i] \in Seq(Nodes)
  BY <1>0, LevelsTypes
<1>2. MarshalFragment(levels) = x
  <2>1. ASSUME NEW i \in DOMAIN levels
        PROVE  Flatten(Map(LAMBDA e : PutUint(e.offset, 8) \o <<Flags(e.txid), e.hash>>, levels[i]))
                 = Flatten([j \in 1..Len(levels[i]) |-> FragmentBytes(levels[i][j])])
    <3>1. DOMAIN levels[i] = 1..Len(levels[i])
      BY <1>1, <2>1
    <3> QED BY <3>1 DEF Map, FragmentBytes
  <2>2. DOMAIN levels = 1..n
    BY <1>0, <1>1
  <2>3. Map(LAMBDA l : PutUint(Len(l), 4)
                         \o Flatten(Map(LAMBDA e : PutUint(e.offset, 8) \o <<Flags(e.txid), e.hash>>, l)),
            levels) = F
    BY <2>1, <2>2 DEF Map, FragmentLevel
  <2>4. Byte(Len(levels)) = n
    BY <1>0, <1>1, ByteBack
  <2> QED BY <2>3, <2>4 DEF MarshalFragment
<1>3. ASSUME NEW i \in 1..n
      PROVE  /\ FragmentLevel(levels[i]) \in Seq(Cells)
             /\ Len(FragmentLevel(levels[i])) = LevelLen(levels[i])
  <2>1. PICK l \in Seq(Nodes), k \in Nat : l = levels[i] /\ k = Len(l)
    BY <1>1
  <2>2. Sized(FragmentLevel(l), 4 + k * 10)
    BY <2>1, FragmentLevelParts
  <2> QED BY <2>1, <2>2 DEF Sized, LevelLen
<1>4. F \in Seq(Seq(Cells)) /\ Len(F) = n /\ \A i \in 1..n : F[i] = FragmentLevel(levels[i])
  <2>1. F \in [1..n -> Seq(Cells)]
    BY <1>3
  <2> QED BY <2>1
<1>5. Sized(s, 1)
  BY <1>1, ByteBack
<1> HIDE DEF F, s
<1>6. Holds(x, 0, s) /\ \E pos \in [0..n -> Nat] : pos[0] = 1 /\ Laid(pos, n, F, x)
  BY <1>4, <1>5, ListLaid
<1> HIDE DEF x
<1>7. PICK pos \in [0..n -> Nat] : pos[0] = 1 /\ Laid(pos, n, F, x)
  BY <1>6
<1>8. Sized(x, pos[n]) /\ x \in Seq(Cells)
  BY <1>7 DEF Laid, Sized
<1>9. ASSUME NEW i \in 1..n
      PROVE  /\ pos[i] = pos[i - 1] + LevelLen(levels[i])
             /\ Holds(x, pos[i - 1], FragmentLevel(levels[i]))
  BY <1>3, <1>4, <1>7 DEF Laid
<1> QED BY <1>0, <1>2, <1>6, <1>7, <1>8, <1>9 DEF s

(* A fragment comes back whole, or is an error.                            *)
LEMMA FragmentBack ==
  ASSUME NEW levels \in Levels, NEW bytes, NEW m \in Nat,
         Sized(bytes, m), Holds(MarshalFragment(levels), 0, bytes)
  PROVE  \E end \in Nat :
           /\ Sized(MarshalFragment(levels), end)
           /\ UnmarshalFragment(bytes) =
                IF m = end THEN [ok |-> TRUE, off |-> end, item |-> levels] ELSE Error
<1>1. PICK n \in Nat, x \in Seq(Cells) :
        /\ n = Len(levels) /\ x = MarshalFragment(levels) /\ Holds(x, 0, <<n>>)
        /\ \E pos \in [0..n -> Nat] :
             /\ pos[0] = 1 /\ Sized(x, pos[n])
             /\ \A i \in 1..n : /\ pos[i] = pos[i - 1] + LevelLen(levels[i])
                                /\ Holds(x, pos[i - 1], FragmentLevel(levels[i]))
  BY FragmentLaid
<1>2. PICK pos \in [0..n -> Nat] :
        /\ pos[0] = 1 /\ Sized(x, pos[n])
        /\ \A i \in 1..n : /\ pos[i] = pos[i - 1] + LevelLen(levels[i])
                           /\ Holds(x, pos[i - 1], FragmentLevel(levels[i]))
  BY <1>1
<1> DEFINE s == <<n>>
<1>3. /\ n \in 0..(Base - 1) /\ levels \in Seq(Seq(Nodes)) /\ Len(levels) = n
      /\ \A i \in 1..n : levels[i] \in ShortLevels
  BY <1>1, LevelsTypes DEF ShortLevels
<1>4. CutFrom(bytes, m, x) /\ Holds(x, 0, bytes) /\ bytes \in Seq(Cells) /\ Len(bytes) = m
  BY <1>1 DEF CutFrom, Sized
<1>5. Sized(s, 1) /\ s[1] = n /\ Holds(x, 0, s) /\ pos[n] \in Nat
  BY <1>1, <1>2, <1>3, ByteBack
<1> HIDE DEF s
<1>6. m <= pos[n] /\ 1 <= pos[n]
  <2>1. 0 + m <= pos[n]
    BY <1>2, <1>4, <1>5, HoldsWithin
  <2>2. 0 + 1 <= pos[n]
    BY <1>2, <1>5, HoldsWithin
  <2> QED BY <2>1, <2>2, <1>5
<1> SUFFICES UnmarshalFragment(bytes) =
               IF m = pos[n] THEN [ok |-> TRUE, off |-> pos[n], item |-> levels] ELSE Error
  BY <1>1, <1>2, <1>5
<1>7. CASE m < 1
  <2>1. UnmarshalFragment(bytes) = Error
    BY <1>4, <1>7 DEF UnmarshalFragment
  <2> QED BY <1>5, <1>6, <1>7, <2>1
<1>8. CASE m >= 1
  <2>1. bytes[1] = n
    <3>1. 0 + 1 <= m
      BY <1>8
    <3>2. Holds(bytes, 0, s)
      BY <1>4, <1>5, <3>1, StartHolds
    <3>3. bytes[0 + 1] = s[1]
      BY <1>5, <3>2 DEF Holds, Sized
    <3> QED BY <1>5, <3>3
  <2> DEFINE start == [ok |-> TRUE, off |-> 1, item |-> << >>]
             Is(u) == u = [i \in 0..n |-> IF i = 0 THEN start ELSE NextLevel(bytes, u[i - 1])]
             g == [i \in 0..n |->
                     IF pos[i] <= m THEN [ok |-> TRUE, off |-> pos[i], item |-> Firsts(levels, i)]
                     ELSE Error]
  <2>2. UnmarshalFragment(bytes) = (CHOOSE u : Is(u))[n]
    <3> DEFINE count == bytes[1]
    <3>1. UnmarshalFragment(bytes) =
            (CHOOSE u : u = [i \in 0..count |->
                               IF i = 0 THEN start ELSE NextLevel(bytes, u[i - 1])])[count]
      BY <1>4, <1>8 DEF UnmarshalFragment, NextLevel
    <3>2. count = n
      BY <2>1
    <3> HIDE DEF count, start
    <3> QED BY <3>1, <3>2
  <2>3. /\ Firsts(levels, 0) = << >> /\ Firsts(levels, n) = levels
        /\ \A i \in 1..n : Append(Firsts(levels, i - 1), levels[i]) = Firsts(levels, i)
    BY <1>3, FirstsNext
  <2>4. ASSUME NEW i \in 1..n PROVE g[i] = NextLevel(bytes, g[i - 1])
    <3>1. i \in 0..n /\ i - 1 \in 0..n
      BY <1>1
    <3>2. PICK l \in ShortLevels, off \in Nat : l = levels[i] /\ off = pos[i - 1]
      <4>1. pos[i - 1] \in Nat
        BY <1>2, <3>1
      <4> QED BY <1>3, <4>1
    <3>3. Holds(x, off, FragmentLevel(l))
      BY <1>2, <3>2
    <3>4. LevelLen(l) \in Nat
      BY PowerType DEF ShortLevels, LevelLen
    <3>5. pos[i] = off + LevelLen(l)
      BY <1>2, <3>2
    <3> DEFINE read == Firsts(levels, i - 1)
    <3>6. Append(read, l) = Firsts(levels, i)
      BY <2>3, <3>2
    <3> HIDE DEF read
    <3>7. NextLevel(bytes, [ok |-> TRUE, off |-> off, item |-> read]) =
            IF off + LevelLen(l) <= m
              THEN [ok |-> TRUE, off |-> off + LevelLen(l), item |-> Append(read, l)]
              ELSE Error
      <4>1. LevelRead(bytes, m, off, read, l)
        BY <1>4, <3>3, NextLevelBack
      <4> QED BY <4>1 DEF LevelRead
    <3>8. g[i] = IF pos[i] <= m
                   THEN [ok |-> TRUE, off |-> pos[i], item |-> Firsts(levels, i)] ELSE Error
      BY <3>1
    <3>9. g[i - 1] = IF off <= m THEN [ok |-> TRUE, off |-> off, item |-> read] ELSE Error
      BY <3>1, <3>2 DEF read
    <3> HIDE DEF g
    <3>10. CASE off <= m
      BY <3>5, <3>6, <3>7, <3>8, <3>9, <3>10
    <3>11. CASE off > m
      <4>1. g[i - 1] = Error
        BY <3>2, <3>9, <3>11
      <4>2. NextLevel(bytes, g[i - 1]) = Error
        BY <4>1 DEF NextLevel, Error
      <4>3. ~(pos[i] <= m)
        BY <3>2, <3>4, <3>5, <3>11
      <4> QED BY <3>8, <4>2, <4>3
    <3> QED BY <3>2, <3>10, <3>11
  <2>5. g[0] = start
    <3>1. 0 \in 0..n
      BY <1>1
    <3>2. g[0] = IF pos[0] <= m
                   THEN [ok |-> TRUE, off |-> pos[0], item |-> Firsts(levels, 0)] ELSE Error
      BY <3>1
    <3> QED BY <1>2, <1>8, <2>3, <3>2
  <2>6. g[n] = IF m = pos[n] THEN [ok |-> TRUE, off |-> pos[n], item |-> levels] ELSE Error
    <3>1. g[n] = IF pos[n] <= m
                   THEN [ok |-> TRUE, off |-> pos[n], item |-> Firsts(levels, n)] ELSE Error
      BY <1>1
    <3> HIDE DEF g
    <3>2. pos[n] <= m <=> m = pos[n]
      BY <1>5, <1>6
    <3> QED BY <2>3, <3>1, <3>2
  <2>7. g = [i \in 0..n |-> g[i]]
    OBVIOUS
  <2> HIDE DEF g, start
  <2>8. Is(g)
    <3>1. \A i \in 0..n : g[i] = IF i = 0 THEN start ELSE NextLevel(bytes, g[i - 1])
      BY <1>1, <2>4, <2>5
    <3> QED BY <2>7, <3>1
  <2> HIDE DEF Is
  <2>9. PICK u : Is(u) /\ UnmarshalFragment(bytes) = u[n]
    BY <2>2, <2>8
  <2>10. \A i \in 0..n : u[i] = IF i = 0 THEN start ELSE NextLevel(bytes, u[i - 1])
    BY <2>9, Zenon DEF Is
  <2>11. u[n] = g[n]
    <3>1. u[0] = g[0]
      BY <1>1, <2>5, <2>10
    <3>2. ASSUME NEW i \in 1..n, u[i - 1] = g[i - 1] PROVE u[i] = g[i]
      <4>1. i \in 0..n /\ i # 0
        BY <1>1
      <4> QED BY <2>4, <2>10, <3>2, <4>1
    <3> QED BY <1>1, <3>1, <3>2, Agree
  <2> QED BY <2>6, <2>9, <2>11
<1> QED BY <1>7, <1>8

-----------------------------------------------------------------------------
(* Whatever is encoded becomes bytes.                                      *)
LEMMA EncodeCells == \A it \in Items : Encode(it) \in Seq(Cells)
<1> SUFFICES ASSUME NEW it \in Items PROVE Encode(it) \in Seq(Cells)
  OBVIOUS
<1>1. CASE it.format = "fragment" /\ it.value \in Levels
  <2>1. Encode(it) = MarshalFragment(it.value)
    BY <1>1 DEF Encode
  <2> QED BY <1>1, <2>1, FragmentLaid
<1>2. CASE it.format = "bump" /\ it.value \in [height : 0..(Power[8] - 1), levels : Levels]
  <2>1. Encode(it) = SerializeBUMP(it.value.height, it.value.levels)
    BY <1>2 DEF Encode
  <2>2. PICK h \in 0..(Power[8] - 1), levels \in Levels : h = it.value.height /\ levels = it.value.levels
    BY <1>2
  <2>3. SerializeBUMP(h, levels) \in Seq(Cells)
    BY BUMPLaid
  <2> QED BY <2>1, <2>2, <2>3
<1>3. CASE it.format = "entry" /\ it.value \in StumpEntries
  <2>1. Encode(it) = MarshalEntry(it.value)
    BY <1>3 DEF Encode
  <2> QED BY <1>3, <2>1, EntrySized DEF Sized
<1>4. CASE it.format = "entries" /\ it.value \in Seq(StumpEntries) /\ Len(it.value) < Power[4]
  <2>1. Encode(it) = MarshalEntries(it.value)
    BY <1>4 DEF Encode
  <2> QED BY <1>4, <2>1, EntriesLaid
<1>5. CASE it.format = "hashes" /\ it.value \in Seq(Hashes) /\ Len(it.value) < Power[4]
  <2>1. Encode(it) = PutUint(Len(it.value), 4) \o it.value
    BY <1>5 DEF Encode, MarshalHashes
  <2> DEFINE hs == it.value
             s == PutUint(Len(hs), 4)
  <2>2. s \in Seq(Cells)
    BY <1>5, Uint4 DEF Sized
  <2>3. hs \in Seq(Hashes)
    BY <1>5
  <2>4. Encode(it) = s \o hs
    BY <2>1
  <2> HIDE DEF hs, s
  <2>5. hs \in Seq(Cells)
    BY <2>3 DEF Cells
  <2> QED BY <2>2, <2>4, <2>5
<1> QED BY <1>1, <1>2, <1>3, <1>4, <1>5, ItemsAssumption

(* What comes back of an item.                                             *)
Returned(it) ==
  IF it.format = "entry" THEN Narrowed(it.value)
  ELSE IF it.format = "entries" THEN [i \in 1..Len(it.value) |-> Narrowed(it.value[i])]
  ELSE it.value

(* Of the bytes of an item, all of them give it back, and fewer an error.  *)
LEMMA DecodeBack ==
  ASSUME NEW it \in Items, NEW bytes, NEW m \in Nat, Sized(bytes, m), Holds(Encode(it), 0, bytes)
  PROVE  /\ m = Len(Encode(it)) => /\ Decode(it.format, bytes).ok
                                   /\ Decode(it.format, bytes).item = Returned(it)
         /\ m # Len(Encode(it)) => ~Decode(it.format, bytes).ok
<1> DEFINE f == it.format
           v == it.value
           all == Encode(it)
           got == Decode(f, bytes)
           Goal == /\ m = Len(all) => got.ok /\ got.item = Returned(it)
                   /\ m # Len(all) => ~got.ok
<1> SUFFICES Goal
  OBVIOUS
<1>1. CASE f = "fragment" /\ v \in Levels
  <2>1. all = MarshalFragment(v) /\ got = UnmarshalFragment(bytes) /\ Returned(it) = v
    BY <1>1 DEF Encode, Decode, Returned
  <2>2. v \in Levels /\ Holds(MarshalFragment(v), 0, bytes)
    BY <1>1, <2>1
  <2> HIDE DEF all, got, v
  <2>3. PICK end \in Nat :
          /\ Sized(all, end)
          /\ got = IF m = end THEN [ok |-> TRUE, off |-> end, item |-> v] ELSE Error
    BY <2>1, <2>2, FragmentBack
  <2>4. Len(all) = end
    BY <2>3 DEF Sized
  <2>5. CASE m = end
    <3>1. got.ok = TRUE /\ got.item = v
      BY <2>3, <2>5
    <3> QED BY <2>1, <2>4, <2>5, <3>1
  <2>6. CASE m # end
    <3>1. got.ok = FALSE
      BY <2>3, <2>6 DEF Error
    <3> QED BY <2>4, <2>6, <3>1
  <2> QED BY <2>5, <2>6
<1>2. CASE f = "bump" /\ v \in [height : 0..(Power[8] - 1), levels : Levels]
  <2>1. /\ all = SerializeBUMP(v.height, v.levels) /\ got = ReadBUMP(bytes) /\ Returned(it) = v
        /\ v.height \in 0..(Power[8] - 1) /\ v.levels \in Levels
        /\ v = [height |-> v.height, levels |-> v.levels]
    BY <1>2 DEF Encode, Decode, Returned
  <2>2. PICK h \in 0..(Power[8] - 1), levels \in Levels :
          v = [height |-> h, levels |-> levels] /\ h = v.height /\ levels = v.levels
    BY <2>1
  <2>8. all = SerializeBUMP(h, levels) /\ Holds(all, 0, bytes)
    BY <2>1, <2>2
  <2> HIDE DEF all, got, v
  <2>3. PICK end \in Nat :
          /\ Sized(all, end)
          /\ got = IF m = end THEN [ok |-> TRUE, item |-> [height |-> h, levels |-> levels]]
                   ELSE Error
    BY <2>1, <2>8, BUMPBack
  <2>4. Len(all) = end
    BY <2>3 DEF Sized
  <2>5. CASE m = end
    <3>1. got.ok = TRUE /\ got.item = v
      BY <2>2, <2>3, <2>5
    <3> QED BY <2>1, <2>4, <2>5, <3>1
  <2>6. CASE m # end
    <3>1. got.ok = FALSE
      BY <2>3, <2>6 DEF Error
    <3> QED BY <2>4, <2>6, <3>1
  <2> QED BY <2>5, <2>6
<1>3. CASE f = "entry" /\ v \in StumpEntries
  <2>1. all = MarshalEntry(v) /\ got = UnmarshalEntry(bytes) /\ Returned(it) = Narrowed(v)
    BY <1>3 DEF Encode, Decode, Returned
  <2>2. v \in StumpEntries /\ Holds(MarshalEntry(v), 0, bytes)
    BY <1>3, <2>1
  <2> HIDE DEF all, got, v
  <2>3. got = IF m = EntryLen(v) THEN [ok |-> TRUE, item |-> Narrowed(v)] ELSE Error
    BY <2>1, <2>2, EntryReadBack
  <2>4. Len(all) = EntryLen(v)
    BY <2>1, <2>2, EntrySized DEF Sized
  <2>5. CASE m = EntryLen(v)
    <3>1. got.ok = TRUE /\ got.item = Narrowed(v)
      BY <2>3, <2>5
    <3> QED BY <2>1, <2>4, <2>5, <3>1
  <2>6. CASE m # EntryLen(v)
    <3>1. got.ok = FALSE
      BY <2>3, <2>6 DEF Error
    <3> QED BY <2>4, <2>6, <3>1
  <2> QED BY <2>5, <2>6
<1>4. CASE f = "entries" /\ v \in Seq(StumpEntries) /\ Len(v) < Power[4]
  <2> DEFINE narrow == [i \in 1..Len(v) |-> Narrowed(v[i])]
  <2>1. all = MarshalEntries(v) /\ got = UnmarshalEntries(bytes) /\ Returned(it) = narrow
    BY <1>4 DEF Encode, Decode, Returned
  <2>2. v \in Seq(StumpEntries) /\ Len(v) < Power[4] /\ Holds(MarshalEntries(v), 0, bytes)
    BY <1>4, <2>1
  <2> HIDE DEF all, got, v
  <2>3. PICK end \in Nat :
          /\ Sized(all, end)
          /\ got = IF m = end THEN [ok |-> TRUE, off |-> end, item |-> narrow] ELSE Error
    BY <2>1, <2>2, EntriesBack
  <2> HIDE DEF narrow
  <2>4. Len(all) = end
    BY <2>3 DEF Sized
  <2>5. CASE m = end
    <3>1. got.ok = TRUE /\ got.item = narrow
      BY <2>3, <2>5
    <3> QED BY <2>1, <2>4, <2>5, <3>1
  <2>6. CASE m # end
    <3>1. got.ok = FALSE
      BY <2>3, <2>6 DEF Error
    <3> QED BY <2>4, <2>6, <3>1
  <2> QED BY <2>5, <2>6
<1>5. CASE f = "hashes" /\ v \in Seq(Hashes) /\ Len(v) < Power[4]
  <2>1. all = MarshalHashes(v) /\ got = UnmarshalHashes(bytes) /\ Returned(it) = v
    BY <1>5 DEF Encode, Decode, Returned
  <2>2. v \in Seq(Hashes) /\ Len(v) < Power[4] /\ Holds(MarshalHashes(v), 0, bytes)
    BY <1>5, <2>1
  <2> HIDE DEF all, got, v
  <2> DEFINE end == 4 + Len(v)
  <2>3. Sized(all, end) /\ got = IF m = end THEN [ok |-> TRUE, item |-> v] ELSE Error
    BY <2>1, <2>2, HashesBack
  <2> HIDE DEF end
  <2>4. Len(all) = end
    BY <2>3 DEF Sized
  <2>5. CASE m = end
    <3>1. got.ok = TRUE /\ got.item = v
      BY <2>3, <2>5
    <3> QED BY <2>1, <2>4, <2>5, <3>1
  <2>6. CASE m # end
    <3>1. got.ok = FALSE
      BY <2>3, <2>6 DEF Error
    <3> QED BY <2>4, <2>6, <3>1
  <2> QED BY <2>5, <2>6
<1> QED BY <1>1, <1>2, <1>3, <1>4, <1>5, ItemsAssumption

(* Which is the item exactly when its indices have room.                   *)
LEMMA NarrowedFits ==
  ASSUME NEW e \in StumpEntries
  PROVE  Narrowed(e) = e <=> IndicesFit(e)
<1>1. /\ e.subtreeIdx \in Int /\ e.localIdx \in Int /\ e.globalIdx \in Int
      /\ e = [txid |-> e.txid, subtreeIdx |-> e.subtreeIdx, localIdx |-> e.localIdx,
              globalIdx |-> e.globalIdx, siblings |-> e.siblings]
  BY DEF StumpEntries
<1> DEFINE p == Power[4]
<1>2. p \in Nat \ {0}
  BY PowerType
<1>3. IndicesFit(e) <=> /\ e.subtreeIdx \in 0..(p - 1) /\ e.localIdx \in 0..(p - 1)
                        /\ e.globalIdx \in 0..(p - 1)
  BY DEF IndicesFit
<1>4. Narrowed(e) = e <=> /\ e.subtreeIdx % p = e.subtreeIdx /\ e.localIdx % p = e.localIdx
                          /\ e.globalIdx % p = e.globalIdx
  BY <1>1 DEF Narrowed
<1> HIDE DEF p
<1>5. ASSUME NEW a \in Int PROVE a % p = a <=> a \in 0..(p - 1)
  BY <1>2
<1> QED BY <1>1, <1>3, <1>4, <1>5

(* What comes back is the item exactly when the item fits.                 *)
LEMMA ReturnedFits == \A it \in Items : Returned(it) = it.value <=> Fits(it)
<1> SUFFICES ASSUME NEW it \in Items PROVE Returned(it) = it.value <=> Fits(it)
  OBVIOUS
<1> DEFINE v == it.value
<1>1. CASE it.format = "entry"
  <2>1. v \in StumpEntries
    BY <1>1, ItemsAssumption
  <2>2. Returned(it) = Narrowed(v) /\ (Fits(it) <=> IndicesFit(v))
    BY <1>1 DEF Returned, Fits
  <2> QED BY <2>1, <2>2, NarrowedFits
<1>2. CASE it.format = "entries"
  <2>1. v \in Seq(StumpEntries)
    BY <1>2, ItemsAssumption
  <2>2. /\ Returned(it) = [i \in 1..Len(v) |-> Narrowed(v[i])]
        /\ Fits(it) <=> \A i \in DOMAIN v : IndicesFit(v[i])
    BY <1>2 DEF Returned, Fits
  <2> HIDE DEF v
  <2>3. DOMAIN v = 1..Len(v) /\ v = [i \in 1..Len(v) |-> v[i]] /\ \A i \in 1..Len(v) : v[i] \in StumpEntries
    BY <2>1
  <2> DEFINE n == Len(v)
             narrow == [i \in 1..n |-> Narrowed(v[i])]
  <2>4. narrow = v <=> \A i \in 1..n : Narrowed(v[i]) = v[i]
    BY <2>3
  <2>5. \A i \in 1..n : Narrowed(v[i]) = v[i] <=> IndicesFit(v[i])
    BY <2>3, NarrowedFits
  <2> HIDE DEF narrow
  <2>6. narrow = v <=> Fits(it)
    BY <2>2, <2>3, <2>4, <2>5
  <2> QED BY <2>2, <2>6 DEF narrow, v
<1>3. CASE it.format # "entry" /\ it.format # "entries"
  BY <1>3 DEF Returned, Fits
<1> QED BY <1>1, <1>2, <1>3

-----------------------------------------------------------------------------
(* What was decoded, of all the bytes or of fewer.                         *)
Read(n) == Decode(item.format, SubSeq(Encode(item), 1, n))

(* The stages an item goes through.  Whatever is decoded is the first n    *)
(* bytes of its encoding, all of them if they were not cut.                *)
CodecInv ==
  /\ item \in Items
  /\ stage = "encoded" => whole = TRUE /\ data = Encode(item)
  /\ stage = "cut" => whole = FALSE /\ \E n \in 0..(Len(Encode(item)) - 1) :
                                         data = SubSeq(Encode(item), 1, n)
  /\ stage = "new" => whole = TRUE
  /\ stage = "decoded" /\ whole = TRUE => result = Decode(item.format, Encode(item))
  /\ stage = "decoded" /\ whole = FALSE => \E n \in 0..(Len(Encode(item)) - 1) : result = Read(n)
  /\ stage \in {"new", "encoded", "cut", "decoded"} /\ whole \in BOOLEAN

(* It is kept by every step of the codec.                                  *)
LEMMA CodecInvHolds == CodecSpec => []CodecInv
<1>1. CodecInit => CodecInv
  BY DEF CodecInit, CodecInv
<1>2. CodecInv /\ [CodecNext]_codecVars => CodecInv'
  <2> SUFFICES ASSUME CodecInv, [CodecNext]_codecVars PROVE CodecInv'
    OBVIOUS
  <2>1. CASE Marshal
    BY <2>1 DEF CodecInv, Marshal
  <2>2. CASE Cut
    BY <2>2 DEF CodecInv, Cut
  <2>3. CASE Unmarshal
    <3>1. CASE stage = "encoded"
      BY <2>3, <3>1 DEF CodecInv, Unmarshal
    <3>2. CASE stage = "cut"
      BY <2>3, <3>2 DEF CodecInv, Unmarshal, Read
    <3> QED BY <2>3, <3>1, <3>2 DEF Unmarshal
  <2>4. CASE UNCHANGED codecVars
    BY <2>4 DEF CodecInv, codecVars, Read
  <2> QED BY <2>1, <2>2, <2>3, <2>4 DEF CodecNext
<1> QED BY <1>1, <1>2, PTL DEF CodecSpec

(* All the bytes of an item give it back as Returned says, and fewer an    *)
(* error.                                                                  *)
LEMMA DecodeWhole ==
  ASSUME NEW it \in Items
  PROVE  /\ Decode(it.format, Encode(it)).ok /\ Decode(it.format, Encode(it)).item = Returned(it)
         /\ \A n \in 0..(Len(Encode(it)) - 1) : ~Decode(it.format, SubSeq(Encode(it), 1, n)).ok
<1> DEFINE all == Encode(it)
<1>1. all \in Seq(Cells)
  BY EncodeCells
<1> HIDE DEF all
<1> DEFINE len == Len(all)
<1>2. len \in Nat /\ Sized(all, len) /\ Holds(all, 0, all)
  BY <1>1 DEF Sized, Holds
<1>3. Decode(it.format, all).ok /\ Decode(it.format, all).item = Returned(it)
  BY <1>2, DecodeBack DEF all
<1>4. ASSUME NEW n \in 0..(len - 1) PROVE ~Decode(it.format, SubSeq(all, 1, n)).ok
  <2> DEFINE bytes == SubSeq(all, 1, n)
  <2>1. n \in Nat /\ n <= len /\ n # len
    BY <1>2
  <2>2. bytes \in Seq(Cells) /\ Len(bytes) = n /\ \A i \in 1..n : bytes[i] = all[i]
    BY <1>1, <2>1
  <2> HIDE DEF bytes
  <2>3. Sized(bytes, n) /\ Holds(all, 0, bytes)
    BY <1>2, <2>1, <2>2 DEF Sized, Holds
  <2>4. ~Decode(it.format, bytes).ok
    BY <2>1, <2>3, DecodeBack DEF all
  <2> QED BY <2>4 DEF bytes
<1> QED BY <1>3, <1>4 DEF all

(* Whatever the Base and the items: an item that was encoded and not cut   *)
(* is decoded to itself exactly when its indices have room in four bytes   *)
(* (MarshalFragment, serializeBUMP, diskstore/encoding.go).                *)
THEOREM RoundTripExactlyHolds == CodecSpec => []RoundTripExactly
<1>1. CodecInv => RoundTripExactly
  <2> SUFFICES ASSUME CodecInv, stage = "decoded", whole
               PROVE  result.ok /\ result.item = item.value <=> Fits(item)
    BY DEF RoundTripExactly
  <2>1. item \in Items /\ result = Decode(item.format, Encode(item))
    BY DEF CodecInv
  <2>2. result.ok /\ result.item = Returned(item)
    BY <2>1, DecodeWhole
  <2>3. Returned(item) = item.value <=> Fits(item)
    BY <2>1, ReturnedFits
  <2> QED BY <2>2, <2>3
<1> QED BY <1>1, CodecInvHolds, PTL

(* And of bytes that were cut anywhere, whatever was encoded, the decoder  *)
(* makes an error and never a shorter item.                                *)
THEOREM TornIsErrorHolds == CodecSpec => []TornIsError
<1>1. CodecInv => TornIsError
  <2> SUFFICES ASSUME CodecInv, stage = "decoded", ~whole PROVE ~result.ok
    BY DEF TornIsError
  <2>1. item \in Items /\ \E n \in 0..(Len(Encode(item)) - 1) : result = Read(n)
    BY DEF CodecInv
  <2> QED BY <2>1, DecodeWhole DEF Read
<1> QED BY <1>1, CodecInvHolds, PTL
=============================================================================
