-------------------------------- MODULE Bump --------------------------------
(***************************************************************************)
(* The BUMP of one token, as internal/merkleservice/bump.go computes it:   *)
(* per subtree the STUMP fragment (extractSubtreeFragment), and from the   *)
(* fragments, or from the full subtrees, the compound BUMP of the block    *)
(* (assembleTokenBUMPFromFragments, assembleTokenBUMPFast and the legacy   *)
(* assembleTokenBUMP and buildCompoundBUMP).                               *)
(*                                                                         *)
(* A level is the SET of its entries.  The code keeps it as a slice sorted *)
(* by offset; sort.Slice leaves the order of equal offsets open, and the   *)
(* set leaves it open too.  Two entries of one offset are two elements, as *)
(* they are two in the slice.                                              *)
(***************************************************************************)
EXTENDS MerkleTree, BlockShape

SubtreeHeight == Log2Ceil(HashesPerSubtree)
TopTreeHeight == Log2Ceil(NumSubtrees)
TotalHeight   == SubtreeHeight + TopTreeHeight

Leafs == 0..(NumSubtrees * HashesPerSubtree - 1)

GlobalIdx(si, li) == si * HashesPerSubtree + li
SubtreeOf(g)      == g \div HashesPerSubtree
LocalOf(g)        == g % HashesPerSubtree

Entry(offset, hash, txid) == [offset |-> offset, hash |-> hash, txid |-> txid]

Offsets(level) == {e.offset : e \in level}

(* bitsetCheck over sorted indices keeps, of the indices with one key, the *)
(* least.                                                                  *)
FirstOf(idxs, key) == {i \in idxs : \A j \in idxs : key[j] = key[i] => i <= j}

(* Store position read at level k >= 1 for the leaf at local index li.     *)
SibPos(pad, li, k) ==
  LET pos == Sibling(Shift(li, k))
  IN  IF pos >= LevelSize(pad, k) THEN LevelSize(pad, k) - 1 ELSE pos

-----------------------------------------------------------------------------
(* extractSubtreeFragment with the slip that offsets are taken inside the  *)
(* subtree from level 1 on, not in the block.                              *)
ExtractSubtreeFragment_LocalOffsets(leaves, store, idxs, si) ==
  LET nLeaves == Len0(leaves)
      pad     == NextPowerOfTwo(nLeaves)
      level(k) ==
        IF k = 0
        THEN {Entry(GlobalIdx(si, li), leaves[li], TRUE) : li \in idxs}
             \cup
             {Entry(Sibling(GlobalIdx(si, li)), leaves[Sibling(li)], FALSE) : li \in idxs}
        ELSE {Entry(Sibling(Shift(li, k)), store[LevelOffset(pad, k) + SibPos(pad, li, k)], FALSE)
                : li \in idxs}
  IN [k \in 0..(SubtreeHeight - 1) |-> level(k)]

(* extractSubtreeFragment with the slip that a sibling is emitted once per *)
(* pair of the PARENT level.                                               *)
ExtractSubtreeFragment_WidePair(leaves, store, idxs, si) ==
  LET nLeaves == Len0(leaves)
      pad     == NextPowerOfTwo(nLeaves)
      pair    == [li \in idxs |-> Shift(li, 2)]
      level(k) ==
        IF k = 0
        THEN {Entry(GlobalIdx(si, li), leaves[li], TRUE) : li \in idxs}
             \cup
             {Entry(Sibling(GlobalIdx(si, li)), leaves[Sibling(li)], FALSE)
                : li \in FirstOf(idxs, pair)}
        ELSE LET pos == [li \in idxs |-> SibPos(pad, li, k)]
             IN {Entry(Sibling(Shift(GlobalIdx(si, li), k)),
                       store[LevelOffset(pad, k) + pos[li]], FALSE) : li \in FirstOf(idxs, pos)}
  IN [k \in 0..(SubtreeHeight - 1) |-> level(k)]

(* extractSubtreeFragment with the slip that the txid flag of level 0 is   *)
(* also set on the siblings.                                               *)
ExtractSubtreeFragment_FlagAll(leaves, store, idxs, si) ==
  LET nLeaves == Len0(leaves)
      pad     == NextPowerOfTwo(nLeaves)
      level(k) ==
        IF k = 0
        THEN {Entry(GlobalIdx(si, li), leaves[li], TRUE) : li \in idxs \cup {Sibling(j) : j \in idxs}}
        ELSE LET pos == [li \in idxs |-> SibPos(pad, li, k)]
             IN {Entry(Sibling(Shift(GlobalIdx(si, li), k)),
                       store[LevelOffset(pad, k) + pos[li]], FALSE) : li \in FirstOf(idxs, pos)}
  IN [k \in 0..(SubtreeHeight - 1) |-> level(k)]

(* Level 0 has an entry for every txid and one sibling entry per pair;     *)
(* level k the sibling of the node above each txid, once per position.     *)
(* The loops of assembleTokenBUMPFast over one subtree are the same code.  *)
ExtractSubtreeFragment(leaves, store, idxs, si) ==
  LET nLeaves == Len0(leaves)
      pad     == NextPowerOfTwo(nLeaves)
      pair    == [li \in idxs |-> Shift(li, 1)]
      sibLeaf(li) == IF Sibling(li) >= nLeaves THEN li ELSE Sibling(li)
      level(k) ==
        IF k = 0
        THEN {Entry(GlobalIdx(si, li), leaves[li], TRUE) : li \in idxs}
             \cup
             {Entry(Sibling(GlobalIdx(si, li)), leaves[sibLeaf(li)], FALSE)
                : li \in FirstOf(idxs, pair)}
        ELSE LET pos == [li \in idxs |-> SibPos(pad, li, k)]
             IN {Entry(Sibling(Shift(GlobalIdx(si, li), k)),
                       store[LevelOffset(pad, k) + pos[li]], FALSE) : li \in FirstOf(idxs, pos)}
  IN [k \in 0..(SubtreeHeight - 1) |-> level(k)]

(* The top-tree levels.  rank orders the txids as the code meets them: the *)
(* first one under a node supplies its sibling's hash.                     *)
TopLevel(k, globals, rank, topProofs) ==
  LET blockLevel == SubtreeHeight + k
      sibOff == [g \in globals |-> Sibling(Shift(g, blockLevel))]
  IN {Entry(sibOff[g], topProofs[SubtreeOf(g)][k], FALSE) :
        g \in {h \in globals : \A o \in globals : sibOff[o] = sibOff[h] => rank[h] <= rank[o]}}

(* An entry whose two children are entries of the level below is dropped.  *)
(* Levels are visited from the top, so the children looked up are those    *)
(* before pruning.                                                         *)
Prune(levels) ==
  [h \in DOMAIN levels |->
     IF h = 0 THEN levels[h]
     ELSE {e \in levels[h] :
             ~({2 * e.offset, 2 * e.offset + 1} \subseteq Offsets(levels[h - 1]))}]

(* assembleTokenBUMPFromFragments: frags maps the subtrees spanned to their *)
(* fragments, position[si] is where si comes in fragmentData.  The txids   *)
(* are found again as the flagged entries of level 0.                      *)
AssembleTokenBUMPFromFragments(frags, position, topProofs) ==
  LET low     == [k \in 0..(SubtreeHeight - 1) |-> UNION {frags[si][k] : si \in DOMAIN frags}]
      globals == {e.offset : e \in {x \in low[0] : x.txid}}
      rank    == [g \in globals |-> position[SubtreeOf(g)] * NumSubtrees * HashesPerSubtree + g]
      levels  == [h \in 0..(TotalHeight - 1) |->
                    IF h < SubtreeHeight THEN low[h]
                    ELSE TopLevel(h - SubtreeHeight, globals, rank, topProofs)]
  IN Prune(levels)

(* assembleTokenBUMPFast: subtrees maps the subtrees loaded to leaves and  *)
(* store; positions is the set of global indices of the token's txids.     *)
(* A subtree missing from the map contributes no entry below the top tree. *)
AssembleTokenBUMPFast(positions, subtrees, topProofs) ==
  LET local(si) == {LocalOf(g) : g \in {p \in positions : SubtreeOf(p) = si}}
      part == [si \in DOMAIN subtrees |->
                 ExtractSubtreeFragment(subtrees[si].leaves, subtrees[si].store, local(si), si)]
      levels == [h \in 0..(TotalHeight - 1) |->
                   IF h < SubtreeHeight
                   THEN UNION {part[si][h] : si \in DOMAIN part}
                   ELSE TopLevel(h - SubtreeHeight, positions, [g \in positions |-> g], topProofs)]
  IN Prune(levels)

-----------------------------------------------------------------------------
(* The legacy assembleTokenBUMP keeps, above level 0, one map per level    *)
(* from offset to entry; the first position to reach an offset fills it.   *)
(* Siblings are deduplicated by pair of GLOBAL indices.                    *)
AssembleTokenBUMP_LastTop(positions, subtrees, topProofs) ==
  LET levels == [h \in 0..(TotalHeight - 1) |->
        IF h = 0
        THEN {Entry(g, subtrees[SubtreeOf(g)].leaves[LocalOf(g)], TRUE) : g \in positions}
        ELSE {Entry(Sibling(Shift(g, h)), topProofs[SubtreeOf(g)][0], FALSE) : g \in positions}]
  IN Prune(levels)

AssembleTokenBUMP(positions, subtrees, topProofs) ==
  LET leaves(g) == subtrees[SubtreeOf(g)].leaves
      hashAt(g, h) ==
        LET nLeaves == Len0(leaves(g))
            pad     == NextPowerOfTwo(nLeaves)
            li      == LocalOf(g)
        IN IF h = 0 THEN leaves(g)[IF Sibling(li) >= nLeaves THEN li ELSE Sibling(li)]
           ELSE IF h < SubtreeHeight
           THEN subtrees[SubtreeOf(g)].store[LevelOffset(pad, h) + SibPos(pad, li, h)]
           ELSE topProofs[SubtreeOf(g)][h - SubtreeHeight]
      pair   == [g \in positions |-> Shift(g, 1)]
      sibOff(h) == [g \in positions |-> Sibling(Shift(g, h))]
      levels == [h \in 0..(TotalHeight - 1) |->
        IF h = 0
        THEN {Entry(g, leaves(g)[LocalOf(g)], TRUE) : g \in positions}
             \cup {Entry(Sibling(g), hashAt(g, 0), FALSE) : g \in FirstOf(positions, pair)}
        ELSE {Entry(Sibling(Shift(g, h)), hashAt(g, h), FALSE)
                : g \in FirstOf(positions, sibOff(h))}]
  IN Prune(levels)

-----------------------------------------------------------------------------

(* merged keeps one map per level, from offset to entry.  A proof is the   *)
(* global index, txid and sibling path of one txid.  It overwrites what    *)
(* earlier proofs put at its offsets: at level 0 its own entry first, then *)
(* its sibling's, flagged or not.                                          *)
AccumulateProof(merged, proof, topProofs) ==
  LET g == proof.globalIdx
  IN [h \in DOMAIN merged |->
        [off \in DOMAIN merged[h] \cup {Sibling(Shift(g, h))} \cup (IF h = 0 THEN {g} ELSE {}) |->
           IF off = Sibling(Shift(g, h))
           THEN Entry(off, IF h < SubtreeHeight THEN proof.siblingPath[h]
                           ELSE topProofs[SubtreeOf(g)][h - SubtreeHeight], FALSE)
           ELSE IF h = 0 /\ off = g THEN Entry(g, proof.txid, TRUE)
           ELSE merged[h][off]]]

(* The proofs merged one after the other.                                  *)
MergeProofs(proofs, topProofs) ==
  LET merged[i \in 0..Len0(proofs)] ==
        IF i = 0 THEN [h \in 0..(TotalHeight - 1) |-> << >>]
        ELSE AccumulateProof(merged[i - 1], proofs[i - 1], topProofs)
  IN merged[Len0(proofs)]

BuildCompoundBUMP(proofs, topProofs) ==
  LET merged == MergeProofs(proofs, topProofs)
  IN Prune([h \in DOMAIN merged |-> {merged[h][off] : off \in DOMAIN merged[h]}])

-----------------------------------------------------------------------------
(* External: MerklePath.ComputeRoot of go-sdk, the verifier.  Entries of a *)
(* level are indexed by offset; a node that is not an entry is recomputed  *)
(* from its children, one level below.  ZeroHash stands for "not found".   *)
NodeHash(path) ==
  LET entryAt(h, off) == {e \in path[h] : e.offset = off}
      node[h \in DOMAIN path] ==
        [off \in 0..(Pow2[TotalHeight - h] - 1) |->
           IF entryAt(h, off) # {} THEN (CHOOSE e \in entryAt(h, off) : TRUE).hash
           ELSE IF h = 0 THEN ZeroHash
           ELSE LET l == node[h - 1][2 * off]
                    r == node[h - 1][2 * off + 1]
                IN IF l = ZeroHash \/ r = ZeroHash THEN ZeroHash ELSE HashPair(l, r)]
  IN node

ComputeRoot(path, offset, txid) ==
  LET node == NodeHash(path)
      sibs == [h \in DOMAIN path |-> node[h][Sibling(Shift(offset, h))]]
  IN IF \E h \in DOMAIN path : sibs[h] = ZeroHash THEN ZeroHash
     ELSE RootFromPath(txid, offset, sibs)
=============================================================================
