------------------------------ MODULE TokenBump -----------------------------
(***************************************************************************)
(* The life of one token's BUMP in a block whose subtrees are sealed one   *)
(* after the other: the winner's fragment of each subtree the token has    *)
(* txids in is extracted when the subtree is sealed; when the block is     *)
(* found the BUMP is assembled from the fragments, in whatever order the   *)
(* index lists the subtrees (TokenSubtreeIndex.SubtreeIndices ranges over  *)
(* a map), or directly from the full subtrees (the JIT fallback and the    *)
(* two legacy functions of the benchmarks).                                *)
(***************************************************************************)
EXTENDS Bump

VARIABLES
  own,     \* global indices of the token's txids, in the winner's ordering
  sealed,  \* number of subtrees sealed
  frags,   \* the fragments stored, by subtree
  path,    \* the BUMP
  way      \* how it was assembled: "fragments", "fast", "legacy", "compound",
           \* or "none"

vars == <<own, sealed, frags, path, way>>

Leaf(g) == <<g>>

Block  == [si \in Subtrees |-> [li \in LocalIdxs |-> Leaf(GlobalIdx(si, li))]]
Stores == [si \in Subtrees |-> BuildMerkleStore(Block[si])]
Roots  == [si \in Subtrees |-> MerkleRoot(Block[si])]

TopProofs == GetAllProofs(Roots).proofs
BlockRoot == MerkleRoot(Roots)

LocalsIn(si)  == {LocalOf(g) : g \in {o \in own : SubtreeOf(o) = si}}
Spanned       == {SubtreeOf(g) : g \in own}
Loaded        == [si \in Spanned |-> [leaves |-> Block[si], store |-> Stores[si]]]

-----------------------------------------------------------------------------
Init ==
  /\ own \in SUBSET Leafs \ {{}}
  /\ sealed = 0
  /\ frags = << >>
  /\ path = << >>
  /\ way = "none"

(* SealSubtreesToDisk, for this token: no fragment where it has no txid.   *)
SealSubtree ==
  /\ sealed < NumSubtrees
  /\ sealed' = sealed + 1
  /\ frags' = [si \in DOMAIN frags \cup {s \in {sealed} : LocalsIn(s) # {}} |->
                 IF si = sealed
                 THEN ExtractSubtreeFragment(Block[si], Stores[si], LocalsIn(si), si)
                 ELSE frags[si]]
  /\ UNCHANGED <<own, path, way>>

Found == sealed = NumSubtrees /\ way = "none"

AssembleFromFragments ==
  /\ Found
  /\ \E position \in [Spanned -> 0..(Cardinality(Spanned) - 1)] :
       /\ \A s, t \in Spanned : position[s] = position[t] => s = t
       /\ path' = AssembleTokenBUMPFromFragments(frags, position, TopProofs)
  /\ way' = "fragments"
  /\ UNCHANGED <<own, sealed, frags>>

AssembleFast ==
  /\ Found
  /\ path' = AssembleTokenBUMPFast(own, Loaded, TopProofs)
  /\ way' = "fast"
  /\ UNCHANGED <<own, sealed, frags>>

AssembleLegacy ==
  /\ Found
  /\ path' = AssembleTokenBUMP(own, Loaded, TopProofs)
  /\ way' = "legacy"
  /\ UNCHANGED <<own, sealed, frags>>

SubtreeProof(g) ==
  [globalIdx   |-> g,
   txid        |-> Leaf(g),
   siblingPath |-> GetProofFromStore(Block[SubtreeOf(g)], Stores[SubtreeOf(g)], LocalOf(g)).proof]

(* The token's indices in order, going up or down.                         *)
Ordered(up) ==
  [i \in 0..(Cardinality(own) - 1) |->
     CHOOSE g \in own : Cardinality({o \in own : IF up THEN o < g ELSE o > g}) = i]

(* buildCompoundBUMP is given the proofs in any order; here the two of the *)
(* indices going up or down, in which either leaf of a pair comes last.    *)
AssembleCompound ==
  /\ Found
  /\ \E up \in BOOLEAN :
       path' = BuildCompoundBUMP([i \in DOMAIN Ordered(up) |-> SubtreeProof(Ordered(up)[i])],
                                 TopProofs)
  /\ way' = "compound"
  /\ UNCHANGED <<own, sealed, frags>>

Next ==
  \/ SealSubtree
  \/ AssembleFromFragments \/ AssembleFast \/ AssembleLegacy \/ AssembleCompound

Spec == Init /\ [][Next]_vars

Assembled == way # "none"

-----------------------------------------------------------------------------
(* Whatever txids the token has, whichever subtrees they lie in and by     *)
(* whichever path the BUMP was assembled, every one of its txids verifies  *)
(* against the block's merkle root, with the pruned nodes recomputed by    *)
(* the verifier.                                                           *)
EveryTxidVerifies ==
  Assembled => \A g \in own : ComputeRoot(path, g, Leaf(g)) = BlockRoot

(* The entries flagged as txids are the token's own leaves: the BUMP       *)
(* claims no sibling for the token and forgets none of its txids.  Only    *)
(* buildCompoundBUMP does: of two leaves of one pair that the token owns,  *)
(* the one whose proof came last keeps its flag, the other is left as a    *)
(* sibling; above level 0 it agrees with the other ways.                   *)
Flagged == {e \in path[0] : e.txid}

FlagsExactlyOwn ==
  /\ Assembled /\ way # "compound" =>
       {[offset |-> e.offset, hash |-> e.hash] : e \in Flagged}
         = {[offset |-> g, hash |-> Leaf(g)] : g \in own}
  /\ way = "compound" =>
       LET flagged == {e.offset : e \in Flagged} IN
         /\ flagged \subseteq own
         /\ \A g \in own : Cardinality({g, Sibling(g)} \cap flagged) = 1
         /\ \A h \in DOMAIN path \ {0} :
              path[h] = AssembleTokenBUMPFast(own, Loaded, TopProofs)[h]

(* Every entry is a true node of the block's tree at its offset, so a      *)
(* verifier can never be led to a conflicting root by a txid that is only  *)
(* covered as a sibling.                                                   *)
EntriesAreNodes ==
  Assembled =>
    \A h \in DOMAIN path : \A e \in path[h] :
      e.hash = IF h < SubtreeHeight
               THEN PaddedLevel(Block[Shift(e.offset, SubtreeHeight - h)], h)
                      [e.offset % Pow2[SubtreeHeight - h]]
               ELSE PaddedLevel(Roots, h - SubtreeHeight)[e.offset]

(* "Fragment-based assembly produces byte-identical BUMPs to JIT assembly" *)
(* and "Bitset-based fast path produces byte-identical BUMPs to legacy     *)
(* map-based path" (README.md), up to the order of equal offsets and       *)
(* whatever order the fragments come in.                                   *)
PathsAgree ==
  Assembled /\ way # "compound" => path = AssembleTokenBUMPFast(own, Loaded, TopProofs)
=============================================================================
