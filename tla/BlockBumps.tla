----------------------------- MODULE BlockBumps -----------------------------
(***************************************************************************)
(* The pipeline together with the BUMP construction: the fragments that    *)
(* Pipeline represents by leaves and positions are extracted, assembled    *)
(* and verified with the operators of module Bump.                         *)
(***************************************************************************)
EXTENDS Pipeline, Bump

(* A txid as a leaf hash of module MerkleTree.                             *)
LeafRow(ordering) == [li \in LocalIdxs |-> <<ordering[li]>>]

FinalRoots == [s \in Subtrees |-> MerkleRoot(LeafRow(minerRoots[winner][s]))]

Fragment(f, s) ==
  ExtractSubtreeFragment(LeafRow(f.leaves), BuildMerkleStore(LeafRow(f.leaves)), f.idxs, s)

(* The BUMP of token t, its fragments taken in the order of their subtrees. *)
AssembledBump(t) ==
  LET used == {s \in Subtrees : bumps[t][s] # NoFragment}
  IN AssembleTokenBUMPFromFragments([s \in used |-> Fragment(bumps[t][s], s)],
                                    [s \in used |-> s],
                                    GetAllProofs(FinalRoots).proofs)

Flagged(path) == {e \in path[0] : e.txid}

(* In a run that has logged no error the assembled BUMP of every token     *)
(* flags exactly the token's txids, and each of them verifies against the  *)
(* merkle root of the block that was found, coinbase included.             *)
BumpsVerify ==
  Assembled /\ ~logged =>
    \A t \in Businesses \ todo : bumps[t] # EmptyBump =>
      LET path == AssembledBump(t)
      IN /\ {e.hash : e \in Flagged(path)} = {<<h>> : h \in Due(t)}
         /\ \A e \in Flagged(path) :
              ComputeRoot(path, e.offset, e.hash) = MerkleRoot(FinalRoots)

(* "Re-extract STUMP fragments for subtree-0 (invalidated by coinbase      *)
(* change)" (registry.go): no BUMP is assembled whose txids do not verify  *)
(* against the block root, also when a write has failed.                   *)
NoBrokenBump ==
  Assembled =>
    \A t \in Businesses \ todo : bumps[t] # EmptyBump =>
      LET path == AssembledBump(t)
      IN \A e \in Flagged(path) :
           ComputeRoot(path, e.offset, e.hash) = MerkleRoot(FinalRoots)
=============================================================================
