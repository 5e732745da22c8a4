----------------------------- MODULE BlockShape -----------------------------
(***************************************************************************)
(* The shape of a block: its subtrees and the leaves of one of them, as    *)
(* config.Config gives them to every phase.                                *)
(***************************************************************************)
EXTENDS Integers

CONSTANTS
  NumSubtrees,       \* subtrees of the block
  HashesPerSubtree   \* leaves of a subtree

(* A block of one subtree makes GetAllProofs panic in ProcessBUMPs (see    *)
(* MerkleProofs, BatchMatchesSingle).  A subtree of one leaf makes         *)
(* extractSubtreeFragment panic: it appends to levels[0], and there are    *)
(* SubtreeHeight = 0 levels.                                               *)
ASSUME ShapeAssumption ==
  /\ NumSubtrees \in Nat \ {0, 1}
  /\ HashesPerSubtree \in Nat \ {0, 1}

Subtrees  == 0..(NumSubtrees - 1)
LocalIdxs == 0..(HashesPerSubtree - 1)
=============================================================================
