---------------------------- MODULE MerkleProofs ----------------------------
(***************************************************************************)
(* The three ways internal/subtree hands out a sibling path, asked for any *)
(* leaf once a store has been built:                                       *)
(*   GetMerkleProof     builds a store of its own for one leaf,            *)
(*   GetProofFromStore  reads the store that was built, goroutines and all *)
(*                      (module MerkleBuild),                              *)
(*   GetAllProofs       builds a store of its own for all leaves;          *)
(*                      ProcessBUMPs calls it on the subtree roots.        *)
(***************************************************************************)
EXTENDS MerkleBuild

VARIABLES
  index,   \* the leaf asked about
  op,      \* the function called, "none" before the call
  answer   \* [panic, proof]

asked == <<index, op, answer>>

NoAnswer == [panic |-> FALSE, proof |-> << >>]

ProofsInit ==
  /\ Init
  /\ index = 0
  /\ op = "none"
  /\ answer = NoAnswer

(* A call for leaf i of a row that has one.                                *)
Ask(i, name) ==
  /\ pc = "done"
  /\ op = "none"
  /\ i \in DOMAIN leaves
  /\ index' = i
  /\ op' = name
  /\ UNCHANGED vars

AskSingle(i) ==
  /\ Ask(i, "single")
  /\ answer' = GetMerkleProof(leaves, i)

AskFromStore(i) ==
  /\ Ask(i, "fromStore")
  /\ answer' = GetProofFromStore(leaves, store, i)

AskAll(i) ==
  /\ Ask(i, "all")
  /\ LET all == GetAllProofs(leaves)
     IN answer' = [panic |-> all.panic,
                   proof |-> IF all.panic THEN << >> ELSE all.proofs[i]]

ProofsNext ==
  \/ Next /\ UNCHANGED asked
  \/ \E i \in DOMAIN leaves : AskSingle(i) \/ AskFromStore(i) \/ AskAll(i)

ProofsSpec == ProofsInit /\ [][ProofsNext]_<<vars, asked>> /\ Fairness

-----------------------------------------------------------------------------
(* A path that is returned has one hash per level and leads from its leaf  *)
(* to the root of the store that was built, also in the padded part of a   *)
(* tree whose leaf count is no power of two.                               *)
PathsVerify ==
  op # "none" /\ ~answer.panic =>
    /\ Len0(answer.proof) = Log2Ceil(Len0(leaves))
    /\ RootFromPath(leaves[index], index, answer.proof) = store[Len0(store) - 1]

(* "Batch proof generation matches single-proof generation" (README.md):   *)
(* the three calls answer alike for every leaf of every row, but for the   *)
(* row of one leaf, on which GetAllProofs and GetProofFromStore panic      *)
(* (proof[0] of an empty slice) where GetMerkleProof answers.              *)
BatchMatchesSingle ==
  op \in {"all", "fromStore"} =>
    IF n = 1 THEN answer.panic /\ ~GetMerkleProof(leaves, index).panic
    ELSE answer = GetMerkleProof(leaves, index)

(* "else duplicates the last leaf (Bitcoin convention for odd-count        *)
(* levels)" (subtree.go) is true of some leaf counts only.  Extending the  *)
(* leaf row to a power of two gives Bitcoin's root exactly when the last   *)
(* leaf is met alone at every level that is padded: the index of the last  *)
(* leaf, in binary, has no zero to the left of a one (1, 2, 3, 4, 5, 7, 8, *)
(* 9, 13, ... leaves, but not 6, 10 or 11).                                *)
BitcoinRootExactly ==
  pc = "done" /\ n > 0 =>
    LET last == n - 1
        gap  == \E i, j \in 0..Log2Ceil(n) :
                  i < j /\ Shift(last, i) % 2 = 1 /\ Shift(last, j) % 2 = 0 /\ Shift(last, j) > 0
    IN (store[Len0(store) - 1] = BitcoinRoot(leaves)) <=> ~gap
=============================================================================
