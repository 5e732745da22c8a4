---------------------------- MODULE MCMerkleProofs --------------------------
(* Every leaf count up to seventeen, with three goroutines and a threshold *)
(* of two pairs, so that of one tree some levels are hashed in parallel    *)
(* and the last ones serially.                                             *)
EXTENDS MerkleProofs

MCLeafRows == {[i \in 0..(k - 1) |-> <<i>>] : k \in 0..17}
=============================================================================
