---------------------------- MODULE MCStumpStore ----------------------------
(* Two tokens, two roots, two goroutines that append up to three entries,  *)
(* two at most in a call; a batch over several keys is written one entry   *)
(* to a chunk.                                                             *)
EXTENDS StumpStore, TLC

MCRoots == <<"r1", "r2">>

MCSymmetry == Permutations(Clients) \cup Permutations(Tokens)
=============================================================================
