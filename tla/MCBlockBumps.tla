---------------------------- MODULE MCBlockBumps ----------------------------
(* BlockBumps with subtrees of four leaves, so that fragments have a level *)
(* above the leaves, and three subtrees, so that the top tree is padded.   *)
EXTENDS BlockBumps

Jitter == [m \in Miners |-> 2 * m]

Assign(owned) == [k \in HashNumbers |-> IF k \in owned THEN 1 ELSE 0]

MCAssignments == {Assign({0, 1, 2, 6, 9}), Assign({3, 8, 9, 10, 11})}
=============================================================================
