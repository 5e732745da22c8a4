----------------------------- MODULE MCPipeline -----------------------------
(* Two miners, of which the second jitters its order, and two tokens; the  *)
(* harness is started twice on one data directory and one read or write    *)
(* fails.  The assignments have a token with no txid, subtrees of one      *)
(* token only and subtrees of both, so that from one run to the next a     *)
(* token gains fragments where it had none, and loses them.                *)
EXTENDS PipelineInv

MCNumSwaps == [m \in Miners |-> 2 * m]

Assign(owned) == [k \in HashNumbers |-> IF k \in owned THEN 1 ELSE 0]

MCAssignments == {Assign({}), Assign({0, 1, 4})}
=============================================================================
