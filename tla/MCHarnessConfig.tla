--------------------------- MODULE MCHarnessConfig --------------------------
(* The ratios of config.go: with a unit of 2.5 MB and 4 for a subtree of   *)
(* 1M hashes, 80 bytes per txid are 8 units, the overhead of 3 GB is 1229  *)
(* and 2 GB are 819.  The machines range from too small for two subtrees   *)
(* to more than 128 of them.                                               *)
EXTENDS HarnessConfig

Budgets == {0, 800, 1229, 1292, 1293, 1400, 1741, 1773, 1900, 5325, 5357, 6000}

MCMemories == {1000, 2000, 2352, 2400, 3100, 3200, 3500, 9600, 9800, 12000}

MCCommandLines ==
  [hashesPerBlock   : {NotGiven, 0, 4, 8, 10, 400},
   hashesPerSubtree : {NotGiven, 0, 2, 4},
   numMiners        : {NotGiven, -1, 0, 1, 5},
   dataDir          : {NotGiven, "kept"},
   maxMemory        : {NotGiven} \cup Budgets,
   requirements     : {FALSE}]
  \cup
  [hashesPerBlock : {NotGiven}, hashesPerSubtree : {NotGiven}, numMiners : {NotGiven},
   dataDir : {NotGiven}, maxMemory : {NotGiven, 1900}, requirements : {TRUE}]
=============================================================================
