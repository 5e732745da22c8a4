---------------------------- MODULE HarnessConfig ---------------------------
(***************************************************************************)
(* How the harness gets its configuration (main, package config): the      *)
(* defaults from the memory of the machine, the flags, the memory budget   *)
(* that replaces them, the validation and the memory check.                *)
(*                                                                         *)
(* Memory is counted in a unit of the instance; the byte costs of          *)
(* config.go are constants, so that their ratios can be kept.              *)
(***************************************************************************)
EXTENDS Integers, Sequences

CONSTANTS
  BytesPerTxidBase,
  BytesPerTxidPerMiner,
  OverheadBytes,
  MinBudget,       \* 2 GB
  DefaultSubtree,  \* 1 048 576
  Memories,        \* what systemMemory may return
  NotGiven,
  CommandLines     \* records: flag -> value or NotGiven

ASSUME MemoryAssumption ==
  /\ {BytesPerTxidBase, BytesPerTxidPerMiner, DefaultSubtree} \subseteq Nat \ {0}
  /\ {OverheadBytes, MinBudget} \cup Memories \subseteq Nat
  /\ MinBudget < OverheadBytes

(* Every flag but -data-dir and -requirements is a number.  main takes a   *)
(* -max-memory that is not positive for one that was not given.            *)
ASSUME CommandLinesAssumption ==
  /\ NotGiven \notin Int
  /\ \A line \in CommandLines :
       /\ {line.hashesPerBlock, line.hashesPerSubtree, line.numMiners} \subseteq Int \cup {NotGiven}
       /\ line.maxMemory \in Nat \cup {NotGiven}
       /\ line.requirements \in BOOLEAN

VARIABLES
  stage,         \* "parse", "override", "validate", "check", "extend", "started" or "exited"
  flags,         \* the command line
  systemMemory,  \* what systemMemory() returns on this machine
  cfg

configVars == <<stage, flags, systemMemory, cfg>>

BytesPerTxid(miners) == BytesPerTxidBase + miners * BytesPerTxidPerMiner

DefaultMiners == 3

(* 55 percent of the machine's memory, but at least two gigabytes.         *)
DefaultBudget(mem) ==
  LET share == (mem * 55) \div 100
  IN IF share < MinBudget THEN MinBudget ELSE share

RoundSubtrees(n) ==
  IF n < 2 THEN 2
  ELSE IF n > 128 THEN (n \div 16) * 16
  ELSE IF n > 16 THEN (n \div 4) * 4
  ELSE n

(* A mutant: the overhead is not set aside.                                *)
NumSubtreesFor_NoOverhead(maxMem) ==
  RoundSubtrees((maxMem \div BytesPerTxid(DefaultMiners)) \div DefaultSubtree)

NumSubtreesFor(maxMem) ==
  LET bpt       == BytesPerTxid(DefaultMiners)
      left      == maxMem - OverheadBytes
      available == IF left < 0 THEN DefaultSubtree * bpt ELSE left
  IN RoundSubtrees((available \div bpt) \div DefaultSubtree)

Default(mem) ==
  [hashesPerBlock   |-> NumSubtreesFor(DefaultBudget(mem)) * DefaultSubtree,
   hashesPerSubtree |-> DefaultSubtree,
   numMiners        |-> DefaultMiners,
   dataDir          |-> "",
   jitterPercent    |-> <<0, 5, 10>>,
   maxMemoryBytes   |-> DefaultBudget(mem)]

(* The budget is recorded as it was given; what it is raised to here only  *)
(* counts for the number of subtrees.                                      *)
WithMemoryBudget(maxMem, mem) ==
  LET raised == IF maxMem < MinBudget THEN MinBudget ELSE maxMem
  IN [Default(mem) EXCEPT !.maxMemoryBytes = maxMem,
                          !.hashesPerBlock = NumSubtreesFor(raised) * DefaultSubtree]

EstimatedMemoryBytes(c) == c.hashesPerBlock * BytesPerTxid(c.numMiners) + OverheadBytes

Limit(c, mem) == IF c.maxMemoryBytes <= 0 THEN (mem * 55) \div 100 ELSE c.maxMemoryBytes

-----------------------------------------------------------------------------
Given(flag) == flags[flag] # NotGiven

Or(flag, default) == IF Given(flag) THEN flags[flag] ELSE default

ConfigInit ==
  /\ stage = "parse"
  /\ flags \in CommandLines
  /\ systemMemory \in Memories
  /\ cfg = Default(systemMemory)

(* The flags write into the default configuration; -requirements ends it.  *)
Parse ==
  /\ stage = "parse"
  /\ cfg' = [cfg EXCEPT !.hashesPerBlock   = Or("hashesPerBlock", @),
                        !.hashesPerSubtree = Or("hashesPerSubtree", @),
                        !.numMiners        = Or("numMiners", @),
                        !.dataDir          = Or("dataDir", @)]
  /\ stage' = IF flags.requirements THEN "exited" ELSE "override"
  /\ UNCHANGED <<flags, systemMemory>>

(* A mutant: the miners of the flag survive, the block is scaled for three. *)
Override_KeepMiners ==
  /\ stage = "override"
  /\ cfg' = IF ~Given("maxMemory") THEN cfg
            ELSE IF Given("hashesPerBlock") THEN [cfg EXCEPT !.maxMemoryBytes = flags.maxMemory]
            ELSE [WithMemoryBudget(flags.maxMemory, systemMemory) EXCEPT !.numMiners = cfg.numMiners]
  /\ stage' = "validate"
  /\ UNCHANGED <<flags, systemMemory>>

Override ==
  /\ stage = "override"
  /\ cfg' = IF ~Given("maxMemory") THEN cfg
            ELSE IF Given("hashesPerBlock") THEN [cfg EXCEPT !.maxMemoryBytes = flags.maxMemory]
            ELSE WithMemoryBudget(flags.maxMemory, systemMemory)
  /\ stage' = "validate"
  /\ UNCHANGED <<flags, systemMemory>>

Validate ==
  /\ stage = "validate"
  /\ stage' = IF cfg.hashesPerBlock <= 0 \/ cfg.hashesPerSubtree <= 0 THEN "exited"
           ELSE IF cfg.hashesPerBlock % cfg.hashesPerSubtree # 0 THEN "exited"
           ELSE "check"
  /\ UNCHANGED <<flags, systemMemory, cfg>>

CheckMemory ==
  /\ stage = "check"
  /\ stage' = IF EstimatedMemoryBytes(cfg) > Limit(cfg, systemMemory) THEN "exited" ELSE "extend"
  /\ UNCHANGED <<flags, systemMemory, cfg>>

(* One entry for every miner; a negative number of miners is a panic.      *)
ExtendJitter ==
  /\ stage = "extend"
  /\ IF cfg.numMiners < 0
       THEN stage' = "exited" /\ UNCHANGED cfg
       ELSE /\ cfg' = [cfg EXCEPT !.jitterPercent =
                         [m \in 1..cfg.numMiners |-> IF m <= Len(@) THEN @[m] ELSE 10]]
            /\ stage' = "started"
  /\ UNCHANGED <<flags, systemMemory>>

ConfigNext == Parse \/ Override \/ Validate \/ CheckMemory \/ ExtendJitter

ConfigSpec == ConfigInit /\ [][ConfigNext]_configVars

-----------------------------------------------------------------------------

(* The subtrees that may be left out of a budget by the rounding: the      *)
(* fraction of one, or of the step of four or sixteen.                     *)
Slack(n) == IF n >= 128 THEN 16 ELSE IF n >= 16 THEN 4 ELSE 1

ScaleFromFlags == Given("hashesPerBlock") \/ Given("hashesPerSubtree") \/ Given("numMiners")

(* With a scale of its own choosing the harness never exceeds the budget,  *)
(* except when the budget cannot even hold two subtrees: then it gives up, *)
(* and only then.  Nor does it waste the budget: one step of the rounding  *)
(* more would not have fitted.                                             *)
ScaledToBudget ==
  stage \in {"started", "exited"} /\ ~ScaleFromFlags /\ ~flags.requirements =>
    LET n     == cfg.hashesPerBlock \div DefaultSubtree
        per   == DefaultSubtree * BytesPerTxid(DefaultMiners)
        limit == Limit(cfg, systemMemory)
    IN /\ stage = "started" <=> limit >= OverheadBytes + 2 * per
       /\ stage = "started" /\ (cfg.maxMemoryBytes > 0) => limit < OverheadBytes + (n + Slack(n)) * per

(* A flag that was given is what the run uses, except when -max-memory was *)
(* given without -hashes-per-block: then every one of them is the default  *)
(* again, the data directory too.                                          *)
FlagsKeptExactly ==
  stage = "started" =>
    LET kept(flag) == Given(flag) => cfg[flag] = flags[flag]
        replaced   == Given("maxMemory") /\ ~Given("hashesPerBlock")
    IN IF replaced
         THEN \A flag \in {"hashesPerSubtree", "numMiners", "dataDir"} :
                cfg[flag] = Default(systemMemory)[flag]
         ELSE \A flag \in {"hashesPerBlock", "hashesPerSubtree", "numMiners", "dataDir"} : kept(flag)
=============================================================================
