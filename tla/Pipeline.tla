------------------------------ MODULE Pipeline ------------------------------
(***************************************************************************)
(* One process run of the harness (cmd/harness/main.go: run), as often as  *)
(* it is started again on the same -data-dir:                              *)
(*                                                                         *)
(*   Phase 1  txids are generated;                                         *)
(*   Phase 2  SealSubtreesToDisk: subtree by subtree, one goroutine per    *)
(*            miner builds its ordering, then the subtrees are saved, the  *)
(*            token index is extended and the fragments are written;       *)
(*   Phase 4  FinalizeBlock picks a winner, replaces the coinbase, reseals *)
(*            subtree 0 and writes its fragments again; ProcessBUMPs loads *)
(*            the fragments of every token and assembles its BUMP.         *)
(*                                                                         *)
(* The process can be killed between any two steps and between any two     *)
(* fragments of a batch; a write to disk, or a read, can fail.  The code   *)
(* logs such a failure and goes on.                                        *)
(*                                                                         *)
(* Data: a txid is the run that generated it and its number; hashing is    *)
(* taken to be free of collisions, so the merkle root of a subtree is      *)
(* represented by the leaves it commits to, and a fragment by the leaves   *)
(* it was extracted from and the positions it was extracted for (module    *)
(* Bump says what is made of the two).                                     *)
(***************************************************************************)
EXTENDS BlockShape, FiniteSets

CONSTANTS
  NumMiners,
  NumBusinesses,
  NumSwaps,       \* NumSwaps[m] = int(HashesPerSubtree * JitterPercent[m])
  Assignments,    \* the assignments of hashes to tokens considered
  MaxRuns,        \* bound: how often the process is started
  MaxFailures     \* bound: how many reads and writes fail, over all runs

Miners     == 0..(NumMiners - 1)
Businesses == 0..(NumBusinesses - 1)
NumTxids   == NumSubtrees * HashesPerSubtree
TxNumbers  == 0..(NumTxids - 1)

(* Hash <<r, k>> is txid k of run r; k = NumTxids is the coinbase of run r. *)
HashNumbers == 0..NumTxids
Hashes      == (1..MaxRuns) \X HashNumbers

ASSUME PipelineAssumption ==
  /\ NumMiners \in Nat \ {0}
  /\ NumBusinesses \in Nat \ {0}
  /\ NumSwaps \in [Miners -> Nat]
  /\ Assignments \subseteq [HashNumbers -> Businesses]
  /\ MaxRuns \in Nat \ {0}
  /\ MaxFailures \in Nat

NoLeaves  == << >>
Orderings == [LocalIdxs -> Hashes]

(* No fragment is ever extracted for an empty list of positions.           *)
NoFragment == [leaves |-> NoLeaves, idxs |-> {}]
Fragments  == [leaves : Orderings \cup {NoLeaves}, idxs : SUBSET LocalIdxs]

VARIABLES
  run,            \* number of this run of the process
  pc,             \* where its main goroutine is
  tokenOf,        \* tokenOf[k]: uint64(hash[:8]) % NumBusinesses of hash k
  si, mi,         \* loop variables over subtrees and miners
  minerSubs,      \* minerSubs[m]: miner m's ordering of subtree si
  swapsLeft,      \* what goroutine m has left of its swaps
  minerRoots,     \* minerRoots[m][s]: root of subtree s, as its leaves
  minerTokenIdx,  \* minerTokenIdx[m][t][s]: local positions of token t
  batch,          \* tokens whose fragment SaveBatch has still to write
  winner,
  leaves,         \* FinalizeBlock's copy of the winner's subtree 0
  todo,           \* tokens ProcessBUMPs has not handled yet
  bumps,          \* bumps[t][s]: the fragment of s that went into t's BUMP
  logged,         \* this run has logged an error
  failures,       \* reads and writes that failed, in all runs
  diskSubs,       \* MinerSubtreeStore: survives the process
  diskFrags       \* FragmentStore: survives the process

memory == <<tokenOf, si, mi, minerSubs, swapsLeft, minerRoots, minerTokenIdx,
            batch, winner, leaves, todo, bumps>>
disk   == <<diskSubs, diskFrags>>
vars   == <<run, pc, memory, logged, failures, disk>>

Phases == {"generate", "build", "save", "index", "flush", "select", "load", "resave",
           "reflush", "process", "done", "exited", "killed"}

Sealing == pc \in {"build", "save", "index", "flush"}

Ended == {"done", "exited", "killed"}

NumberOf(s, li) == s * HashesPerSubtree + li

Txid(k)   == <<run, k>>
FirstTxid == Txid(0)
Coinbase  == Txid(NumTxids)

Canonical(s) == [li \in LocalIdxs |-> Txid(NumberOf(s, li))]

(* The positions, in an ordering, of the txids of token t.                 *)
PositionsOf(ordering, t) ==
  {li \in LocalIdxs : \E k \in TxNumbers : ordering[li] = Txid(k) /\ tokenOf[k] = t}

Swap(ordering, pos) ==
  [ordering EXCEPT ![pos] = ordering[pos + 1], ![pos + 1] = ordering[pos]]

(* The coinbase takes the place of the first occurrence of firstTxid.      *)
ReplaceCoinbase(ordering) ==
  [li \in LocalIdxs |->
     IF ordering[li] = FirstTxid /\ \A lj \in 0..(li - 1) : ordering[lj] # FirstTxid
     THEN Coinbase ELSE ordering[li]]

EmptyBump == [s \in Subtrees |-> NoFragment]

(* A failure is logged and counted against the bound.                      *)
Failure   == failures < MaxFailures /\ failures' = failures + 1 /\ logged' = TRUE
NoFailure == UNCHANGED <<failures, logged>>

-----------------------------------------------------------------------------
NoSubs  == [m \in Miners |-> NoLeaves]
NoRoots == [m \in Miners |-> [s \in Subtrees |-> NoLeaves]]
NoIndex == [m \in Miners |-> [t \in Businesses |-> [s \in Subtrees |-> {}]]]
NoBumps == [t \in Businesses |-> EmptyBump]

Init ==
  /\ run = 1
  /\ pc = "generate"
  /\ tokenOf = [k \in HashNumbers |-> 0]
  /\ si = 0 /\ mi = 0
  /\ minerSubs = NoSubs
  /\ swapsLeft = [m \in Miners |-> 0]
  /\ minerRoots = NoRoots
  /\ minerTokenIdx = NoIndex
  /\ batch = {}
  /\ winner = 0
  /\ leaves = NoLeaves
  /\ todo = Businesses
  /\ bumps = NoBumps
  /\ logged = FALSE
  /\ failures = 0
  /\ diskSubs = NoRoots
  /\ diskFrags = [m \in Miners |-> NoBumps]

-----------------------------------------------------------------------------
(* Phase 2 starts on subtree s: every goroutine copies the canonical order. *)
StartSubtree(s) ==
  /\ pc' = "build"
  /\ si' = s
  /\ mi' = 0
  /\ minerSubs' = [m \in Miners |-> Canonical(s)]
  /\ swapsLeft' = NumSwaps

Generate ==
  /\ pc = "generate"
  /\ tokenOf' \in Assignments
  /\ StartSubtree(0)
  /\ NoFailure
  /\ UNCHANGED <<run, minerRoots, minerTokenIdx, batch, winner, leaves, todo, bumps, disk>>

(* jitterTxids in goroutine m: one swap of two neighbours.  The goroutine  *)
(* runs whatever the main one does; only wg.Wait() makes that one wait.    *)
JitterSwap(m) ==
  /\ pc \notin Ended
  /\ swapsLeft[m] > 0
  /\ \E pos \in 0..(HashesPerSubtree - 2) :
       minerSubs' = [minerSubs EXCEPT ![m] = Swap(minerSubs[m], pos)]
  /\ swapsLeft' = [swapsLeft EXCEPT ![m] = @ - 1]
  /\ NoFailure
  /\ UNCHANGED <<run, pc, tokenOf, si, mi, minerRoots, minerTokenIdx, batch, winner, leaves,
                 todo, bumps, disk>>

(* A mutant of Built: the WaitGroup counts the canonical miner only.       *)
Built_NoWait == swapsLeft[0] = 0

Built == \A m \in Miners : swapsLeft[m] = 0

(* wg.Wait() returns: every miner's store is built.                        *)
SubtreesBuilt ==
  /\ pc = "build"
  /\ Built
  /\ pc' = "save"
  /\ NoFailure
  /\ UNCHANGED <<run, memory, disk>>

(* A mutant of SaveSub: the transaction is never committed.                *)
SaveSub_Lost(m, s, ordering) == UNCHANGED diskSubs /\ NoFailure

(* A write of the leaves and the store of one subtree, in one transaction. *)
SaveSub(m, s, ordering) ==
  \/ diskSubs' = [diskSubs EXCEPT ![m][s] = ordering] /\ NoFailure
  \/ Failure /\ UNCHANGED diskSubs

(* The root is taken from memory, whether or not the save succeeds.        *)
SaveMiner ==
  /\ pc = "save"
  /\ minerRoots' = [minerRoots EXCEPT ![mi][si] = minerSubs[mi]]
  /\ SaveSub(mi, si, minerSubs[mi])
  /\ IF mi + 1 < NumMiners
     THEN mi' = mi + 1 /\ UNCHANGED pc
     ELSE mi' = 0 /\ pc' = "index"
  /\ UNCHANGED <<run, tokenOf, si, minerSubs, swapsLeft, minerTokenIdx, batch, winner, leaves,
                 todo, bumps, diskFrags>>

(* Tokens that have positions in subtree s in miner m's index.             *)
TokensIn(idx, m, s) == {t \in Businesses : idx[m][t][s] # {}}

(* A mutant of IndexMiner: every miner's positions are taken from the      *)
(* canonical order of miner 0.                                             *)
IndexMiner_Canonical ==
  /\ pc = "index"
  /\ minerTokenIdx' = [minerTokenIdx EXCEPT ![mi] =
       [t \in Businesses |-> [minerTokenIdx[mi][t] EXCEPT ![si] =
          minerTokenIdx[mi][t][si] \cup PositionsOf(minerSubs[0], t)]]]
  /\ batch' = TokensIn(minerTokenIdx', mi, si)
  /\ pc' = "flush"
  /\ NoFailure
  /\ UNCHANGED <<run, tokenOf, si, mi, minerSubs, swapsLeft, minerRoots, winner, leaves,
                 todo, bumps, disk>>

(* The positions of every token are added to miner mi's index, and a       *)
(* fragment is extracted for every token that has any.                     *)
IndexMiner ==
  /\ pc = "index"
  /\ minerTokenIdx' = [minerTokenIdx EXCEPT ![mi] =
       [t \in Businesses |-> [minerTokenIdx[mi][t] EXCEPT ![si] =
          minerTokenIdx[mi][t][si] \cup PositionsOf(minerSubs[mi], t)]]]
  /\ batch' = TokensIn(minerTokenIdx', mi, si)
  /\ pc' = "flush"
  /\ NoFailure
  /\ UNCHANGED <<run, tokenOf, si, mi, minerSubs, swapsLeft, minerRoots, winner, leaves,
                 todo, bumps, disk>>

(* A mutant of WriteFragment: what is written stays in the batch.          *)
WriteFragment_Kept(m, s, ordering) ==
  \/ /\ \E t \in batch : diskFrags' = [diskFrags EXCEPT ![m][t][s] =
          [leaves |-> ordering, idxs |-> minerTokenIdx[m][t][s]]]
     /\ NoFailure
     /\ UNCHANGED batch
  \/ /\ batch # {}
     /\ batch' = {}
     /\ Failure
     /\ UNCHANGED diskFrags

(* FragmentStore.SaveBatch: the fragments reach the disk in any order, and *)
(* a failure leaves those not yet written unwritten.                       *)
WriteFragment(m, s, ordering) ==
  \/ /\ \E t \in batch :
          /\ batch' = batch \ {t}
          /\ diskFrags' = [diskFrags EXCEPT ![m][t][s] =
               [leaves |-> ordering, idxs |-> minerTokenIdx[m][t][s]]]
     /\ NoFailure
  \/ /\ batch # {}
     /\ batch' = {}
     /\ Failure
     /\ UNCHANGED diskFrags

FlushFragment ==
  /\ pc = "flush"
  /\ WriteFragment(mi, si, minerSubs[mi])
  /\ UNCHANGED <<run, pc, tokenOf, si, mi, minerSubs, swapsLeft, minerRoots, minerTokenIdx,
                 winner, leaves, todo, bumps, diskSubs>>

(* The batch of miner mi is written: on to the next miner, the next        *)
(* subtree, or Phase 4.                                                    *)
MinerSealed ==
  /\ pc = "flush"
  /\ batch = {}
  /\ IF mi + 1 < NumMiners
     THEN pc' = "index" /\ mi' = mi + 1 /\ UNCHANGED <<si, minerSubs, swapsLeft>>
     ELSE IF si + 1 < NumSubtrees
     THEN StartSubtree(si + 1)
     ELSE pc' = "select" /\ si' = NumSubtrees /\ mi' = 0 /\ UNCHANGED <<minerSubs, swapsLeft>>
  /\ NoFailure
  /\ UNCHANGED <<run, tokenOf, minerRoots, minerTokenIdx, batch, winner, leaves, todo, bumps,
                 disk>>

-----------------------------------------------------------------------------
SelectWinner ==
  /\ pc = "select"
  /\ winner' \in Miners
  /\ pc' = "load"
  /\ NoFailure
  /\ UNCHANGED <<run, tokenOf, si, mi, minerSubs, swapsLeft, minerRoots, minerTokenIdx, batch,
                 leaves, todo, bumps, disk>>

(* A mutant of LoadAndReplace: the root list keeps the root that Phase 2   *)
(* computed.                                                               *)
LoadAndReplace_OldRoot ==
  /\ pc = "load"
  /\ diskSubs[winner][0] # NoLeaves
  /\ leaves' = ReplaceCoinbase(diskSubs[winner][0])
  /\ UNCHANGED minerRoots
  /\ \/ FirstTxid \in {diskSubs[winner][0][li] : li \in LocalIdxs} /\ UNCHANGED logged
     \/ FirstTxid \notin {diskSubs[winner][0][li] : li \in LocalIdxs} /\ logged' = TRUE
  /\ pc' = "resave"
  /\ UNCHANGED <<run, tokenOf, si, mi, minerSubs, swapsLeft, minerTokenIdx, batch, winner,
                 todo, bumps, failures, disk>>

(* Subtree 0 of the winner comes from disk, not from memory.  When it does *)
(* not hold this run's first txid (an earlier run's leaves, if this run's  *)
(* save failed) that is logged and the block goes on with them.            *)
LoadAndReplace ==
  /\ pc = "load"
  /\ diskSubs[winner][0] # NoLeaves
  /\ leaves' = ReplaceCoinbase(diskSubs[winner][0])
  /\ minerRoots' = [minerRoots EXCEPT ![winner][0] = leaves']
  /\ \/ FirstTxid \in {diskSubs[winner][0][li] : li \in LocalIdxs} /\ UNCHANGED logged
     \/ FirstTxid \notin {diskSubs[winner][0][li] : li \in LocalIdxs} /\ logged' = TRUE
  /\ pc' = "resave"
  /\ UNCHANGED <<run, tokenOf, si, mi, minerSubs, swapsLeft, minerTokenIdx, batch, winner,
                 todo, bumps, failures, disk>>

(* Subtree 0 is not on disk, or cannot be read: FinalizeBlock returns nil  *)
(* and the process exits with status 1.                                    *)
LoadFails ==
  /\ pc = "load"
  /\ \/ diskSubs[winner][0] = NoLeaves /\ logged' = TRUE /\ UNCHANGED failures
     \/ Failure
  /\ pc' = "exited"
  /\ UNCHANGED <<run, memory, disk>>

Resave ==
  /\ pc = "resave"
  /\ SaveSub(winner, 0, leaves)
  /\ batch' = TokensIn(minerTokenIdx, winner, 0)
  /\ pc' = "reflush"
  /\ UNCHANGED <<run, tokenOf, si, mi, minerSubs, swapsLeft, minerRoots, minerTokenIdx, winner,
                 leaves, todo, bumps, diskFrags>>

(* The fragments of subtree 0 are extracted again from the resealed leaves *)
(* at the positions indexed in Phase 2.                                    *)
ReflushFragment ==
  /\ pc = "reflush"
  /\ WriteFragment(winner, 0, leaves)
  /\ UNCHANGED <<run, pc, tokenOf, si, mi, minerSubs, swapsLeft, minerRoots, minerTokenIdx,
                 winner, leaves, todo, bumps, diskSubs>>

(* A mutant of BlockFinalized: FinalizeBlock returns while the batch of    *)
(* fragments is still being written.                                       *)
BlockFinalized_Early ==
  /\ pc = "reflush"
  /\ pc' = "process"
  /\ NoFailure
  /\ UNCHANGED <<run, memory, disk>>

BlockFinalized ==
  /\ pc = "reflush"
  /\ batch = {}
  /\ pc' = "process"
  /\ NoFailure
  /\ UNCHANGED <<run, memory, disk>>

-----------------------------------------------------------------------------
(* A mutant of SubtreeIndices: the subtrees are those the store has a      *)
(* fragment for.                                                           *)
SubtreeIndices_OnDisk(t) == {s \in Subtrees : diskFrags[winner][t][s] # NoFragment}

(* The subtrees the winner's index lists for token t.                      *)
SubtreeIndices(t) == {s \in Subtrees : minerTokenIdx[winner][t][s] # {}}

Present(t) == {s \in SubtreeIndices(t) : diskFrags[winner][t][s] # NoFragment}

(* ProcessBUMPs on one token: every fragment that can be loaded goes into  *)
(* the BUMP; a missing one is only counted as a cache miss, one that       *)
(* cannot be read is logged.  Module BumpPool runs the worker pool that    *)
(* handles the tokens.                                                     *)
ProcessToken(t) ==
  /\ pc = "process"
  /\ t \in todo
  /\ todo' = todo \ {t}
  /\ \E unread \in SUBSET Present(t) :
       /\ bumps' = [bumps EXCEPT ![t] =
            [s \in Subtrees |-> IF s \in Present(t) \ unread THEN diskFrags[winner][t][s]
                                ELSE NoFragment]]
       /\ IF unread = {} THEN NoFailure ELSE Failure
  /\ UNCHANGED <<run, pc, tokenOf, si, mi, minerSubs, swapsLeft, minerRoots, minerTokenIdx, batch,
                 winner, leaves, disk>>

AllProcessed ==
  /\ pc = "process"
  /\ todo = {}
  /\ pc' = "done"
  /\ NoFailure
  /\ UNCHANGED <<run, memory, disk>>

(* An interrupt, a signal or a crash.                                      *)
Kill ==
  /\ pc \notin Ended
  /\ pc' = "killed"
  /\ NoFailure
  /\ UNCHANGED <<run, memory, disk>>

(* The harness is started again on the same data directory: the memory is  *)
(* that of a new process.                                                  *)
Restart ==
  /\ pc \in Ended
  /\ run < MaxRuns
  /\ run' = run + 1
  /\ pc' = "generate"
  /\ tokenOf' = [k \in HashNumbers |-> 0]
  /\ si' = 0 /\ mi' = 0
  /\ minerSubs' = NoSubs
  /\ swapsLeft' = [m \in Miners |-> 0]
  /\ minerRoots' = NoRoots
  /\ minerTokenIdx' = NoIndex
  /\ batch' = {}
  /\ winner' = 0
  /\ leaves' = NoLeaves
  /\ todo' = Businesses
  /\ bumps' = NoBumps
  /\ logged' = FALSE
  /\ UNCHANGED <<failures, disk>>

Step ==
  \/ Generate
  \/ \E m \in Miners : JitterSwap(m)
  \/ SubtreesBuilt \/ SaveMiner \/ IndexMiner \/ FlushFragment \/ MinerSealed
  \/ SelectWinner \/ LoadAndReplace \/ LoadFails \/ Resave \/ ReflushFragment \/ BlockFinalized
  \/ \E t \in Businesses : ProcessToken(t)
  \/ AllProcessed

Next == Step \/ Kill \/ Restart

(* The process keeps running while it is not killed; nothing forces anyone *)
(* to kill it or to start it again.                                        *)
Spec == Init /\ [][Next]_vars /\ WF_vars(Step)

-----------------------------------------------------------------------------
TypeOK ==
  /\ run \in 1..MaxRuns
  /\ pc \in Phases
  /\ tokenOf \in [HashNumbers -> Businesses]
  /\ si \in 0..NumSubtrees
  /\ Sealing => si \in Subtrees /\ minerSubs \in [Miners -> Orderings]
  /\ mi \in Miners
  /\ minerSubs \in [Miners -> Orderings \cup {NoLeaves}]
  /\ swapsLeft \in [Miners -> Nat]
  /\ \A m \in Miners : swapsLeft[m] > 0 => minerSubs[m] \in Orderings
  /\ minerRoots \in [Miners -> [Subtrees -> Orderings \cup {NoLeaves}]]
  /\ minerTokenIdx \in [Miners -> [Businesses -> [Subtrees -> SUBSET LocalIdxs]]]
  /\ batch \in SUBSET Businesses
  /\ winner \in Miners
  /\ leaves \in Orderings \cup {NoLeaves}
  /\ todo \in SUBSET Businesses
  /\ bumps \in [Businesses -> [Subtrees -> Fragments]]
  /\ logged \in BOOLEAN
  /\ failures \in Nat
  /\ diskSubs \in [Miners -> [Subtrees -> Orderings \cup {NoLeaves}]]
  /\ diskFrags \in [Miners -> [Businesses -> [Subtrees -> Fragments]]]

(* What token t gets a proof of: the leaves at the flagged positions of    *)
(* the fragments in its BUMP.                                              *)
Proved(t) ==
  UNION {{bumps[t][s].leaves[li] : li \in bumps[t][s].idxs} : s \in Subtrees}

(* What it should get a proof of: its txids, the coinbase for the first.   *)
Due(t) ==
  {IF k = 0 THEN Coinbase ELSE Txid(k) : k \in {x \in TxNumbers : tokenOf[x] = t}}

Assembled == pc \in {"process", "done"}

(* No silent loss.  In a run that has logged no error every token handled  *)
(* has a proof of each of its txids and of nothing else, whatever earlier  *)
(* runs left on the disk, wherever they were killed, whichever of their    *)
(* writes failed and however the winner's order differs from the canonical *)
(* one (SealSubtreesToDisk, FinalizeBlock, ProcessBUMPs).                  *)
NoSilentLoss ==
  Assembled /\ ~logged => \A t \in Businesses \ todo : Proved(t) = Due(t)

(* In such a run every BUMP is built from fragments of the very leaves     *)
(* that the winner's final subtree roots commit to: after the coinbase     *)
(* replacement nothing of the old subtree 0 reaches a BUMP.                *)
BuiltOnFinalRoots ==
  Assembled /\ ~logged =>
    \A t \in Businesses \ todo, s \in Subtrees :
      bumps[t][s] # NoFragment => bumps[t][s].leaves = minerRoots[winner][s]

(* In such a run the winner's subtrees on disk, which the JIT fallback     *)
(* would read, are those the roots commit to.                              *)
DiskHoldsWinner ==
  Assembled /\ ~logged => diskSubs[winner] = minerRoots[winner]

(* FinalizeBlock gives up (os.Exit(1) in main), or anything is logged,     *)
(* only after a disk operation has failed: otherwise subtree 0 is always   *)
(* there and holds the txid the coinbase replaces, also in a run on the    *)
(* data of an earlier one.                                                 *)
ErrorOnlyAfterFailure == logged \/ pc = "exited" => failures > 0

(* A run that is not killed comes to its end: no loop waits for a write,   *)
(* a fragment or a token that cannot come.                                 *)
EveryRunEnds == (pc = "generate") ~> (pc \in Ended)

=============================================================================
