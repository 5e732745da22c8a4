# A TLA+ model of STUMPT

STUMPT simulates, on one machine, how a merkle service proves to many
businesses that their transactions are in a block: subtrees are built while
transactions arrive, each miner has an order of its own, fragments of the
proofs are stored on disk, and when a block is found a compound BUMP per
business is assembled from them. The modules in this directory model the code
that does this, TLC checks them on small instances, and TLAPS proves theorems
about all of them for all sizes: the merkle trees, the BUMPs and their encodings,
the pipeline and the BUMPs of its blocks, the worker pool, the lists, the indices,
the stores of STUMP entries and the configuration.

To run one check: `tlc -config MCPipeline.cfg MCPipeline`. To check the proofs
of a module: `tlapm PipelineProofs.tla`. `PROJECT.json` lists every run with its
properties, the source lines of every definition (`map`), the hazards, and for
every property a slip in the code that breaks it (`mutants`, the operators
named `X_Slip` beside `X`).

## 1. The system

| part | code | state | operations |
|---|---|---|---|
| merkle trees | `internal/subtree/subtree.go` | none (slices) | `BuildMerkleStore` (parallel above 4096 pairs), `MerkleRoot`, `GetMerkleProof`, `GetProofFromStore`, `GetAllProofs` |
| BUMP construction | `internal/merkleservice/bump.go` | none | `extractSubtreeFragment`, `assembleTokenBUMPFromFragments`, `assembleTokenBUMP`, `buildCompoundBUMP`, encodings |
| sealing and finalizing | `internal/merkleservice/registry.go`, `types.go` | per miner: order, roots, token index | `SealSubtreesToDisk`, `jitterTxids`, `FinalizeBlock` |
| worker pool | `bump.go`: `ProcessBUMPs` | channel, wait group, `dumpOnce` | send, receive, load, record, dump |
| `subtreeCache`, JIT path | `bump.go` | cache map and order | get, put with eviction, load on miss |
| `TokenSubtreeIndex` | `token_subtree_index.go` | token → subtree → positions | `AddBatch`, `Positions`, `SubtreeIndices` |
| `FragmentStore` | `diskstore/fragment.go` | keys (miner, token, subtree) | `SaveBatch`, `Load` |
| `MinerSubtreeStore` | `diskstore/miner_subtree.go` | keys (miner, subtree) for leaves and store | `Save`, `Load` |
| `TxidList`, `BufferedTxidList` | `diskstore/txid_list.go` | keys by index, length, buffer and its mutex | `Append`, `Get`, `Set`, `Slice`, `Flush`, open |
| txid indices | `diskstore/txid_index.go`, `stump/stump.go` | map or keys by txid, buffer | `Set`, `SetBatch`, `Get`, `BatchGet`, `Flush` |
| STUMP stores, registry | `diskstore/stump_store.go`, `stump/stump.go` | entries by XOR key, sequence counter, tokens | `Append`, `AppendBatch`, `AppendMultiKeyBatch`, `Get`, `Len`, `Register`, `Discover` |
| encodings | `bump.go`, `diskstore/encoding.go` | none | marshal, unmarshal, variable-length integers |
| configuration, command line | `cmd/harness/main.go`, `internal/config` | flags, `Config` | `Default`, `WithMemoryBudget`, validation, `CheckMemory` |
| metrics | `internal/metrics` | timers and counters | record, report |

**How they interact.** `main` makes a configuration out of the machine's memory
and the flags, and `run` calls the phases one after another. Phase 2
goes through the subtrees; for each it starts one goroutine per miner and
waits for all of them, then saves, indexes and extracts, miner by miner, from
the main goroutine. Phase 4 picks a winner, loads its subtree 0 *from disk*,
replaces a txid by the coinbase, saves the subtree and its fragments again, and
changes the root kept in memory. `ProcessBUMPs` then reads the winner's index
in memory and the fragments on disk, from several workers. The disk outlives
the process: a run with the same `-data-dir` finds what the last one left.

The lists of txids, the indices from txid to token and the STUMP stores were the
storage of an earlier design. At this commit only tests call them, but they
are public types that say what they do under concurrent use, and their comments
and locks are what is modelled. Their clients here are goroutines that call any
operation at any time.

**What is hard to test.**

- A BUMP is right only if four things agree that are written at different
  times: the root in memory, the subtree on disk, the positions in the index
  and the leaves its fragments were extracted from. The coinbase replacement
  changes three of them after the fact and deliberately leaves the fourth.
- Every failed read or write is logged and passed over, so the run goes on with
  part of the data, or with that of an earlier run.
- A killed run leaves batches half written; the next run overwrites some keys
  and not others, because which tokens have a fragment depends on its txids.
- The miners' goroutines, those that hash a level, and the pool's workers each
  have a barrier whose count must match what was started.
- Workers that miss the cache for one subtree all load it and all put it.
- Leaf counts that are no power of two, subtrees of one leaf, tokens that own
  both leaves of a pair: each takes a different way through the index
  arithmetic.
- Subtrees of a token are listed in the order of a Go map: the fragments are
  joined in any order.
- The length of a list is kept in memory and recovered by counting keys, so a
  batch cut short, an append that overlaps another or a key that is written
  twice decides what the next process finds.
- A reader of a list takes the buffer, the length and the keys at different
  moments; a reader of the buffered index can look between the moment a batch
  leaves the buffer and the moment it is on disk.
- A batch of STUMP entries draws its sequence numbers first and is written
  chunk by chunk later, while others append and `Discover` probes.
- The integers of the encodings change their width at boundaries, and a value
  may have been cut short on disk.
- `-max-memory` replaces the configuration after the other flags were read.

**What makes each part correct.**

- *merkle trees*: no slot is read before it is written, the store is the padded
  tree whatever the goroutines do, every path leads to the root.
- *BUMP construction*: whatever set of txids a token owns, its BUMP flags
  exactly these, holds only true nodes at their places, and from it the root
  can be computed for each of them.
- *pipeline*: a run that logs no error loses nothing: every token's BUMP proves
  exactly its txids, on the roots of the block found. A run ends.
- *worker pool*: each token is handled once, all are handled when the call
  returns, with all that could be read; the cache is bounded and consistent;
  the call returns.
- *lists*: they behave as one sequence; a kill keeps all that was flushed.
- *indices*: what was set last is what is found, but for batches in flight.
- *STUMP stores*: no entry is lost, moved or given to another key, a failed call
  leaves a prefix, `Discover` is complete.
- *encodings*: what is decoded is what was encoded, or an error.
- *configuration*: the scale fits the budget; each flag counts, or it is known
  when it does not.

## 2. The modules

| module | models | code |
|---|---|---|
| `MerkleTree` | the store, slot by slot, and the three readers, as operators | `subtree.go` |
| `MerkleBuild` | the loops and goroutines that fill the store | `BuildMerkleStore`, `parallelHashLeafPairs`, `parallelHashLevel` |
| `MerkleProofs` | the build, then calls of the readers | `GetMerkleProof`, `GetProofFromStore`, `GetAllProofs` |
| `MerkleTreeProofs` | lemmas on the operators of `MerkleTree` and `Bump`, by induction | |
| `MerkleBuildProofs` | the theorems about `MerkleBuild` and `MerkleProofs` | |
| `BlockShape` | how many subtrees a block has, and how many leaves a subtree | `config.go`, `SealSubtreesToDisk` |
| `Bump` | fragments, assembly, pruning, `buildCompoundBUMP`, the verifier's `ComputeRoot` | `bump.go` |
| `TokenBump` | the four ways to a BUMP, for any set of positions and order | the callers of `Bump`'s operators |
| `BumpProofs` | the theorems about `TokenBump` and `Codec` | |
| `Pipeline` | the process, its phases, kills, restarts, failing disk | `registry.go`, `main.go`, the stores |
| `PipelineInv` | the inductive invariant of `Pipeline` | |
| `BlockBumps` | `Pipeline` composed with `Bump` | both |
| `PipelineProofs` | the theorems about `Pipeline`, `BlockBumps` and `HarnessConfig` | |
| `TokenWork` | what `ProcessBUMPs` promises (abstract) | |
| `BumpPool` | the channel, the workers, the cache and the main goroutine | `ProcessBUMPs`, `subtreeCache` |
| `BumpPoolInv`, `BumpPoolProofs` | its inductive invariant and theorems | |
| `TxidSeq` | what a list of txids promises (abstract): a sequence, its copy on disk, and what a kill makes of the two | `txid_list.go` |
| `TxidList` | both lists, shown to implement `TxidSeq` | `txid_list.go` |
| `TxidListProofs` | its theorems | |
| `TxidIndex` | the indices in memory, on disk and buffered | `txid_index.go`, `stump.go` |
| `TxidIndexProofs` | its theorems | |
| `StumpStore` | the three stores, the registry, `Discover` | `stump_store.go`, `stump.go` |
| `StumpStoreProofs` | its inductive invariants and theorems | |
| `Codec` | the encodings of fragments, BUMPs, entries and hashes | `bump.go`, `encoding.go` |
| `HarnessConfig` | from the machine and the command line to a configuration | `main.go`, `config.go` |
| `MC*` | values of the constants for TLC | |

### Merkle trees

A hash is what it was computed from: a leaf is a one-element tuple, a parent the
pair of its children, the zero hash the empty tuple. Two hashes are then equal
only if they were computed alike, which is what SHA256d is relied on for, and a
slot read too early shows as a zero hash inside a node. `MerkleTree` defines the
store slot by slot; `Pow2` are the powers of two the code gets by shifting or
doubling. `MerkleBuild` has a main goroutine that goes through the
levels and, for a level of at least `Threshold` pairs (4096 in the code), spawns
a goroutine per chunk and waits for them; a goroutine writes one slot per step.
`MerkleProofs` goes on from a build that has ended and asks for any path, so
the paths are read from a store the goroutines have filled.

### BUMPs

A fragment is a function from levels to sets of entries
`[offset, hash, txid]`; the map-of-bitsets that removes duplicates inside a
level is the set. Entries are compared with the flag, so an offset that appears
twice remains visible. `ComputeRoot` is external: it is the go-sdk's verifier as
`bump.go` relies on it: it looks up the sibling at each level and, if there is
none, computes it from the level below. `TokenBump` starts from every set of
positions in a block and takes the subtrees in every order.

### The pipeline

Actions and code, in the order in which they happen:

| action | code |
|---|---|
| `Generate` | Phase 1; `StartSubtree` copies the canonical order for each miner |
| `JitterSwap(m)` | one swap of `jitterTxids` in goroutine `m` |
| `SubtreesBuilt` | `wg.Wait()` |
| `SaveMiner` | the root is taken from memory, then `MinerSubtreeStore.Save`, which may fail |
| `IndexMiner` | `AddBatch` and the extraction of the fragments |
| `FlushFragment` | one fragment of `SaveBatch` reaches the disk, or the rest fails |
| `MinerSealed` | next miner, next subtree, or Phase 4 |
| `SelectWinner` … `BlockFinalized` | `FinalizeBlock`, step by step |
| `ProcessToken(t)` | a worker's handling of one token |
| `Kill`, `Restart` | the process is killed; the harness is started on the same data |

A txid is the run that generated it and its number, so data of an earlier run
cannot be taken for this run's. As hashing is free of collisions, the root of a
subtree is represented by the row of leaves it commits to, and a fragment by
the row and the positions it was extracted for. What is made of the two is the
business of `Bump`, and `BlockBumps` puts them together: it extracts, joins and
verifies with `Bump`'s operators in the states `Pipeline` reaches.

A failed read or write is a disjunct of the action that does it. It sets
`logged`, as the code logs it, and is counted against `MaxFailures`.
A missing fragment is *not* a logged error: the code counts it as a cache miss.
`NoSilentLoss` shows that in a run which has logged nothing this never loses
anything. A save of leaves and store is one transaction in the code and one
step here; a batch of fragments is not atomic, and is written one by one in any
order.

### The worker pool

The channel has room for all tokens and they are sent in order, so
it holds `received..sent-1`. Whether there is a fragment store (`jit`) and the
limit of the cache are chosen at the start. A worker receives, then takes the
subtrees of its token one by one. With a fragment store it loads a fragment
(`LoadFragment`). Without one it looks in the cache under the mutex
(`CacheGet`), on a miss reads the subtree without it (`Fetch`), and puts it
(`CachePut`, with the eviction of the oldest put); other workers act in
between. Then it assembles, records and dumps. `Spans`, `Present` and `Stored`
say which subtrees each token has in the index and what is on disk; they
include a token with no txids, one whose fragments are all missing and one
that has some. `TokenWork` is the specification: a set of tokens still open,
each handled once with a subset of what is there, then a return. The
refinement mapping takes as open the tokens not received and those in a
worker's hands.

### The lists of txids

`kind` says whether the clients call a `TxidList` or a `BufferedTxidList` over
one. The keys are a function from indices to entries, the length is the
atomic counter, `holder` the client that keeps the buffered list's mutex
between steps. Every step is one access to shared state: an append to a
`TxidList` is load, put, add; a batch is written entry by entry and then
counted; `Get` of the buffered list looks at the buffer under the mutex, then
at the length, then at the keys. A batch may fail at any entry, and a kill can
come anywhere; `Reopen` recovers the length by counting keys. `seen` collects what
the entry a `Get` asks for has been since the call began, which is what
linearizability is stated with.

A read of the disk by `Get` may fail too, and is answered as an entry that is not
there.

`TxidSeq` knows a sequence (`list`) and a copy of it on disk that lags behind
(`stored`), of which the first `durable` entries are hardened. A buffered list adds
an entry (`AddEntry`) and copies it later (`Store`), in order and with the value it has at that
moment; a failed batch leaves part of the buffer copied, and the next one
copies it again. A `TxidList` copies first (`StoreEntry`) and adds then
(`AddStored`). Only a copy that is the whole list is hardened (`Harden`). `Overwrite` changes
one entry, in the copy as well if it is hardened. `CrashAndOpen` alone makes the sequence
shorter or changes several entries: it falls back to the copy, with all that was
hardened. `opens` counts these steps and is mapped to `crashes`, so that no step but a
kill of `TxidList` can be one. The mapping takes as `list` the first `len` entries on disk
followed by the buffer, as `stored` as many keys as `initLen` would count, as
`durable` the length in memory. Two `TxidList.Append`s that overlap write one key;
from then on (`racy`) the abstract sequence is not promised.

### The indices and the STUMP stores

In `TxidIndex`, `kind` selects the index in memory, the one on disk and the
buffered one. `BufferedSet` takes the full buffer under the mutex; the batch
is then the client's, and written pair by pair without the mutex, while
others set, flush and look up. `InFlight` are the txids in such batches.
`blurred` remembers those of which two batches were in flight at once, or whose
batch has failed: for them the order on disk is that of the writers. The reads of a lookup may
fail, for all its txids or some.

In `StumpStore` an entry has an identity (`made` gives its key and its call), so
that loss, duplication and exchange can be told apart. On disk `Number` draws a
sequence number for the next entry of a call, `Write` puts a batch of
`ChunkSize` entries on disk, `WriteFails` ends the call. `Discover` is a
loop over roots and tokens with one probe per step. `Reopen` starts another
process on the same directory: the counter of the sequence numbers starts at 0
again, as in the code, and so overwrites.

### Encodings and configuration

`Codec` encodes an item, may cut the bytes anywhere, and decodes. A byte is a
number below `Base`; every width and marker of the code is kept relative to
`Base`, so the boundaries of the variable-length integers exist at `Base`=5 as
at 256. A hash is one cell, since none of its bytes is looked at. What may be
encoded is `ItemsAssumption`: fragments and BUMPs with fewer than `Base` levels
(the code's trees have at most 63, and write the number as one byte), lists whose
length their count has room for, and entries whose indices are any ints. The
actions are `Marshal`, `Cut` and `Unmarshal` (`CodecSpec`).

`HarnessConfig` goes through `main`: parse, override by `-max-memory`, validate,
check the memory, extend the jitter list. The byte costs are constants.
`systemMemory` is an input, and so is the command line (`CommandLinesAssumption`:
numbers, negative ones too; a `-max-memory` that is not positive is one that
was not given, as in `main`).

## 3. The runs

| run | shows | bounds |
|---|---|---|
| `merkle_proofs` | the parallel build is right under every interleaving, and ends; every path leads to the root; the readers agree; when the root is Bitcoin's | 0 to 17 leaves, 3 CPUs, threshold 2 |
| `token_bump` | every BUMP verifies, flags exactly its txids, holds only true nodes; all ways and orders agree | every set of positions of 3 × 4 leaves |
| `pipeline` | the inductive invariant, four safety properties, and that a run that is not killed ends | 2 miners, 2 subtrees of 3, 2 tokens, 2 runs, 1 failure |
| `block_bumps` | the BUMPs of a clean run verify against the block found | 2 miners, 3 subtrees of 4 |
| `bump_pool` | no token twice, none dropped; the cache is consistent and loads are bounded; the pool implements `TokenWork`, so the call returns | 2 workers, 4 tokens, 2 subtrees, no cache limit or 1 or 2, 2 failing reads |
| `txid_list` | the keys are contiguous, what a batch that was cut short leaves is fresh, reads are linearizable, the list implements `TxidSeq`, every call returns | 2 clients, 2 entries, buffers of the default size and of 2, 1 failed write or read, 1 kill |
| `txid_index` | the newest token is found, what `Flush` covers, what lookups may answer | 2 clients, 2 txids, 2 tokens, 4 sets, buffers of 0 (every set is written) and of 3, 1 failed write or read, 1 kill |
| `stump_store` | nothing is lost or moved, a failed call leaves a prefix, `Discover` is complete | 2 clients, 2 tokens, 2 roots, 3 entries, calls of 2, chunks of 1, 1 failure, 2 processes |
| `codec` | what is decoded is what was encoded exactly when it fits; what is cut short is an error | `Base` 5, every boundary of every width |
| `config` | the default scale fills the budget, each flag counts unless the budget replaces it | 10 machines, 12 budgets, all combinations of the flags' values |

**Why the bounds are enough.** Seventeen leaves are padded to thirty-two, so that levels
are split into unequal chunks, some of them padding only; rows of 0, 1, 2, an odd and an even number of
leaves all occur. Three subtrees make a top tree with padding, four leaves give
a subtree with an inner level, and all sets of positions are tried. In the
pipeline two miners let the winner differ from the canonical miner 0, two
runs let old data meet new, two swaps reach orders in which the first
txid has left place 0, one failure at any point can meet a kill at any other, and the
assignments of txids to tokens let the second run have a token where the first
had none and the other way round. In the pool two workers can miss the cache
together, and a limit of one forces an eviction between a miss and its put; four
tokens leave a worker one more to take after both have failed a read.

A list of two entries and a buffer of two have a batch that is cut between its
entries, one append beside it, and a failed batch that is written anew; two
clients overlap in every pair of operations. Four sets and a buffer of three
give two batches in flight with a txid in common, and one in flight while the next
is filled. In the stores two calls in two chunks each interleave, one fails
after its first chunk, and a second process meets the first one's keys. The
default size of the list's buffer is never reached, which is the case of a list
that is only flushed by `Flush` or `Slice`; the index has no default size. In `codec` the values are taken at both
sides of each boundary, with none, one and two elements per list, and bytes
are cut at every length. In `config` one unit is 2.5 MB and the machines range from
too small for two subtrees to more than 128 of them, so that every branch of the
rounding occurs. The theorems remove the bounds for what they state.

**Deadlock** is checked where clients may always call again: `txid_list`,
in which the mutex must not be kept, and `txid_index`. Elsewhere it is not
checked, because a run really stops there: the process has ended and
the bound on restarts is reached, or the function has returned.

**Runs that find a disagreement.** Each checks one statement of a
comment, quoted in `findings`:

- `token_bump_odd_subtree`: the harness accepts a subtree size that is no
  power of two; offsets then collide and txids do not verify.
- `block_bumps_broken`: if the second extraction fails, a BUMP that does not
  verify is recorded.

Other things met while modelling, which no run of its own states:

- `subtree.go:54` speaks of the Bitcoin convention; `BitcoinRootExactly` says
  for which leaf counts the root is Bitcoin's (not for 6, 10, 11, 12, 14, ...).
- `GetAllProofs` and `GetProofFromStore` on one leaf write the first hash of a
  proof of length 0 and panic (`subtree.go:231`), where `GetMerkleProof` answers;
  `BatchMatchesSingle` says so. A block of one subtree, which the
  harness accepts, gets there.
- With subtrees of one leaf, which the harness accepts,
  `extractSubtreeFragment` appends to `levels[0]` of no levels and panics.
- A token that owns both leaves of a pair has one offset twice at level 0, as a
  txid and as a sibling, and a node above a node that can itself be computed is
  not pruned (`Prune` looks at entries only). Verifiers do not mind
  (`EveryTxidVerifies`), but ARCHITECTURE.md:10 and :13 say otherwise.
  `buildCompoundBUMP` removes the duplicate, and with it the flag of one of the two txids.
- After a failed write of a fragment the BUMP of its token covers part of its
  txids and is recorded like a complete one (compare ARCHITECTURE.md:10).
- The coinbase goes where jitter moved the first txid, not always to leaf 0
  (compare FINDINGS.md:167). It becomes a txid of the token that owned the txid
  it replaces (`Due`), not of the token its own hash maps to.
- `RecordBUMP` and `dumpOnce.Do` are separate: the BUMP dumped need not be the
  first one recorded.
- README.md:69 and :328 call the cache an LRU; the entry evicted is the oldest
  put (`Insert`), and two workers may load the same subtree (`LoadsBounded`).
- `TxidList.Append` is said to increment atomically, but two that overlap write
  one key and count two: an entry is lost and the length is beyond the keys.
- After a failed flush of the buffered list the entries already written stay on
  disk; a `Set` of one of them in the buffer followed by a kill brings the older
  value back (`TailFresh` holds only without a failed write). `ImplementsSeq` covers
  these runs: the copy may hold an older value of an entry that is not hardened, and no
  other entry is touched.
- `Flush` of the buffered index does not wait for batches in flight
  (`FlushCovers`), and a lookup between can miss a txid that was set
  (`GetFresh`).
- The sequence number of `DiskStumpStore` starts at 0 in every process: a second
  process overwrites entries of the first. `MemStumpStore` makes a key for an
  empty batch, so its `Len` differs from the others'.
- Indices of an entry from 2^32 on are cut off when encoded
  (`RoundTripExactly` says exactly when).
- `-max-memory` without `-hashes-per-block` replaces the whole configuration:
  `-miners`, `-hashes-per-subtree`, `-businesses`, `-dump-bump` and `-data-dir`
  are lost, though the comment in `main.go` speaks of `HashesPerBlock`
  only (`FlagsKeptExactly`). A budget below about 3.15 GB gives a scale that does not fit
  it, and the harness refuses. `-miners 5` alone is refused where the default
  fills the budget for three.
- README.md:169 counts 48 bytes per txid; the code counts 80 for three miners.
- Miners or businesses of 0 or less and budgets larger than the machine are accepted.

**Fairness.** `Pipeline`: weak fairness of the process's steps together. The
process is not forced to be killed or restarted, and while it is alive some
goroutine of it can run until it ends. Nothing in the code picks among the enabled
steps, so none has fairness of its own. `BumpPool`, `MerkleBuild` and
`TxidList`: weak fairness of each goroutine within a call, which the Go scheduler gives (a runnable goroutine
runs eventually; channel receive and `Wait` are modelled as enabled when they would
return). No client of a list is forced to call, and nothing is claimed of
one that still waits for the mutex: its call begins when it has it, and no
later step waits for it again. No strong fairness is used.

## 4. The proofs

All theorems hold for every value of the constants under the assumption the
module states and, for some of them, a hypothesis named below (`PowerOfTwoSubtrees`,
`DistinctLeaves`). `PROJECT.json` lists them with what each establishes.

### Induction (`MerkleTreeProofs`)

The trees are defined level by level, and the theorems of the library on
induction take an operator as a parameter, which the provers cannot
instantiate. Inductions are done on sets instead: `LeastNat` says that a set of
natural numbers that is not empty has a least member, and so a set that has 0
and with every number the next one is all of `Nat` (`AllNat`), or all numbers up
to a bound (`UpTo`). The set is that of the levels, the slots or
the powers for which the claim holds. A recursive function is unfolded in the
same way: that there is a function with the defining equation on every prefix
`0..k`, that any two agree, and so that the function itself satisfies its
equation.

### The merkle trees (`MerkleTreeProofs`, `MerkleBuildProofs`)

`BuildAssumption` allows any rows of leaves, any number of CPUs and any
threshold. `PathLeadsToRoot` is about the operators: read from the flat store by
halving the index and jumping from level to level, the siblings of a leaf lead to
the store's last slot, for any number of leaves. `BuildInv` is about the
goroutines: the slots below the level being hashed are `Final`, and so are
those each goroutine has passed in its chunk; the level is the row of leaves or
one of `2^k` nodes that starts where the shifts put it (`LevelOK`). A pair is
hashed from two final slots, the chunks cover the level and do not overlap, so
that a write never spoils a final slot. At the end the store is
`BuildMerkleStore`, whatever the interleaving: `CompleteStore`. `PathsVerify` and
`BatchMatchesSingle` follow with `PathLeadsToRoot`, as a reader is called once the
store is built (`AnswerInv`).

`BitcoinRootExactly` compares two foldings of one row: that of `StoreSlots`, for
which the last leaf is repeated up to a power of two, and Bitcoin's, which
repeats the last hash of each odd row. The theorem has the hypothesis `DistinctLeaves`: no
leaf occurs twice in a row. Txids are distinct, and without it roots can coincide by
accident, as over six copies of one leaf.

### The BUMPs (`MerkleTreeProofs`, `BumpProofs`)

The theorems have the hypothesis `PowerOfTwoSubtrees`, and are about any
number of subtrees, any such size, any set of positions of the token and any
order of its subtrees. The hypothesis is needed: with other sizes, which the harness accepts,
BUMPs do not verify (run `token_bump_odd_subtree`). `NodeAt` names the node of
the block's padded tree at a level and an offset, across the border between a
subtree and the tree above the subtrees. `Level` says what belongs on a level:
the token's leaves, and of each of them the siblings of its ancestors. The
argument has three parts: every assembly puts exactly the entries of `Level`
on its levels, whatever the order (for the fragments by what
`extractSubtreeFragment` leaves at each level, for `buildCompoundBUMP` by its
path per txid); pruning removes only entries whose node can be computed from the
level below; and `ComputeRoot`, which goes up from a txid and computes a
sibling that is missing, then arrives at the root. These three are lemmas of
`MerkleTreeProofs` about any block whose leaves are not the zero hash (`IsBlock`),
so that they serve `TokenBump` and the pipeline alike. `BumpInv` is the
invariant of the module's steps, that a stored fragment is the one extracted
from its subtree and a finished BUMP one of the two forms. `EveryTxidVerifies`,
`EntriesAreNodes`, `PathsAgree` and `FlagsExactlyOwn` follow.

### The pipeline (`PipelineProofs`)

`PipelineAssumption`:
any positive number of miners, tokens and runs; at least two subtrees of
at least two leaves; any number of failures and of swaps per miner. Two
subtrees and two leaves, because with one the code panics.

`NoSilentLoss` speaks of the end of a run; to
carry it there one must know, at every point of the program, what has been
computed and what has reached the disk. Two operators say how far the run is:
`Rooted(m, s)`, the root of subtree `s` is that of miner `m`'s order, and
`Indexed(m, s)`, the index covers it. The invariant then has, for a run that has
logged nothing and has not been stopped,

1. `SubsInv`, `RowsInv`: what a miner holds is a permutation of the
   subtree's txids, with the coinbase in one place once it is `Resealed`;
2. `DiskInv`: a subtree that is rooted is on disk as rooted, except the
   winner's subtree 0 between the replacement and its save;
3. `IndexInv`: the index gives exactly the places of the txids in the
   *rooted* row, also after the replacement: the coinbase stands where the
   first txid stood, which is why the index can stay as it is;
4. `FragInv`: a fragment that the index calls for, and that is not `Pending`, is
   on disk and was extracted from the rooted row;
5. `BumpsInv`: the BUMP of a token that was handled is what 3 and 4 make it.

Nothing is said of a key that this run's index does not call for: that is
why what earlier runs left cannot hurt. `MinerInv`, `TodoInv` and `BarrierInv`
hold in every run. `BarrierInv` (no swap is left once the barrier is passed) is
needed because a swap after `SaveMiner` would part disk and memory.

`PipelineProofs` has one lemma per action, each split by the conjuncts the action can
disturb, over a few lemmas about orderings: a swap keeps one an
ordering, the coinbase replacement changes exactly one leaf, positions found in
the row before it are places in the row after it.

`BumpsVerifyHolds` joins this to the BUMPs. On course, the fragments recorded for a token
are those of the final rows at the positions of its index (`BumpsInv`); the final rows are
a block in the sense of `MerkleTreeProofs` (`RowsBlock`); what is assembled from
such fragments flags the leaves at those positions and lets each be verified
(`AssembledFromRows`), and those leaves are the txids due to the token (`NoSilentLoss`).
It keeps the hypothesis `PowerOfTwoSubtrees`, as the BUMPs of other sizes do not
verify; the code's default size, 2^20, satisfies it.

### The configuration (`PipelineProofs`)

Any byte costs, machines and command lines of `MemoryAssumption` and
`CommandLinesAssumption`. The flags and the memory determine the configuration
that is validated (`Chosen`); `ConfigInv` says how far each stage is with it, what
the stages that were passed have found of it, and for which reasons a
process may have given up. `FlagsKeptExactly` follows directly, `ScaledToBudget` by
arithmetic on the quotients: two subtrees or more are within the budget when
their number is at most the quotient, and `RoundSubtrees` never rounds
up but to two. `ScaleRuns` is stated for the proof only: a scale that the harness chose
itself has what the pipeline is run with, at least two subtrees and no txid left
over.

### The worker pool (`BumpPoolProofs`)

`PoolAssumption` fixes the shapes of the constants, with finitely many subtrees.
`PoolInv` relates the two sides of the channel: the tokens received are those in a
worker's hands and those recorded, each in one place only; a worker that has
exited has found the channel closed and empty; what a worker has loaded, has
still to load and has failed to load make up what its token has. With it
`OneWorkerPerToken`, `AllAssembled` and `CacheConsistent` follow, and
`ImplementsTokenWorkSafety`: every step is a step of `TokenWork` or a stutter.
`LoadsBounded` is a counting argument (`LoadsInv`): as long as nothing is
evicted, a load of a subtree belongs to a worker that missed it before it was put,
and no worker misses it twice.

### The lists (`TxidListProofs`)

`ListAssumption` allows any clients, entries, buffer sizes, windows, failures and
kills. `ListInv` says who may hold the mutex, and that the keys are exactly the
indices below the length, those of the batch being written, and what an
append or an earlier failure has left just behind it; `KeysContiguous` and
`TailFresh` follow. `CallInv` holds what a reader relies on between two reads:
the length only grows, so an index that was in range stays so; from it
`GetLinearizable` and `SliceWhole`. `ImplementsSeqHolds` is the whole refinement,
as `TxidSeq` has no fairness: `ListedIs` describes the abstract sequence entry by
entry, `StoredIs` the copy, which has the keys of `ListInv`. `BatchInv` says that what
has been written of a batch equals the buffer: counting it changes where the
entries lie and not what they are, and finds the copy equal to the list, which is
what `Harden` asks for. A key that is written is `Store`, `StoreEntry` or
`Overwrite`, a kill is `CrashAndOpen` because the counted length is that of the copy, and every other
step leaves both sequences as they are (`SameCopy`).

### The buffered index (`TxidIndexProofs`)

Under `IndexAssumption`, `IndexInv` has the types, the shape of the buffer and
the batches (`ShapeInv`), where the newest token of a txid is (`WhereInv`: in the
buffer, else in the one batch in flight, else on disk), what a
`Flush` in progress still owes (`DueInv`) and what a lookup in progress has
found (`LookInv`). The three properties of the run follow.

### The stores of STUMP entries (`StumpStoreProofs`)

Under `StoreAssumption`, `StoreInv` says of the first process on a directory that
the entries of a call wait in the order in which they were given (`OrderInv`),
that a number is drawn once (`NumberInv`), so that a write never lands on an entry
that is there, that whatever a call was given before an entry that waits is
stored or waits too (`CallsInv`), that an entry lies under its own key only
(`KeysInv`), and that it waits in one place until it is stored, unless a call
has failed (`OnceInv`). Of the maps in memory it says that they hold every entry
under its key and in its order (`MemInv`). `PrefixWritten`, `AllStored` and the
action property `NothingLost` follow. `Get` sorts what it finds under a
key by sequence number; `RankFacts` and `NthFacts` say that the rank of a number is
its place in the answer, and `ReadGrows` that an answer is a
subsequence of any later one.

`Discover` reads key after key while others append, so `ProbeInv` keeps two
bounds on what it has found for a token: root by root, at least what was there when
it began and at most what is there now. The second bound moves with
every append, and holds as a subsequence of a subsequence is one
(`SubsequenceTrans`). `DiscoverComplete` is the first bound at the last probe.
Of a second process nothing is claimed: it draws the numbers of the first again.

### The encodings (`BumpProofs`)

`BaseAssumption` asks for four bytes beside the flag, `ItemsAssumption` for items as the
program makes them, of any length. `Power`, `Flatten`, `GetUint` and the readers are
functions defined by recursion over numbers, which are unfolded as described
above (`StepByStep`). The argument is about where things stand: `Holds(bytes, off, s)`
says that `s` stands in the bytes behind the first `off` of them, and `Laid` that the
parts of a list stand so one behind the other. An integer read where it
stands is the integer written, as far as its width goes (`DigitStep`,
`ReadUint`, `ReadVarIntBack`). Of a start of the bytes (`CutFrom`), whole or cut, each
round of a decoder then reads the written part back or finds that the
bytes end before it (`NextEntryBack`, `NextLevelBack`, `NextNodeBack`); the
rounds agree with the list of the parts read so far (`Agree`), so that all the bytes give
the item back, its indices reduced to four bytes (`Narrowed`), and fewer
bytes an error (`DecodeBack`). No decoder takes a count out of bytes that were not
written, which is what the proof for a cut rests on: the count stands before what it counts.
`CodecInv` says what is kept at each stage; `RoundTripExactly` and
`TornIsError` follow.

**Only model-checked:** liveness (`EveryRunEnds`, `BuildEnds`, `EveryCallReturns`,
and the liveness part of `TokenWork`), which needs fairness and `ENABLED`. Every
invariant and every other action property that a passing run checks is proved.

## 5. What is not modelled

- *metrics*: timers, counters and a printed summary; nothing depends on them. Whether a token
  is recorded is in `BumpPool`.
- *`TokenSubtreeIndex.Add`, `FragmentStore.Save`, `SubmissionInterval`*: no
  caller at this commit.
- *`Len` of the buffered list*: it adds up what `Get` reads.
- *reads that fail in an iterator*: `initLen` and `Slice` of the lists, and `Get`, `Len` and with them
  `Discover` of the STUMP store on disk, then answer with what they have got so far, and at most log
  it. Failing reads of single keys are modelled: subtrees and fragments, `Get` of the lists, lookups
  of the index.
- *a BUMP that cannot be built*: `ProcessBUMPs` would return early if `GetAllProofs` returned an
  error, which it never does, and a worker goes on with the next token when the assembly
  returns one, which needs a fragment that cannot be decoded.
- *BadgerDB*: taken at its word: a transaction is atomic, a write that returned
  is there after the process is killed (not after a power failure, as writes
  are not synced), a batch is not atomic. Values that are damaged in another way
  than being cut short do not occur.
- *collisions* of SHA256d and of the XOR keys: two different inputs have
  different keys.
- *What surrounds a run* (memory limits and freeing, progress output, the
  table of `-requirements`, removal of a temporary directory) changes no state
  that is modelled.

## 6. Plan

All parts of the system that keep state or compute are modelled, and what TLC
checks of them is proved, but for liveness. What would add most next:

1. The modules of the earlier design behind one block: the lists, the index
   and the store fed by one producer, should the harness use them again.
2. Subtree sizes that are no power of two, once the harness refuses them or the
   extraction pads them: then `PowerOfTwoSubtrees` can go.
