----------------------------- MODULE StumpStore -----------------------------
(***************************************************************************)
(* The stores of STUMP entries by XOR key: in memory (stump.Store and      *)
(* MemStumpStore) and on disk (DiskStumpStore), the registry of tokens,    *)
(* and Discover, which probes a store for every token and subtree root.    *)
(*                                                                         *)
(* On disk an entry lies under its key and a sequence number, which is     *)
(* drawn from a counter of the process when the batch is put together; the *)
(* batch is written later.                                                 *)
(*                                                                         *)
(* XORKey is taken to be injective: a key stands for its token and root.   *)
(***************************************************************************)
EXTENDS Integers, Sequences, FiniteSets

CONSTANTS
  Clients,       \* goroutines that append
  Tokens,
  Roots,         \* sequence: the subtree roots Discover is given
  Kinds,         \* "store" (stump.Store), "mem" (MemStumpStore), "disk"
  ChunkSize,     \* maxPerBatch of AppendMultiKeyBatch
  MaxBatch,      \* bound: entries in one call
  MaxEntries,    \* bound: entries in all calls
  MaxFailures,   \* bound: writes that fail
  MaxOpens       \* bound: processes that open the data directory

ASSUME StoreAssumption ==
  /\ Kinds \subseteq {"store", "mem", "disk"}
  /\ ChunkSize \in Nat \ {0} /\ MaxBatch \in Nat /\ MaxEntries \in Nat
  /\ MaxFailures \in Nat /\ MaxOpens \in Nat
  /\ Len(Roots) \in Nat /\ DOMAIN Roots = 1..Len(Roots)

XORKey(token, root) == <<token, root>>

Keys == {XORKey(t, Roots[i]) : t \in Tokens, i \in DOMAIN Roots}

VARIABLES
  kind,
  entries,   \* the map in memory: sequences of entries by key
  disk,      \* the entries on disk, by <<key, sequence number>>
  seq,       \* DiskStumpStore.seq
  todo,      \* todo[c]: entries of c's call without a number yet
  batch,     \* batch[c]: numbered entries in c's write batch
  written,   \* written[c]: how many of the batch are on disk
  chunk,     \* chunk[c]: at how many entries c writes the batch
  registry,  \* TokenRegistry.tokens
  probe,     \* where Discover is
  made,      \* history: made[e] is the key and the call of entry e
  calls,
  failures,
  opens

storeVars == <<kind, entries, disk, seq>>
batchVars == <<todo, batch, written, chunk>>
countVars == <<made, calls, failures, opens>>
vars      == <<storeVars, batchVars, registry, probe, countVars>>

NoProbe == [root |-> 0]

Busy(c) == todo[c] # << >> \/ batch[c] # << >>

(* The entries of a key are scanned in the order of their numbers.         *)
DiskGet(key) ==
  LET at     == {s \in 1..seq + MaxEntries : <<key, s>> \in DOMAIN disk}
      nth(i) == CHOOSE s \in at : Cardinality({r \in at : r < s}) = i - 1
  IN [i \in 1..Cardinality(at) |-> disk[<<key, nth(i)>>]]

Get(key) ==
  IF kind = "disk" THEN DiskGet(key)
  ELSE IF key \in DOMAIN entries THEN entries[key] ELSE << >>

Len_(k) ==
  IF k = "disk" THEN Cardinality({ks[1] : ks \in DOMAIN disk})
  ELSE Cardinality(DOMAIN entries)

Init ==
  /\ kind \in Kinds
  /\ entries = << >>
  /\ disk = << >>
  /\ seq = 0
  /\ todo = [c \in Clients |-> << >>]
  /\ batch = [c \in Clients |-> << >>]
  /\ written = [c \in Clients |-> 0]
  /\ chunk = [c \in Clients |-> ChunkSize]
  /\ registry = << >>
  /\ probe = NoProbe
  /\ made = << >>
  /\ calls = 0
  /\ failures = 0
  /\ opens = 1

-----------------------------------------------------------------------------
(* The entries of one call, new ones of the given keys.                    *)
Make(keys) ==
  /\ Len(made) + Len(keys) <= MaxEntries
  /\ made' = made \o [i \in 1..Len(keys) |-> [key |-> keys[i], call |-> calls + 1]]
  /\ calls' = IF keys = << >> THEN calls ELSE calls + 1

NewEntries(keys) == [i \in 1..Len(keys) |-> Len(made) + i]

BeginBatch(c, keys, size) ==
  /\ kind = "disk" /\ ~Busy(c)
  /\ Make(keys)
  /\ todo' = [todo EXCEPT ![c] = NewEntries(keys)]
  /\ chunk' = [chunk EXCEPT ![c] = size]
  /\ UNCHANGED <<storeVars, batch, written, registry, probe, failures, opens>>

(* Append and AppendBatch in memory, under the mutex.  An empty batch      *)
(* returns early in Store; MemStumpStore makes an empty slice for its key. *)
MemAppend(key, n) ==
  /\ kind # "disk"
  /\ LET keys == [i \in 1..n |-> key] IN
       /\ Make(keys)
       /\ entries' = IF n = 0 /\ kind = "store" THEN entries
                     ELSE [k \in DOMAIN entries \cup {key} |->
                             IF k = key THEN Get(key) \o NewEntries(keys) ELSE entries[k]]
  /\ UNCHANGED <<kind, disk, seq, batchVars, registry, probe, failures, opens>>

(* Append and AppendBatch on disk: one batch, of one entry or more.        *)
AppendBatch(c) ==
  \E key \in Keys, n \in 1..MaxBatch : BeginBatch(c, [i \in 1..n |-> key], n)

(* The keys of the map come in any order, the entries of a key in theirs.  *)
(* A map of one key is written in chunks too.                              *)
AppendMultiKeyBatch(c) ==
  \E n \in 1..MaxBatch : \E keys \in [1..n -> Keys] :
    /\ \A i, j, k \in 1..n : i < j /\ j < k /\ keys[i] = keys[k] => keys[i] = keys[j]
    /\ BeginBatch(c, keys, ChunkSize)

(* A mutant of Number: the counter is read and written, not added to.      *)
Number_Stale(c) ==
  /\ todo[c] # << >> /\ Len(batch[c]) < chunk[c] /\ written[c] = 0
  /\ \E s \in {seq, seq - 1} :
       /\ s >= 0
       /\ seq' = s + 1
       /\ batch' = [batch EXCEPT ![c] = Append(@, [entry |-> Head(todo[c]), seq |-> s + 1])]
  /\ todo' = [todo EXCEPT ![c] = Tail(@)]
  /\ UNCHANGED <<kind, entries, disk, written, chunk, registry, probe, countVars>>

(* The next entry draws a number and goes into the write batch.            *)
Number(c) ==
  /\ todo[c] # << >> /\ Len(batch[c]) < chunk[c] /\ written[c] = 0
  /\ seq' = seq + 1
  /\ batch' = [batch EXCEPT ![c] = Append(@, [entry |-> Head(todo[c]), seq |-> seq + 1])]
  /\ todo' = [todo EXCEPT ![c] = Tail(@)]
  /\ UNCHANGED <<kind, entries, disk, written, chunk, registry, probe, countVars>>

(* The batch is written once the chunk is full or nothing is left ...      *)
Ready(c) == batch[c] # << >> /\ (Len(batch[c]) = chunk[c] \/ todo[c] = << >>)

(* A mutant of Write: the call ends with its first chunk.                  *)
Write_FirstChunk(c) ==
  /\ Ready(c)
  /\ LET p == batch[c][written[c] + 1]
         k == <<made[p.entry].key, p.seq>>
     IN disk' = [ks \in DOMAIN disk \cup {k} |-> IF ks = k THEN p.entry ELSE disk[ks]]
  /\ IF written[c] + 1 = Len(batch[c])
       THEN /\ batch' = [batch EXCEPT ![c] = << >>]
            /\ written' = [written EXCEPT ![c] = 0]
            /\ todo' = [todo EXCEPT ![c] = << >>]
       ELSE written' = [written EXCEPT ![c] = @ + 1] /\ UNCHANGED <<batch, todo>>
  /\ UNCHANGED <<kind, entries, seq, chunk, registry, probe, countVars>>

Write(c) ==
  /\ Ready(c)
  /\ LET p == batch[c][written[c] + 1]
         k == <<made[p.entry].key, p.seq>>
     IN disk' = [ks \in DOMAIN disk \cup {k} |-> IF ks = k THEN p.entry ELSE disk[ks]]
  /\ IF written[c] + 1 = Len(batch[c])
       THEN /\ batch' = [batch EXCEPT ![c] = << >>]
            /\ written' = [written EXCEPT ![c] = 0]
       ELSE written' = [written EXCEPT ![c] = @ + 1] /\ UNCHANGED batch
  /\ UNCHANGED <<kind, entries, seq, todo, chunk, registry, probe, countVars>>

Fails == failures < MaxFailures /\ failures' = failures + 1

(* A mutant of WriteFails: the next chunk is tried all the same.           *)
WriteFails_GoOn(c) ==
  /\ Ready(c) /\ Fails
  /\ batch' = [batch EXCEPT ![c] = << >>]
  /\ written' = [written EXCEPT ![c] = 0]
  /\ UNCHANGED <<storeVars, todo, chunk, registry, probe, made, calls, opens>>

(* ... or fails, which ends the call; the chunks after it are not tried.   *)
WriteFails(c) ==
  /\ Ready(c) /\ Fails
  /\ batch' = [batch EXCEPT ![c] = << >>]
  /\ written' = [written EXCEPT ![c] = 0]
  /\ todo' = [todo EXCEPT ![c] = << >>]
  /\ UNCHANGED <<storeVars, chunk, registry, probe, made, calls, opens>>

-----------------------------------------------------------------------------
Register(token) ==
  /\ \A i \in DOMAIN registry : registry[i] # token
  /\ registry' = Append(registry, token)
  /\ UNCHANGED <<storeVars, batchVars, probe, countVars>>

(* Discover begins with a snapshot of the tokens.                          *)
DiscoverBegin ==
  /\ probe = NoProbe /\ registry # << >> /\ Roots # << >>
  /\ probe' = [root |-> 1, token |-> 1, tokens |-> registry,
               result |-> [t \in {registry[i] : i \in DOMAIN registry} |-> << >>],
               floor  |-> [k \in Keys |-> Get(k)]]
  /\ UNCHANGED <<storeVars, batchVars, registry, countVars>>

(* A mutant of DiscoverProbe: the loop over the tokens is not restarted    *)
(* for the second root.                                                    *)
DiscoverProbe_NoRestart ==
  /\ probe.root \in 1..Len(Roots)
  /\ LET t == probe.tokens[probe.token] IN
       probe' = [probe EXCEPT
                   !.result[t] = @ \o Get(XORKey(t, Roots[probe.root])),
                   !.token = IF @ < Len(probe.tokens) THEN @ + 1 ELSE @,
                   !.root  = IF probe.token < Len(probe.tokens) THEN @ ELSE @ + 1]
  /\ UNCHANGED <<storeVars, batchVars, registry, countVars>>

(* One probe of the store: all tokens for the first root, then the next.   *)
DiscoverProbe ==
  /\ probe.root \in 1..Len(Roots)
  /\ LET t == probe.tokens[probe.token] IN
       probe' = [probe EXCEPT
                   !.result[t] = @ \o Get(XORKey(t, Roots[probe.root])),
                   !.token = IF @ < Len(probe.tokens) THEN @ + 1 ELSE 1,
                   !.root  = IF probe.token < Len(probe.tokens) THEN @ ELSE @ + 1]
  /\ UNCHANGED <<storeVars, batchVars, registry, countVars>>

Discovered == probe.root > Len(Roots)

DiscoverReturn ==
  /\ Discovered
  /\ probe' = NoProbe
  /\ UNCHANGED <<storeVars, batchVars, registry, countVars>>

(* The process ends or is killed; the next one starts counting at zero.    *)
Reopen ==
  /\ opens < MaxOpens
  /\ opens' = opens + 1
  /\ entries' = << >>
  /\ seq' = 0
  /\ todo' = [c \in Clients |-> << >>]
  /\ batch' = [c \in Clients |-> << >>]
  /\ written' = [c \in Clients |-> 0]
  /\ registry' = << >>
  /\ probe' = NoProbe
  /\ UNCHANGED <<kind, disk, chunk, made, calls, failures>>

Next ==
  \/ \E key \in Keys, n \in 0..MaxBatch : MemAppend(key, n)
  \/ \E c \in Clients :
       \/ AppendBatch(c) \/ AppendMultiKeyBatch(c)
       \/ Number(c) \/ Write(c) \/ WriteFails(c)
  \/ \E token \in Tokens : Register(token)
  \/ DiscoverBegin \/ DiscoverProbe \/ DiscoverReturn
  \/ Reopen

Spec == Init /\ [][Next]_vars

-----------------------------------------------------------------------------
Stored == {disk[ks] : ks \in DOMAIN disk}

(* Every element of s occurs in t once, and in the order of s.             *)
Subsequence(s, t) ==
  \E at \in [DOMAIN s -> DOMAIN t] :
    /\ \A i, j \in DOMAIN s : i < j => at[i] < at[j]
    /\ \A i \in DOMAIN s, m \in DOMAIN t : t[m] = s[i] <=> m = at[i]

(* Entries of one key keep the order in which they drew their numbers, and *)
(* while one process has the directory none is ever lost, moved or stored  *)
(* twice: what a Get returned is a subsequence of what every later one     *)
(* returns, in memory even a prefix.  A second process starts counting     *)
(* anew and may overwrite them.                                            *)
NothingLost ==
  [][opens' = 1 =>
       \A k \in Keys :
         /\ Subsequence(Get(k), Get(k)')
         /\ kind # "disk" => SubSeq(Get(k)', 1, Len(Get(k))) = Get(k)]_vars

(* Once no call is under way and none has failed, the first process has    *)
(* every entry appended, under its own key and no other, and Len counts    *)
(* the keys that have one; only MemStumpStore also counts a key that was   *)
(* given an empty batch.                                                   *)
AllStored ==
  opens = 1 /\ failures = 0 /\ (\A c \in Clients : ~Busy(c)) =>
    /\ \A k \in Keys :
         {Get(k)[i] : i \in DOMAIN Get(k)} = {e \in DOMAIN made : made[e].key = k}
    /\ kind # "mem" => Len_(kind) = Cardinality({k \in Keys : Get(k) # << >>})

(* A call that fails, or is cut short by a kill, leaves a prefix of its    *)
(* entries: none is on disk without those before it.                       *)
PrefixWritten ==
  opens = 1 /\ kind = "disk" =>
    \A e \in Stored, f \in DOMAIN made :
      f < e /\ made[f].call = made[e].call => f \in Stored

(* Discover gives every token registered before it began its entries root  *)
(* by root: of each root those that were stored when it began, and none    *)
(* but those now stored under the token and the root, in their order and   *)
(* once each, even while others append.                                    *)
DiscoverComplete ==
  Discovered /\ opens = 1 =>
    \A i \in DOMAIN probe.tokens :
      LET token  == probe.tokens[i]
          result == probe.result[token]
      IN \E cut \in [0..Len(Roots) -> 0..Len(result)] :
           /\ cut[0] = 0 /\ cut[Len(Roots)] = Len(result)
           /\ \A r \in DOMAIN Roots :
                LET key    == XORKey(token, Roots[r])
                    ofRoot == SubSeq(result, cut[r - 1] + 1, cut[r])
                IN /\ cut[r - 1] <= cut[r]
                   /\ Subsequence(probe.floor[key], ofRoot)
                   /\ Subsequence(ofRoot, Get(key))
=============================================================================
