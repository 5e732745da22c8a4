------------------------------ MODULE BumpPool ------------------------------
(***************************************************************************)
(* The worker pool of ProcessBUMPs: a channel with room for every token    *)
(* index, workers that receive from it until it is closed and empty, and   *)
(* the calling goroutine that sends every index, closes the channel and    *)
(* waits for the workers.  A worker reads the fragments of its token or,   *)
(* without a fragment store (jit), whole subtrees through a bounded cache  *)
(* the workers share.                                                      *)
(*                                                                         *)
(* The indices are sent in increasing order, so the channel holds exactly  *)
(* received..sent-1.                                                       *)
(*                                                                         *)
(* Left out are the error of GetAllProofs, which it never returns, and     *)
(* that of the assembly, after which the worker goes on with the next      *)
(* token: it needs a fragment that cannot be decoded.                      *)
(***************************************************************************)
EXTENDS Integers, FiniteSets, Sequences, Functions

CONSTANTS
  NumBusinesses,
  GoMaxProcs,    \* runtime.GOMAXPROCS(0)
  Subtrees,
  Spans,         \* Spans[t]: subtrees the winner's index lists for token t
  Present,       \* Present[t]: those of them whose fragment is stored
  Stored,        \* subtrees the winner's subtree store holds
  CacheSizes,    \* values of maxCacheEntries; 0 is no limit
  MaxReadErrors, \* bound: how many reads of what is stored fail
  DumpBumps      \* a dump file was asked for

Tokens == 0..(NumBusinesses - 1)

ASSUME PoolAssumption ==
  /\ NumBusinesses \in Nat
  /\ GoMaxProcs \in Nat \ {0}
  /\ IsFiniteSet(Subtrees)
  /\ Spans \in [Tokens -> SUBSET Subtrees]
  /\ Present \in [Tokens -> SUBSET Subtrees]
  /\ \A t \in Tokens : Present[t] \subseteq Spans[t]
  /\ Stored \subseteq Subtrees
  /\ CacheSizes \subseteq Nat
  /\ MaxReadErrors \in Nat
  /\ DumpBumps \in BOOLEAN

(* min(GOMAXPROCS, tokens), but never below one.                           *)
NumWorkers ==
  IF GoMaxProcs <= NumBusinesses THEN GoMaxProcs
  ELSE IF NumBusinesses < 1 THEN 1 ELSE NumBusinesses

Workers == 1..NumWorkers

NoToken == -1

NoSubtree == -1

VARIABLES
  sent,       \* indices sent to workCh
  closed,     \* workCh is closed
  received,   \* indices received from workCh
  returned,   \* wg.Wait() has returned
  jit,        \* there is no fragment store
  cacheSize,  \* maxSize of the cache
  entries,    \* subtrees in the cache
  order,      \* ... oldest put first
  loads,      \* history: loads[s] is how often s was read from the store
  state,      \* state[w]: "receive", "load", "fetch", "put", "record", "dump"
              \* or "exited"
  task,       \* task[w]: the token worker w works on
  toLoad,     \* toLoad[w]: subtrees w has still to load
  loaded,     \* loaded[w]: subtrees w has loaded, whole or their fragment
  fetching,   \* fetching[w]: the subtree w missed in the cache
  bump,       \* bump[t]: subtrees in the BUMP recorded for token t
  recorded,   \* tokens in the order of RecordBUMP
  dumped,     \* the token whose BUMP was dumped
  failed      \* <<t, s>>: what t needs of s is stored but could not be read

mainVars   == <<sent, closed, returned>>
modeVars   == <<jit, cacheSize>>
cacheVars  == <<entries, order, loads, fetching>>
workerVars == <<received, state, task, toLoad, loaded, failed>>
outVars    == <<bump, recorded, dumped>>
vars       == <<mainVars, modeVars, cacheVars, workerVars, outVars>>

(* What the store holds of what token t needs.                             *)
Available(t) == IF jit THEN Spans[t] \cap Stored ELSE Present[t]

Init ==
  /\ sent = 0
  /\ closed = FALSE
  /\ received = 0
  /\ returned = FALSE
  /\ state = [w \in Workers |-> "receive"]
  /\ task = [w \in Workers |-> NoToken]
  /\ toLoad = [w \in Workers |-> {}]
  /\ loaded = [w \in Workers |-> {}]
  /\ bump = [t \in Tokens |-> {}]
  /\ recorded = << >>
  /\ dumped = NoToken
  /\ failed = {}
  /\ jit \in BOOLEAN
  /\ cacheSize \in CacheSizes
  /\ entries = {}
  /\ order = << >>
  /\ loads = [s \in Subtrees |-> 0]
  /\ fetching = [w \in Workers |-> NoSubtree]

-----------------------------------------------------------------------------

Send ==
  /\ sent < NumBusinesses
  /\ sent' = sent + 1
  /\ UNCHANGED <<closed, returned, modeVars, cacheVars, workerVars, outVars>>

Close ==
  /\ sent = NumBusinesses
  /\ ~closed
  /\ closed' = TRUE
  /\ UNCHANGED <<sent, returned, modeVars, cacheVars, workerVars, outVars>>

(* A mutant of AllExited: the wait group is entered once, not per worker.  *)
AllExited_One == \E w \in Workers : state[w] = "exited"

AllExited == \A w \in Workers : state[w] = "exited"

Wait ==
  /\ closed
  /\ AllExited
  /\ ~returned
  /\ returned' = TRUE
  /\ UNCHANGED <<sent, closed, modeVars, cacheVars, workerVars, outVars>>

(* A mutant of Receive: two workers can be handed the same index, as if    *)
(* they shared a plain counter instead of a channel.                       *)
Receive_Stale(w) ==
  /\ state[w] = "receive"
  /\ received < sent
  /\ \E idx \in {received, received - 1} \ {NoToken} :
       /\ received' = idx + 1
       /\ task' = [task EXCEPT ![w] = idx]
       /\ state' = [state EXCEPT ![w] = IF Spans[idx] = {} THEN "receive" ELSE "load"]
       /\ toLoad' = [toLoad EXCEPT ![w] = Spans[idx]]
  /\ loaded' = [loaded EXCEPT ![w] = {}]
  /\ UNCHANGED <<mainVars, modeVars, cacheVars, outVars, failed>>

(* The next index; a token without txids is passed over.                   *)
Receive(w) ==
  /\ state[w] = "receive"
  /\ received < sent
  /\ received' = received + 1
  /\ task' = [task EXCEPT ![w] = received]
  /\ state' = [state EXCEPT ![w] = IF Spans[received] = {} THEN "receive" ELSE "load"]
  /\ toLoad' = [toLoad EXCEPT ![w] = Spans[received]]
  /\ loaded' = [loaded EXCEPT ![w] = {}]
  /\ UNCHANGED <<mainVars, modeVars, cacheVars, outVars, failed>>

Read(w, s) ==
  /\ s \in Available(task[w])
  /\ loaded' = [loaded EXCEPT ![w] = @ \cup {s}]
  /\ UNCHANGED failed

Missing(w, s) ==
  /\ s \notin Available(task[w])
  /\ UNCHANGED <<loaded, failed>>

ReadError(w, s) ==
  /\ s \in Available(task[w])
  /\ Cardinality(failed) < MaxReadErrors
  /\ failed' = failed \cup {<<task[w], s>>}
  /\ UNCHANGED loaded

(* The subtrees come in the order of a map; a fragment that is missing or  *)
(* cannot be read is left out.                                             *)
LoadFragment(w) ==
  /\ ~jit
  /\ state[w] = "load"
  /\ \E s \in toLoad[w] :
       /\ toLoad' = [toLoad EXCEPT ![w] = @ \ {s}]
       /\ Read(w, s) \/ Missing(w, s) \/ ReadError(w, s)
  /\ UNCHANGED <<mainVars, modeVars, cacheVars, received, state, task, outVars>>

(* loadSubtree looks in the cache, under the cache's lock.                 *)
CacheGet(w) ==
  /\ jit
  /\ state[w] = "load"
  /\ \E s \in toLoad[w] :
       /\ toLoad' = [toLoad EXCEPT ![w] = @ \ {s}]
       /\ IF s \in entries
            THEN /\ loaded' = [loaded EXCEPT ![w] = @ \cup {s}]
                 /\ UNCHANGED <<state, fetching>>
            ELSE /\ fetching' = [fetching EXCEPT ![w] = s]
                 /\ state' = [state EXCEPT ![w] = "fetch"]
                 /\ UNCHANGED loaded
  /\ UNCHANGED <<mainVars, modeVars, entries, order, loads, received, task, failed, outVars>>

(* The subtree is read with the lock released: other workers may be        *)
(* reading it too.  One that cannot be read is skipped and not cached.     *)
Fetch(w) ==
  /\ state[w] = "fetch"
  /\ LET s == fetching[w] IN
       \/ /\ Read(w, s)
          /\ loads' = [loads EXCEPT ![s] = @ + 1]
          /\ state' = [state EXCEPT ![w] = "put"]
          /\ UNCHANGED fetching
       \/ /\ Missing(w, s) \/ ReadError(w, s)
          /\ state' = [state EXCEPT ![w] = "load"]
          /\ fetching' = [fetching EXCEPT ![w] = NoSubtree]
          /\ UNCHANGED loads
  /\ UNCHANGED <<mainVars, modeVars, entries, order, received, task, toLoad, outVars>>

(* A mutant of Insert: the check that the entry is already there is gone.  *)
Insert_Twice(s) ==
  IF cacheSize > 0 /\ Cardinality(entries) >= cacheSize
    THEN /\ entries' = (entries \ {Head(order)}) \cup {s}
         /\ order' = Append(Tail(order), s)
    ELSE /\ entries' = entries \cup {s}
         /\ order' = Append(order, s)

(* A mutant of Insert: a full cache takes no entry.                        *)
Insert_OnlyIfRoom(s) ==
  IF s \in entries \/ Cardinality(entries) + 1 >= cacheSize
    THEN UNCHANGED <<entries, order>>
    ELSE /\ entries' = entries \cup {s}
         /\ order' = Append(order, s)

(* put: another worker may have put it meanwhile; a full cache evicts the  *)
(* entry put first, whether or not it was used since.                      *)
Insert(s) ==
  IF s \in entries
    THEN UNCHANGED <<entries, order>>
    ELSE IF cacheSize > 0 /\ Cardinality(entries) >= cacheSize
    THEN /\ entries' = (entries \ {Head(order)}) \cup {s}
         /\ order' = Append(Tail(order), s)
    ELSE /\ entries' = entries \cup {s}
         /\ order' = Append(order, s)

CachePut(w) ==
  /\ state[w] = "put"
  /\ Insert(fetching[w])
  /\ fetching' = [fetching EXCEPT ![w] = NoSubtree]
  /\ state' = [state EXCEPT ![w] = "load"]
  /\ UNCHANGED <<mainVars, modeVars, loads, received, task, toLoad, loaded, failed, outVars>>

(* Nothing loaded: on to the next token.  Otherwise the BUMP is assembled. *)
Assemble(w) ==
  /\ state[w] = "load"
  /\ toLoad[w] = {}
  /\ state' = [state EXCEPT ![w] = IF loaded[w] = {} THEN "receive" ELSE "record"]
  /\ UNCHANGED <<mainVars, modeVars, cacheVars, received, task, toLoad, loaded, failed, outVars>>

RecordBUMP(w) ==
  /\ state[w] = "record"
  /\ bump' = [bump EXCEPT ![task[w]] = loaded[w]]
  /\ recorded' = Append(recorded, task[w])
  /\ state' = [state EXCEPT ![w] = IF DumpBumps THEN "dump" ELSE "receive"]
  /\ UNCHANGED <<mainVars, modeVars, cacheVars, received, task, toLoad, loaded, failed, dumped>>

(* dumpOnce.Do                                                             *)
Dump(w) ==
  /\ state[w] = "dump"
  /\ dumped' = IF dumped = NoToken THEN task[w] ELSE dumped
  /\ state' = [state EXCEPT ![w] = "receive"]
  /\ UNCHANGED <<mainVars, modeVars, cacheVars, received, task, toLoad, loaded, failed, bump, recorded>>

(* A mutant of Exit: a closed channel ends the worker at once, as a select *)
(* on a second, "done" channel would, not when it is also empty.           *)
Exit_NotDrained(w) ==
  /\ state[w] = "receive"
  /\ closed
  /\ state' = [state EXCEPT ![w] = "exited"]
  /\ UNCHANGED <<mainVars, modeVars, cacheVars, received, task, toLoad, loaded, failed, outVars>>

(* The range over workCh ends.                                             *)
Exit(w) ==
  /\ state[w] = "receive"
  /\ received = sent
  /\ closed
  /\ state' = [state EXCEPT ![w] = "exited"]
  /\ UNCHANGED <<mainVars, modeVars, cacheVars, received, task, toLoad, loaded, failed, outVars>>

WorkerStep(w) ==
  \/ Receive(w) \/ LoadFragment(w) \/ CacheGet(w) \/ Fetch(w) \/ CachePut(w)
  \/ Assemble(w) \/ RecordBUMP(w) \/ Dump(w) \/ Exit(w)

MainStep == Send \/ Close \/ Wait

Next == MainStep \/ \E w \in Workers : WorkerStep(w)

(* The Go scheduler lets every runnable goroutine run.                     *)
Spec ==
  /\ Init
  /\ [][Next]_vars
  /\ WF_vars(MainStep)
  /\ \A w \in Workers : WF_vars(WorkerStep(w))

-----------------------------------------------------------------------------
TypeOK ==
  /\ sent \in 0..NumBusinesses
  /\ received \in 0..sent
  /\ closed \in BOOLEAN /\ returned \in BOOLEAN
  /\ state \in [Workers -> {"receive", "load", "fetch", "put", "record", "dump", "exited"}]
  /\ task \in [Workers -> Tokens \cup {NoToken}]
  /\ toLoad \in [Workers -> SUBSET Subtrees]
  /\ loaded \in [Workers -> SUBSET Subtrees]
  /\ bump \in [Tokens -> SUBSET Subtrees]
  /\ recorded \in Seq(Tokens)
  /\ dumped \in Tokens \cup {NoToken}
  /\ failed \subseteq Tokens \X Subtrees
  /\ jit \in BOOLEAN
  /\ cacheSize \in CacheSizes
  /\ entries \subseteq Subtrees
  /\ order \in Seq(Subtrees)
  /\ loads \in [Subtrees -> Nat]
  /\ fetching \in [Workers -> Subtrees \cup {NoSubtree}]

(* The tokens whose outcome is still open: not yet received, or in the     *)
(* hands of a worker that has not recorded them.                           *)
Holding(w) == state[w] \in {"load", "fetch", "put", "record"}

Open == received..(NumBusinesses - 1) \cup {task[w] : w \in {v \in Workers : Holding(v)}}

(* No two workers ever work on one token, and a token that is recorded is  *)
(* in nobody's hands: no token's BUMP is counted twice.                    *)
OneWorkerPerToken ==
  /\ \A v, w \in Workers : Holding(v) /\ Holding(w) /\ task[v] = task[w] => v = w
  /\ \A t \in Tokens : bump[t] # {} => t \notin Open

(* When ProcessBUMPs returns no worker is still busy and nothing has been  *)
(* skipped: the BUMP of every token holds exactly the subtrees that are    *)
(* stored and could be read, whichever worker it was given to and whatever *)
(* the cache evicted, and one BUMP is counted per token that has any.      *)
AllAssembled ==
  returned =>
    /\ \A t \in Tokens : bump[t] = {s \in Available(t) : <<t, s>> \notin failed}
    /\ Len(recorded) = Cardinality({t \in Tokens : bump[t] # {}})

(* The order of the cache lists its entries, each once, and no more than   *)
(* its size: an eviction always finds an entry to evict, and no entry is   *)
(* out of reach of eviction (bump.go put).                                 *)
CacheConsistent ==
  /\ Range(order) = entries
  /\ Len(order) = Cardinality(entries)
  /\ cacheSize > 0 => Cardinality(entries) <= cacheSize

(* Workers that miss together read a subtree once each, and a subtree that *)
(* is never evicted is read no more often than that: the cache bounds the  *)
(* reads of a block by workers times subtrees, however many the tokens.    *)
LoadsBounded ==
  cacheSize \notin 1..(Cardinality(Subtrees) - 1) =>
    \A s \in Subtrees : loads[s] <= NumWorkers

(* ProcessBUMPs implements TokenWork, its liveness included: it returns.   *)
Work == INSTANCE TokenWork WITH
  present <- [t \in Tokens |-> Available(t)],
  todo <- Open

ImplementsTokenWork == Work!WorkSpec
=============================================================================
