--------------------------- MODULE BumpPoolProofs ---------------------------
(***************************************************************************)
(* Proofs about the worker pool, for any number of tokens, workers and     *)
(* subtrees, any cache size and any number of reads that fail.             *)
(***************************************************************************)
EXTENDS BumpPoolInv, FiniteSetTheorems, SequenceTheorems, TLAPS

USE DEF NoToken

(* The tokens are 0..NumBusinesses-1, and a worker always exists.          *)
LEMMA Constants_ ==
  /\ IsFiniteSet(Tokens)
  /\ \A t : t \in Tokens <=> t \in Nat /\ t < NumBusinesses
  /\ NoToken \notin Tokens
  /\ Workers # {}
<1>1. IsFiniteSet(Tokens)
  BY PoolAssumption, FS_Interval DEF Tokens
<1>2. 1 \in Workers
  BY PoolAssumption DEF Workers, NumWorkers
<1> QED BY <1>1, <1>2, PoolAssumption DEF Tokens

(* What a worker may have read is among the subtrees of the block.         *)
LEMMA SpansType ==
  ASSUME NEW t \in Tokens
  PROVE  Spans[t] \subseteq Subtrees /\ Available(t) \subseteq Spans[t]
BY PoolAssumption DEF Available

(* Adding to, or taking from, one worker's set.                            *)
LEMMA SetChange ==
  ASSUME NEW f \in [Workers -> SUBSET Subtrees], NEW w \in Workers, NEW s \in Subtrees
  PROVE  /\ [f EXCEPT ![w] = @ \cup {s}] \in [Workers -> SUBSET Subtrees]
         /\ [f EXCEPT ![w] = @ \ {s}] \in [Workers -> SUBSET Subtrees]
OBVIOUS

(* Every step keeps the types.                                             *)
LEMMA TypeStep ==
  ASSUME TypeOK, PInv, [Next]_vars
  PROVE  TypeOK'
<1> USE DEF TypeOK, mainVars, modeVars, cacheVars, workerVars, outVars
<1>1. CASE MainStep
  <2>1. CASE Send
    <3>1. sent' \in 0..NumBusinesses /\ received \in 0..sent'
      BY <2>1, PoolAssumption DEF Send
    <3> QED BY <2>1, <3>1 DEF Send
  <2>2. CASE Close
    BY <2>2 DEF Close
  <2>3. CASE Wait
    BY <2>3 DEF Wait
  <2> QED BY <1>1, <2>1, <2>2, <2>3 DEF MainStep
<1>2. ASSUME NEW w \in Workers, Receive(w) PROVE TypeOK'
  <2>0. received \in Tokens
    BY <1>2, PoolAssumption DEF Receive, Tokens
  <2>1. received \in Tokens /\ Spans[received] \subseteq Subtrees
    BY <2>0, SpansType
  <2>2. received' \in 0..sent
    BY <1>2 DEF Receive
  <2> QED BY <1>2, <2>1, <2>2 DEF Receive
<1>3. ASSUME NEW w \in Workers, LoadFragment(w) \/ CacheGet(w) \/ Fetch(w) PROVE TypeOK'
  <2>1. task[w] \in Tokens
    BY <1>3, Constants_ DEF LoadFragment, CacheGet, Fetch, PInv, TaskInv, Busy
  <2>2. Available(task[w]) \subseteq Subtrees
    BY <2>1, SpansType
  <2>3. CASE LoadFragment(w)
    BY <2>1, <2>2, <2>3 DEF LoadFragment, Read, Missing, ReadError
  <2>4. CASE CacheGet(w)
    <3>1. PICK s \in toLoad[w] :
            /\ toLoad' = [toLoad EXCEPT ![w] = @ \ {s}]
            /\ IF s \in entries
                 THEN /\ loaded' = [loaded EXCEPT ![w] = @ \cup {s}]
                      /\ UNCHANGED <<state, fetching>>
                 ELSE /\ fetching' = [fetching EXCEPT ![w] = s]
                      /\ state' = [state EXCEPT ![w] = "fetch"]
                      /\ UNCHANGED loaded
      BY <2>4 DEF CacheGet
    <3>2. s \in Subtrees
      OBVIOUS
    <3>3. UNCHANGED <<mainVars, modeVars, entries, order, loads, received, task, failed, outVars>>
      BY <2>4 DEF CacheGet
    <3>4. CASE s \in entries
      <4>1. toLoad' \in [Workers -> SUBSET Subtrees] /\ loaded' \in [Workers -> SUBSET Subtrees]
        BY <3>1, <3>2, <3>4, SetChange
      <4> QED BY <3>1, <3>3, <3>4, <4>1
    <3>5. CASE s \notin entries
      <4>1. toLoad' \in [Workers -> SUBSET Subtrees]
        BY <3>1, <3>2, SetChange
      <4>2. fetching' \in [Workers -> Subtrees \cup {NoSubtree}]
        BY <3>1, <3>2, <3>5
      <4>3. state' \in [Workers -> {"receive", "load", "fetch", "put", "record", "dump", "exited"}]
        BY <3>1, <3>5
      <4>4. loaded' = loaded
        BY <3>1, <3>5
      <4> QED BY <3>3, <4>1, <4>2, <4>3, <4>4
    <3> QED BY <3>4, <3>5
  <2>5. CASE Fetch(w)
    <3>1. fetching[w] \in Subtrees \/ UNCHANGED <<loaded, failed, loads>>
      <4>1. fetching[w] \in Available(task[w]) \/ UNCHANGED <<loaded, failed, loads>>
        <5> HIDE DEF TypeOK
        <5> QED BY <2>5 DEF Fetch, Read, Missing, ReadError
      <4> QED BY <2>2, <4>1
    <3>2. loaded' \in [Workers -> SUBSET Subtrees] /\ failed' \subseteq Tokens \X Subtrees
      <4>1. \/ UNCHANGED failed
            \/ fetching[w] \in Subtrees /\ failed' = failed \cup {<<task[w], fetching[w]>>}
        BY <2>2, <2>5 DEF Fetch, Read, Missing, ReadError
      <4>2. \/ UNCHANGED loaded
            \/ fetching[w] \in Subtrees /\ loaded' = [loaded EXCEPT ![w] = @ \cup {fetching[w]}]
        BY <2>2, <2>5 DEF Fetch, Read, Missing, ReadError
      <4>3. failed' \subseteq Tokens \X Subtrees
        BY <2>1, <4>1
      <4>4. loaded' \in [Workers -> SUBSET Subtrees]
        <5>1. loaded \in [Workers -> SUBSET Subtrees]
          OBVIOUS
        <5> HIDE DEF TypeOK
        <5> QED BY <4>2, <5>1, SetChange
      <4> QED BY <4>3, <4>4
    <3>3. loads' \in [Subtrees -> Nat]
      <4>1. \/ UNCHANGED loads
            \/ loads' = [loads EXCEPT ![fetching[w]] = @ + 1]
        BY <2>5 DEF Fetch
      <4>2. loads \in [Subtrees -> Nat]
        OBVIOUS
      <4> HIDE DEF TypeOK
      <4> QED BY <4>1, <4>2
    <3>4. state' \in [Workers -> {"receive", "load", "fetch", "put", "record", "dump", "exited"}]
          /\ fetching' \in [Workers -> Subtrees \cup {NoSubtree}]
      BY <2>5 DEF Fetch
    <3> QED BY <2>5, <3>2, <3>3, <3>4 DEF Fetch
  <2> QED BY <1>3, <2>3, <2>4, <2>5
<1>4. ASSUME NEW w \in Workers, CachePut(w) PROVE TypeOK'
  <2> DEFINE s == fetching[w]
  <2>1. s \in Subtrees
    BY <1>4, PoolAssumption DEF CachePut, PInv, FetchInv
  <2>2. entries' \subseteq Subtrees
    BY <1>4, <2>1 DEF CachePut, Insert
  <2>3. order' \in Seq(Subtrees)
    <3>1. CASE order' = order
      BY <3>1
    <3>2. CASE order' = Append(order, s)
      BY <2>1, <3>2
    <3>3. CASE order' = Append(Tail(order), s) /\ cacheSize > 0 /\ Cardinality(entries) >= cacheSize
      <4>1. order # << >>
        BY <3>3, PoolAssumption DEF PInv, CacheInv, CacheConsistent
      <4>2. Tail(order) \in Seq(Subtrees)
        BY <4>1, HeadTailProperties
      <4> QED BY <2>1, <3>3, <4>2
    <3> QED BY <1>4, <3>1, <3>2, <3>3 DEF CachePut, Insert
  <2> QED BY <1>4, <2>2, <2>3 DEF CachePut
<1>5. ASSUME NEW w \in Workers, Assemble(w) \/ Dump(w) \/ Exit(w) PROVE TypeOK'
  BY <1>5 DEF Assemble, Dump, Exit
<1>6. ASSUME NEW w \in Workers, RecordBUMP(w) PROVE TypeOK'
  <2>1. task[w] \in Tokens
    BY <1>6, Constants_ DEF RecordBUMP, PInv, TaskInv, Busy
  <2> QED BY <1>6, <2>1 DEF RecordBUMP
<1>7. CASE UNCHANGED vars
  BY <1>7 DEF vars
<1> QED BY <1>1, <1>2, <1>3, <1>4, <1>5, <1>6, <1>7 DEF Next, WorkerStep

(***************************************************************************)
(* The four steps of a worker that load a subtree.                         *)
(***************************************************************************)
Loading(w) == LoadFragment(w) \/ CacheGet(w) \/ Fetch(w) \/ CachePut(w)

(* They leave alone everything that is not about what w has loaded.        *)
LEMMA LoadingFrame ==
  ASSUME TypeOK, NEW w \in Workers, Loading(w)
  PROVE  /\ state[w] \in {"load", "fetch", "put"} /\ state'[w] \in {"load", "fetch", "put"}
         /\ UNCHANGED <<mainVars, modeVars, received, task, outVars>>
         /\ \A v \in Workers :
              v # w => /\ state'[v] = state[v] /\ toLoad'[v] = toLoad[v]
                       /\ loaded'[v] = loaded[v] /\ fetching'[v] = fetching[v]
<1> USE DEF TypeOK
<1>1. CASE LoadFragment(w)
  BY <1>1 DEF LoadFragment, Read, Missing, ReadError, cacheVars
<1>2. CASE CacheGet(w)
  BY <1>2 DEF CacheGet
<1>3. CASE Fetch(w)
  BY <1>3 DEF Fetch, Read, Missing, ReadError
<1>4. CASE CachePut(w)
  BY <1>4 DEF CachePut
<1> QED BY <1>1, <1>2, <1>3, <1>4 DEF Loading

(* Each of them accounts for one subtree that was pending, as read,        *)
(* missing or failed, or only moves it between the cache and w.            *)
LEMMA LoadingCases ==
  ASSUME TypeOK, PInv, NEW w \in Workers, Loading(w)
  PROVE  \/ \E s \in Pend(w) :
              /\ Pend(w)' = Pend(w) \ {s}
              /\ \/ /\ s \in Available(task[w])
                    /\ loaded'[w] = loaded[w] \cup {s} /\ UNCHANGED failed
                 \/ /\ s \notin Available(task[w])
                    /\ loaded'[w] = loaded[w] /\ UNCHANGED failed
                 \/ /\ s \in Available(task[w])
                    /\ loaded'[w] = loaded[w] /\ failed' = failed \cup {<<task[w], s>>}
         \/ Pend(w)' = Pend(w) /\ loaded'[w] = loaded[w] /\ UNCHANGED failed
<1> USE DEF TypeOK
<1>0. task[w] \in Tokens /\ toLoad[w] \subseteq Spans[task[w]]
  <2>1. state[w] \in {"load", "fetch", "put"}
    BY LoadingFrame
  <2>2. task[w] \in 0..(received - 1) /\ toLoad[w] \subseteq Spans[task[w]]
    BY <2>1 DEF PInv, TaskInv, Busy, LoadInv, Holding
  <2> QED BY <2>2, PoolAssumption DEF Tokens
<1>1. CASE LoadFragment(w)
  <2>1. PICK s \in toLoad[w] :
          toLoad' = [toLoad EXCEPT ![w] = @ \ {s}] /\ (Read(w, s) \/ Missing(w, s) \/ ReadError(w, s))
    BY <1>1 DEF LoadFragment
  <2>2. state'[w] = "load" /\ state[w] = "load" /\ toLoad'[w] = toLoad[w] \ {s}
    BY <1>1, <2>1 DEF LoadFragment
  <2>3. s \in Pend(w) /\ Pend(w)' = Pend(w) \ {s}
    BY <2>2 DEF Pend
  <2> QED BY <2>1, <2>3 DEF Read, Missing, ReadError
<1>2. CASE CacheGet(w)
  <2>1. PICK s \in toLoad[w] :
          /\ toLoad' = [toLoad EXCEPT ![w] = @ \ {s}]
          /\ IF s \in entries
               THEN /\ loaded' = [loaded EXCEPT ![w] = @ \cup {s}]
                    /\ UNCHANGED <<state, fetching>>
               ELSE /\ fetching' = [fetching EXCEPT ![w] = s]
                    /\ state' = [state EXCEPT ![w] = "fetch"]
                    /\ UNCHANGED loaded
    BY <1>2 DEF CacheGet
  <2>2. state[w] = "load" /\ toLoad'[w] = toLoad[w] \ {s} /\ UNCHANGED failed /\ jit
    BY <1>2, <2>1 DEF CacheGet
  <2>3. CASE s \in entries
    <3>1. s \in Available(task[w])
      BY <1>0, <2>2, <2>3 DEF Available, PInv, CacheInv
    <3>2. s \in Pend(w) /\ Pend(w)' = Pend(w) \ {s}
      BY <2>1, <2>2, <2>3 DEF Pend
    <3>3. loaded'[w] = loaded[w] \cup {s}
      BY <2>1, <2>3
    <3> QED BY <2>2, <3>1, <3>2, <3>3
  <2>4. CASE s \notin entries
    <3>1. state'[w] = "fetch" /\ fetching'[w] = s /\ loaded'[w] = loaded[w]
      BY <2>1, <2>4
    <3>2. Pend(w)' = Pend(w)
      BY <2>2, <3>1 DEF Pend
    <3> QED BY <2>2, <3>1, <3>2
  <2> QED BY <2>3, <2>4
<1>3. CASE Fetch(w)
  <2>1. fetching[w] \notin toLoad[w] /\ fetching[w] \in Pend(w)
    BY <1>3 DEF Fetch, PInv, FetchInv, Pend
  <2>2. state[w] = "fetch" /\ state'[w] \in {"load", "put"} /\ toLoad'[w] = toLoad[w]
    BY <1>3 DEF Fetch
  <2>3. Pend(w)' = Pend(w) \ {fetching[w]}
    BY <2>1, <2>2 DEF Pend
  <2>4. Read(w, fetching[w]) \/ Missing(w, fetching[w]) \/ ReadError(w, fetching[w])
    BY <1>3 DEF Fetch
  <2> QED BY <2>1, <2>3, <2>4 DEF Read, Missing, ReadError
<1>4. CASE CachePut(w)
  <2>1. state[w] = "put" /\ state'[w] = "load" /\ UNCHANGED <<toLoad, loaded, failed>>
    BY <1>4 DEF CachePut
  <2> QED BY <2>1 DEF Pend
<1> QED BY <1>1, <1>2, <1>3, <1>4 DEF Loading

(* put keeps the order in step with the entries, and the size bounded.     *)
LEMMA CachePutInv ==
  ASSUME TypeOK, PInv, NEW w \in Workers, CachePut(w)
  PROVE  CacheInv'
<1> DEFINE s == fetching[w]
<1>1. /\ s \in Stored /\ s \in Subtrees /\ Insert(s) /\ UNCHANGED cacheSize
      /\ order \in Seq(Subtrees) /\ cacheSize \in Nat
  BY PoolAssumption DEF CachePut, PInv, FetchInv, modeVars, TypeOK
<1>2. /\ IsFiniteSet(entries) /\ entries \subseteq Stored /\ Cardinality(entries) \in Nat
      /\ \A i, j \in 1..Len(order) : order[i] = order[j] => i = j
      /\ Len(order) = Cardinality(entries) /\ Range(order) = entries
      /\ cacheSize > 0 => Cardinality(entries) <= cacheSize
  BY FS_CardinalityType DEF PInv, CacheInv, CacheConsistent
<1>3. \A e : e \in entries <=> \E i \in 1..Len(order) : order[i] = e
  BY <1>1, <1>2 DEF Range
<1>4. CASE s \in entries
  BY <1>1, <1>2, <1>4 DEF Insert, CacheInv, CacheConsistent
<1>5. CASE s \notin entries /\ ~(cacheSize > 0 /\ Cardinality(entries) >= cacheSize)
  <2>1. entries' = entries \cup {s} /\ order' = Append(order, s)
    BY <1>1, <1>5 DEF Insert
  <2>2. IsFiniteSet(entries') /\ Cardinality(entries') = Cardinality(entries) + 1
    BY <1>2, <1>5, <2>1, FS_AddElement
  <2>3. /\ Len(order') = Len(order) + 1 /\ order' \in Seq(Subtrees)
        /\ \A i \in 1..Len(order') : order'[i] = IF i = Len(order) + 1 THEN s ELSE order[i]
    BY <1>1, <2>1
  <2>4. \A i, j \in 1..Len(order') : order'[i] = order'[j] => i = j
    BY <1>1, <1>2, <1>3, <1>5, <2>3
  <2>5. Range(order') = entries'
    <3>1. \A e : e \in entries' <=> \E i \in 1..Len(order') : order'[i] = e
      BY <1>1, <1>3, <2>1, <2>3
    <3> QED BY <2>3, <3>1 DEF Range
  <2> QED BY <1>1, <1>2, <1>5, <2>1, <2>2, <2>3, <2>4, <2>5 DEF CacheInv, CacheConsistent
<1>6. CASE s \notin entries /\ cacheSize > 0 /\ Cardinality(entries) >= cacheSize
  <2>1. entries' = (entries \ {Head(order)}) \cup {s} /\ order' = Append(Tail(order), s)
    BY <1>1, <1>6 DEF Insert
  <2>2. order # << >> /\ Head(order) = order[1] /\ order[1] \in entries /\ Len(order) \in Nat \ {0}
    BY <1>1, <1>2, <1>3, <1>6
  <2>3. IsFiniteSet(entries') /\ Cardinality(entries') = Cardinality(entries)
    <3>1. /\ IsFiniteSet(entries \ {order[1]})
          /\ Cardinality(entries \ {order[1]}) = Cardinality(entries) - 1
      BY <1>2, <2>2, FS_RemoveElement
    <3>2. /\ IsFiniteSet((entries \ {order[1]}) \cup {s})
          /\ Cardinality((entries \ {order[1]}) \cup {s}) = Cardinality(entries \ {order[1]}) + 1
      BY <1>6, <3>1, FS_AddElement
    <3> QED BY <1>2, <2>1, <2>2, <3>1, <3>2
  <2>4. /\ Tail(order) \in Seq(Subtrees) /\ Len(Tail(order)) = Len(order) - 1
        /\ \A i \in 1..(Len(order) - 1) : Tail(order)[i] = order[i + 1]
    BY <1>1, <2>2, HeadTailProperties
  <2>5. /\ Len(order') = Len(order) /\ order' \in Seq(Subtrees)
        /\ \A i \in 1..Len(order') : order'[i] = IF i = Len(order) THEN s ELSE order[i + 1]
    <3>1. /\ order' \in Seq(Subtrees) /\ Len(order') = Len(Tail(order)) + 1
          /\ \A i \in 1..Len(Tail(order)) : order'[i] = Tail(order)[i]
          /\ order'[Len(Tail(order)) + 1] = s
      BY <1>1, <2>1, <2>4, AppendProperties
    <3>2. Len(order') = Len(order)
      BY <2>2, <2>4, <3>1
    <3>3. ASSUME NEW i \in 1..Len(order')
          PROVE  order'[i] = IF i = Len(order) THEN s ELSE order[i + 1]
      <4>1. CASE i = Len(order)
        <5>1. Len(Tail(order)) + 1 = Len(order)
          BY <2>2, <2>4
        <5>2. order'[Len(order)] = s
          BY <3>1, <5>1, Zenon
        <5> QED BY <4>1, <5>2
      <4>2. CASE i # Len(order)
        <5>1. i \in 1..Len(Tail(order)) /\ i \in 1..(Len(order) - 1)
          <6>1. Len(order) \in Nat /\ i \in 1..Len(order)
            BY <2>2, <3>2, <3>3
          <6>2. i \in 1..(Len(order) - 1)
            BY <4>2, <6>1
          <6> QED BY <2>4, <6>2
        <5> QED BY <2>4, <3>1, <4>2, <5>1
      <4> QED BY <4>1, <4>2
    <3> QED BY <3>1, <3>2, <3>3
  <2>6. \A i, j \in 1..Len(order') : order'[i] = order'[j] => i = j
    <3>1. \A i \in 1..(Len(order) - 1) : order[i + 1] \in entries /\ order[i + 1] # s
      BY <1>3, <1>6, <2>2
    <3> QED BY <1>2, <2>2, <2>5, <3>1
  <2>7. Range(order') = entries'
    <3>1. ASSUME NEW e \in entries' PROVE \E i \in 1..Len(order') : order'[i] = e
      <4>1. CASE e = s
        BY <2>2, <2>5, <4>1
      <4>2. CASE e # s
        <5>1. PICK i \in 1..Len(order) : order[i] = e /\ i # 1
          BY <1>3, <2>1, <2>2, <4>2
        <5>2. i - 1 \in 1..Len(order') /\ order'[i - 1] = e
          BY <2>2, <2>5, <5>1
        <5> QED BY <5>2
      <4> QED BY <4>1, <4>2
    <3>2. ASSUME NEW i \in 1..Len(order') PROVE order'[i] \in entries'
      <4>1. CASE i = Len(order)
        BY <2>1, <2>5, <4>1
      <4>2. CASE i # Len(order)
        <5>1. i + 1 \in 1..Len(order) /\ i + 1 # 1 /\ order'[i] = order[i + 1]
          BY <2>2, <2>5, <4>2
        <5>2. order[i + 1] \in entries
          BY <1>3, <5>1
        <5>3. 1 \in 1..Len(order)
          BY <2>2
        <5>4. order[i + 1] # order[1]
          BY <1>2, <5>1, <5>3
        <5>5. entries' = (entries \ {order[1]}) \cup {s}
          BY <2>1, <2>2
        <5>6. order[i + 1] \in entries'
          BY <5>2, <5>4, <5>5
        <5> QED BY <5>1, <5>6
      <4> QED BY <4>1, <4>2
    <3>3. DOMAIN order' = 1..Len(order')
      BY <2>5
    <3>4. Range(order') = {order'[i] : i \in 1..Len(order')}
      BY <3>3 DEF Range
    <3> QED BY <3>1, <3>2, <3>4
  <2>8. entries' \subseteq Stored
    BY <1>1, <1>2, <2>1
  <2> QED BY <1>1, <1>2, <2>3, <2>5, <2>6, <2>7, <2>8 DEF CacheInv, CacheConsistent
<1> QED BY <1>4, <1>5, <1>6

(* A step that loads keeps the invariant.                                  *)
LEMMA LoadingInv ==
  ASSUME TypeOK, PInv, NEW w \in Workers, Loading(w)
  PROVE  PInv'
<1> DEFINE t == task[w]
<1>1. /\ state[w] \in {"load", "fetch", "put"} /\ state'[w] \in {"load", "fetch", "put"}
      /\ UNCHANGED <<sent, closed, returned, jit, cacheSize, received, task, bump, recorded, dumped>>
      /\ \A v \in Workers :
           v # w => /\ state'[v] = state[v] /\ toLoad'[v] = toLoad[v]
                    /\ loaded'[v] = loaded[v] /\ fetching'[v] = fetching[v]
  BY LoadingFrame DEF mainVars, modeVars, outVars
<1>2. /\ \A v \in Workers : (Holding(v)' <=> Holding(v)) /\ (Busy(v)' <=> Busy(v))
      /\ \A v \in Workers : state'[v] \in {"record", "dump", "exited", "receive"} <=>
                              state[v] \in {"record", "dump", "exited", "receive"}
      /\ \A v \in Workers : state'[v] = state[v] \/ v = w
  BY <1>1 DEF Holding, Busy
<1>3. Busy(w) /\ Holding(w)
  BY <1>1 DEF Holding, Busy
<1>4. t \in Tokens /\ t < received /\ t \in 0..(received - 1)
  BY <1>3, PoolAssumption DEF PInv, TaskInv, Tokens, TypeOK
<1>5. TaskInv' /\ HoldInv' /\ CountInv'
  BY <1>1, <1>2 DEF PInv, TaskInv, HoldInv, CountInv
<1>6. ExitInv' /\ DumpInv'
  <2>1. \A v \in Workers : (state'[v] = "exited" <=> state[v] = "exited")
                          /\ (state'[v] = "dump" <=> state[v] = "dump")
    BY <1>1
  <2> QED BY <1>1, <2>1 DEF PInv, ExitInv, DumpInv, AllExited
<1>7. \A u \in Tokens : Available(u)' = Available(u)
  BY <1>1 DEF Available
<1>8. /\ \A u, s : <<u, s>> \in failed' => <<u, s>> \in failed \/ u = t
      /\ failed \subseteq failed'
  BY LoadingCases
<1>9. \A u \in Tokens : u # t => Due(u)' = Due(u)
  BY <1>7, <1>8 DEF Due
<1>10. FailedInv'
  BY <1>1, <1>4, <1>8 DEF PInv, FailedInv
<1>11. DoneInv'
  <2> SUFFICES ASSUME NEW u \in Tokens
               PROVE  bump'[u] = IF Handled(u)' THEN Due(u)' ELSE {}
    BY DEF DoneInv
  <2>1. Handled(u)' <=> Handled(u)
    BY <1>1, <1>2 DEF Handled
  <2>2. Handled(u) => u # t
    BY <1>3 DEF Handled
  <2> QED BY <1>1, <1>9, <2>1, <2>2 DEF PInv, DoneInv
<1>12. LoadInv'
  <2> SUFFICES ASSUME NEW v \in Workers, Holding(v)'
               PROVE  /\ toLoad'[v] \subseteq Spans[task'[v]]
                      /\ \A s \in Pend(v)' : <<task'[v], s>> \notin failed'
                      /\ loaded'[v] = Due(task[v])' \ Pend(v)'
                      /\ state'[v] = "record" => toLoad'[v] = {} /\ loaded'[v] # {}
    BY DEF LoadInv
  <2>1. Holding(v) /\ task[v] \in Tokens
    BY <1>2, PoolAssumption DEF Holding, Busy, PInv, TaskInv, Tokens, TypeOK
  <2>2. CASE v # w
    <3>1. task[v] # t
      BY <1>3, <2>1, <2>2 DEF PInv, HoldInv
    <3>2. Pend(v)' = Pend(v) /\ Due(task[v])' = Due(task[v])
      BY <1>1, <1>9, <2>1, <2>2, <3>1 DEF Pend
    <3> QED BY <1>1, <1>8, <2>1, <2>2, <3>1, <3>2 DEF PInv, LoadInv
  <2>3. CASE v = w
    <3>1. /\ toLoad[w] \subseteq Spans[t] /\ loaded[w] = Due(t) \ Pend(w)
          /\ \A s \in Pend(w) : <<t, s>> \notin failed
      BY <1>3 DEF PInv, LoadInv
    <3>2. toLoad'[w] \subseteq toLoad[w]
      BY DEF Loading, LoadFragment, CacheGet, Fetch, CachePut, TypeOK
    <3>3. CASE Pend(w)' = Pend(w) /\ loaded'[w] = loaded[w] /\ UNCHANGED failed
      <4>1. Due(t)' = Due(t)
        BY <1>1, <1>4, <1>7, <3>3 DEF Due
      <4> QED BY <1>1, <2>3, <3>1, <3>2, <3>3, <4>1
    <3>4. ASSUME NEW s \in Pend(w), Pend(w)' = Pend(w) \ {s}, UNCHANGED failed,
                 \/ s \in Available(t) /\ loaded'[w] = loaded[w] \cup {s}
                 \/ s \notin Available(t) /\ loaded'[w] = loaded[w]
          PROVE  loaded'[w] = Due(t)' \ Pend(w)' /\ \A r \in Pend(w)' : <<t, r>> \notin failed'
      <4>1. Due(t)' = Due(t)
        BY <1>1, <1>4, <1>7, <3>4 DEF Due
      <4>2. s \in Due(t) <=> s \in Available(t)
        BY <3>1, <3>4 DEF Due
      <4> QED BY <3>1, <3>4, <4>1, <4>2
    <3>5. ASSUME NEW s \in Pend(w), Pend(w)' = Pend(w) \ {s}, s \in Available(t),
                 loaded'[w] = loaded[w], failed' = failed \cup {<<t, s>>}
          PROVE  loaded'[w] = Due(t)' \ Pend(w)' /\ \A r \in Pend(w)' : <<t, r>> \notin failed'
      <4>1. Due(t)' = Due(t) \ {s}
        BY <1>1, <1>4, <1>7, <3>5 DEF Due
      <4> QED BY <3>1, <3>5, <4>1
    <3> QED BY <1>1, <2>3, <3>1, <3>2, <3>3, <3>4, <3>5, LoadingCases
  <2> QED BY <2>2, <2>3
<1>13. FetchInv'
  <2> SUFFICES ASSUME NEW v \in Workers, state'[v] \in {"fetch", "put"}
               PROVE  /\ jit' /\ fetching'[v] \in Spans[task'[v]] \ toLoad'[v]
                      /\ state'[v] = "put" => fetching'[v] \in Stored
    BY DEF FetchInv
  <2>1. CASE v # w
    BY <1>1, <2>1 DEF PInv, FetchInv
  <2>2. CASE v = w /\ CacheGet(w)
    <3>1. PICK s \in toLoad[w] :
            /\ toLoad' = [toLoad EXCEPT ![w] = @ \ {s}]
            /\ s \in entries => UNCHANGED <<state, fetching>>
            /\ s \notin entries => /\ fetching' = [fetching EXCEPT ![w] = s]
                                  /\ state' = [state EXCEPT ![w] = "fetch"]
      BY <2>2 DEF CacheGet
    <3>2. state[w] = "load" /\ jit /\ toLoad[w] \subseteq Spans[t]
      BY <1>3, <2>2 DEF CacheGet, PInv, LoadInv
    <3> QED BY <1>1, <2>2, <3>1, <3>2 DEF TypeOK
  <2>3. CASE v = w /\ Fetch(w)
    <3>1. state[w] = "fetch" /\ toLoad' = toLoad
      BY <2>3 DEF Fetch
    <3>2. state'[w] = "put" => fetching' = fetching /\ fetching[w] \in Available(t)
      BY <2>3 DEF Fetch, Read, TypeOK
    <3>3. state'[w] # "fetch"
      BY <2>3 DEF Fetch, TypeOK
    <3> QED BY <1>1, <2>3, <3>1, <3>2, <3>3 DEF PInv, FetchInv, Available
  <2>4. CASE v = w /\ (LoadFragment(w) \/ CachePut(w))
    BY <2>4 DEF LoadFragment, CachePut, TypeOK
  <2> QED BY <2>1, <2>2, <2>3, <2>4 DEF Loading
<1>14. CacheInv'
  <2>1. CASE UNCHANGED <<entries, order>>
    BY <1>1, <2>1 DEF PInv, CacheInv, CacheConsistent
  <2>2. CASE CachePut(w)
    BY <2>2, <1>1, CachePutInv
  <2> QED BY <2>1, <2>2 DEF Loading, LoadFragment, CacheGet, Fetch, cacheVars
<1> QED BY <1>5, <1>6, <1>10, <1>11, <1>12, <1>13, <1>14 DEF PInv

(***************************************************************************)
(* The other steps.                                                        *)
(***************************************************************************)

(* The calling goroutine changes nothing the workers rely on.              *)
LEMMA MainInv ==
  ASSUME TypeOK, PInv, MainStep
  PROVE  PInv'
<1>1. UNCHANGED <<modeVars, cacheVars, workerVars, outVars>>
  BY DEF MainStep, Send, Close, Wait
<1> USE DEF modeVars, cacheVars, workerVars, outVars
<1>2. TaskInv' /\ HoldInv' /\ FetchInv' /\ FailedInv' /\ CountInv' /\ CacheInv' /\ DumpInv'
  BY <1>1 DEF PInv, TaskInv, HoldInv, FetchInv, FailedInv, CountInv, CacheInv, DumpInv, Busy,
              Holding, CacheConsistent
<1>3. \A t \in Tokens : Due(t)' = Due(t) /\ (Handled(t)' <=> Handled(t))
  BY <1>1 DEF Due, Available, Handled, Holding
<1>4. DoneInv'
  BY <1>1, <1>3 DEF PInv, DoneInv
<1>5. LoadInv'
  <2> SUFFICES ASSUME NEW v \in Workers, Holding(v)'
               PROVE  /\ toLoad'[v] \subseteq Spans[task'[v]]
                      /\ \A s \in Pend(v)' : <<task'[v], s>> \notin failed'
                      /\ loaded'[v] = Due(task[v])' \ Pend(v)'
                      /\ state'[v] = "record" => toLoad'[v] = {} /\ loaded'[v] # {}
    BY DEF LoadInv
  <2>1. Holding(v) /\ task[v] \in Tokens
    BY <1>1, PoolAssumption DEF Holding, Busy, PInv, TaskInv, Tokens, TypeOK
  <2>2. Due(task[v])' = Due(task[v]) /\ Pend(v)' = Pend(v)
    BY <1>1 DEF Due, Available, Pend
  <2> QED BY <1>1, <2>1, <2>2 DEF PInv, LoadInv
<1>6. ExitInv'
  <2>1. CASE Send
    BY <2>1, PoolAssumption DEF Send, PInv, ExitInv, TypeOK, AllExited
  <2>2. CASE Close
    BY <2>2 DEF Close, PInv, ExitInv, AllExited
  <2>3. CASE Wait
    BY <2>3 DEF Wait, PInv, ExitInv, AllExited
  <2> QED BY <2>1, <2>2, <2>3 DEF MainStep
<1> QED BY <1>2, <1>4, <1>5, <1>6 DEF PInv

(* What a step of w that reads nothing leaves alone.                       *)
LEMMA OthersLoaded ==
  ASSUME TypeOK, PInv, NEW w \in Workers,
         UNCHANGED <<jit, failed>>,
         \A v \in Workers : v # w => /\ state'[v] = state[v] /\ task'[v] = task[v]
                                    /\ toLoad'[v] = toLoad[v] /\ loaded'[v] = loaded[v]
                                    /\ fetching'[v] = fetching[v]
  PROVE  /\ \A t : Due(t)' = Due(t)
         /\ \A v \in Workers :
              Holding(v)' /\ v # w =>
                /\ toLoad'[v] \subseteq Spans[task'[v]]
                /\ \A s \in Pend(v)' : <<task'[v], s>> \notin failed'
                /\ loaded'[v] = Due(task[v])' \ Pend(v)'
                /\ state'[v] = "record" => toLoad'[v] = {} /\ loaded'[v] # {}
         /\ \A v \in Workers :
              state'[v] \in {"fetch", "put"} /\ v # w =>
                /\ jit'
                /\ fetching'[v] \in Spans[task'[v]] \ toLoad'[v]
                /\ state'[v] = "put" => fetching'[v] \in Stored
<1>1. \A t : Due(t)' = Due(t)
  BY DEF Due, Available
<1>2. ASSUME NEW v \in Workers, Holding(v)', v # w
      PROVE  /\ toLoad'[v] \subseteq Spans[task'[v]]
             /\ \A s \in Pend(v)' : <<task'[v], s>> \notin failed'
             /\ loaded'[v] = Due(task[v])' \ Pend(v)'
             /\ state'[v] = "record" => toLoad'[v] = {} /\ loaded'[v] # {}
  <2>1. Holding(v) /\ Pend(v)' = Pend(v)
    BY <1>2 DEF Holding, Pend
  <2>2. Due(task[v])' = Due(task[v])
    BY <1>2 DEF Due, Available
  <2> QED BY <1>2, <2>1, <2>2 DEF PInv, LoadInv
<1>3. ASSUME NEW v \in Workers, state'[v] \in {"fetch", "put"}, v # w
      PROVE  /\ jit'
             /\ fetching'[v] \in Spans[task'[v]] \ toLoad'[v]
             /\ state'[v] = "put" => fetching'[v] \in Stored
  BY <1>3 DEF PInv, FetchInv
<1> QED BY <1>1, <1>2, <1>3

(* A token comes into the hands of one worker, with everything to load.    *)
LEMMA ReceiveInv ==
  ASSUME TypeOK, PInv, NEW w \in Workers, Receive(w)
  PROVE  PInv'
<1>1. /\ state[w] = "receive" /\ received < sent /\ received' = received + 1
      /\ received \in Tokens /\ Spans[received] \subseteq Subtrees
      /\ UNCHANGED <<sent, closed, returned, jit, cacheSize, entries, order, loads, fetching,
                     bump, recorded, dumped, failed>>
      /\ \A v \in Workers : v # w => /\ state'[v] = state[v] /\ task'[v] = task[v]
                                     /\ toLoad'[v] = toLoad[v] /\ loaded'[v] = loaded[v]
      /\ task'[w] = received /\ toLoad'[w] = Spans[received] /\ loaded'[w] = {}
      /\ state'[w] = IF Spans[received] = {} THEN "receive" ELSE "load"
  <2>1. received \in Tokens
    BY PoolAssumption DEF Receive, Tokens, TypeOK
  <2>2. Spans[received] \subseteq Subtrees
    BY <2>1, SpansType
  <2> QED BY <2>1, <2>2 DEF Receive, TypeOK, mainVars, modeVars, cacheVars, outVars
<1>2. \A v \in Workers : v # w => (Holding(v)' <=> Holding(v)) /\ (Busy(v)' <=> Busy(v))
  BY <1>1 DEF Holding, Busy
<1>3. ~Holding(w) /\ (Holding(w)' <=> Spans[received] # {}) /\ (Busy(w)' <=> Spans[received] # {})
  BY <1>1 DEF Holding, Busy
<1>4. received \in Nat /\ \A v \in Workers : Busy(v) => task[v] \in Nat /\ task[v] < received
  BY <1>1, Constants_ DEF PInv, TaskInv
<1>5. \A v \in Workers : Holding(v) => Busy(v)
  BY DEF Holding, Busy
<1>6. TaskInv'
  BY <1>1, <1>2, <1>3, <1>4 DEF TaskInv
<1>7. HoldInv'
  BY <1>1, <1>2, <1>3, <1>4, <1>5 DEF PInv, HoldInv
<1>8. /\ \A t : Due(t)' = Due(t)
      /\ \A v \in Workers :
           Holding(v)' /\ v # w =>
             /\ toLoad'[v] \subseteq Spans[task'[v]]
             /\ \A s \in Pend(v)' : <<task'[v], s>> \notin failed'
             /\ loaded'[v] = Due(task[v])' \ Pend(v)'
             /\ state'[v] = "record" => toLoad'[v] = {} /\ loaded'[v] # {}
      /\ \A v \in Workers :
           state'[v] \in {"fetch", "put"} /\ v # w =>
             /\ jit'
             /\ fetching'[v] \in Spans[task'[v]] \ toLoad'[v]
             /\ state'[v] = "put" => fetching'[v] \in Stored
  BY <1>1, OthersLoaded
<1>9. FetchInv'
  BY <1>1, <1>8 DEF FetchInv
<1>10. Due(received) \subseteq Spans[received]
  BY <1>1, SpansType DEF Due
<1>11. LoadInv'
  <2>1. ASSUME Holding(w)'
        PROVE  /\ toLoad'[w] \subseteq Spans[task'[w]]
               /\ \A s \in Pend(w)' : <<task'[w], s>> \notin failed'
               /\ loaded'[w] = Due(task[w])' \ Pend(w)'
               /\ state'[w] = "record" => toLoad'[w] = {} /\ loaded'[w] # {}
    <3>1. state'[w] = "load" /\ Pend(w)' = Spans[received]
      BY <1>1, <1>3, <2>1 DEF Pend
    <3>2. \A s \in Spans[received] : <<received, s>> \notin failed
      BY <1>1, <1>4 DEF PInv, FailedInv
    <3>3. Due(task[w])' = Due(received)
      BY <1>1 DEF Due, Available
    <3> QED BY <1>1, <1>10, <3>1, <3>2, <3>3
  <2> QED BY <1>8, <2>1 DEF LoadInv
<1>12. FailedInv'
  BY <1>1, <1>4, Constants_ DEF PInv, FailedInv
<1>13. DoneInv'
  <2> SUFFICES ASSUME NEW t \in Tokens
               PROVE  bump'[t] = IF Handled(t)' THEN Due(t)' ELSE {}
    BY DEF DoneInv
  <2>1. CASE t = received
    <3>1. ~Handled(t) /\ bump[t] = {}
      BY <1>4, <2>1 DEF Handled, PInv, DoneInv
    <3>2. Spans[t] = {} => Due(t)' = {}
      BY <1>8, <1>10, <2>1
    <3>3. Spans[t] # {} => ~Handled(t)'
      BY <1>1, <1>3, <2>1 DEF Handled
    <3> QED BY <1>1, <3>1, <3>2, <3>3, <2>1
  <2>2. CASE t # received
    <3>1. t < received + 1 <=> t < received
      BY <1>4, <2>2, Constants_
    <3>2. Handled(t)' <=> Handled(t)
      BY <1>1, <1>2, <1>3, <2>2, <3>1 DEF Handled
    <3> QED BY <1>1, <1>8, <3>2 DEF PInv, DoneInv
  <2> QED BY <2>1, <2>2
<1>14. CountInv' /\ CacheInv'
  BY <1>1 DEF PInv, CountInv, CacheInv, CacheConsistent
<1>15. ExitInv'
  <2>1. \A v \in Workers : state[v] # "exited" /\ state'[v] # "exited"
    BY <1>1, <1>4 DEF PInv, ExitInv, TypeOK
  <2>2. ~returned
    BY <2>1, Constants_ DEF PInv, ExitInv, AllExited
  <2> QED BY <1>1, <2>1, <2>2 DEF PInv, ExitInv
<1>16. DumpInv'
  BY <1>1 DEF PInv, DumpInv
<1> QED
  BY <1>6, <1>7, <1>9, <1>11, <1>12, <1>13, <1>14, <1>15, <1>16 DEF PInv

(* A worker that exits, or has dumped a BUMP, held nothing any more.       *)
LEMMA ExitDumpInv ==
  ASSUME TypeOK, PInv, NEW w \in Workers, Exit(w) \/ Dump(w)
  PROVE  PInv'
<1>1. /\ UNCHANGED <<sent, closed, returned, jit, cacheSize, entries, order, loads, fetching,
                     received, task, toLoad, loaded, failed, bump, recorded>>
      /\ \A v \in Workers : v # w => state'[v] = state[v]
      /\ ~Holding(w) /\ ~Holding(w)' /\ ~Busy(w)'
  BY DEF Exit, Dump, TypeOK, Holding, Busy, mainVars, modeVars, cacheVars, outVars
<1>2. \A v \in Workers : (Holding(v)' <=> Holding(v)) /\ (Busy(v)' => Busy(v))
  BY <1>1 DEF Holding, Busy
<1>3. TaskInv' /\ HoldInv' /\ FailedInv' /\ CountInv' /\ CacheInv'
  BY <1>1, <1>2 DEF PInv, TaskInv, HoldInv, FailedInv, CountInv, CacheInv, CacheConsistent
<1>4. /\ \A t : Due(t)' = Due(t)
      /\ LoadInv' /\ FetchInv'
  <2>1. state'[w] \notin {"fetch", "put"}
    BY <1>1 DEF Holding
  <2> QED BY <1>1, <2>1, OthersLoaded DEF LoadInv, FetchInv
<1>5. DoneInv'
  BY <1>1, <1>2, <1>4 DEF PInv, DoneInv, Handled
<1>6. CASE Exit(w)
  <2>1. closed /\ received = sent /\ state[w] = "receive" /\ state'[w] = "exited"
        /\ UNCHANGED dumped
    BY <1>6 DEF Exit, outVars, TypeOK
  <2>2. ExitInv'
    BY <1>1, <2>1 DEF PInv, ExitInv, AllExited
  <2>3. DumpInv'
    BY <1>1, <2>1 DEF PInv, DumpInv
  <2> QED BY <1>3, <1>4, <1>5, <2>2, <2>3 DEF PInv
<1>7. CASE Dump(w)
  <2>1. /\ state[w] = "dump" /\ state'[w] = "receive"
        /\ dumped' = IF dumped = NoToken THEN task[w] ELSE dumped
    BY <1>7 DEF Dump, TypeOK
  <2>2. ExitInv'
    BY <1>1, <2>1 DEF PInv, ExitInv, AllExited
  <2>3. task[w] # NoToken
    BY <2>1 DEF PInv, TaskInv, Busy
  <2>4. DumpInv'
    BY <1>1, <2>1, <2>3 DEF PInv, DumpInv
  <2> QED BY <1>3, <1>4, <1>5, <2>2, <2>4 DEF PInv
<1> QED BY <1>6, <1>7

(* With everything loaded w either lets go of the token, which then has no *)
(* BUMP and was due none, or goes on to record it.                         *)
LEMMA AssembleInv ==
  ASSUME TypeOK, PInv, NEW w \in Workers, Assemble(w)
  PROVE  PInv'
<1>1. /\ UNCHANGED <<sent, closed, returned, jit, cacheSize, entries, order, loads, fetching,
                     received, task, toLoad, loaded, failed, bump, recorded, dumped>>
      /\ state[w] = "load" /\ toLoad[w] = {}
      /\ state'[w] = IF loaded[w] = {} THEN "receive" ELSE "record"
      /\ \A v \in Workers : v # w => state'[v] = state[v]
  BY DEF Assemble, TypeOK, mainVars, modeVars, cacheVars, outVars
<1>2. \A v \in Workers : /\ Holding(v)' => Holding(v)
                         /\ v # w => (Holding(v) => Holding(v)')
                         /\ Busy(v)' => Busy(v)
  BY <1>1 DEF Holding, Busy
<1>3. Holding(w) /\ (Holding(w)' <=> loaded[w] # {})
  BY <1>1 DEF Holding
<1>4. TaskInv' /\ HoldInv' /\ FailedInv' /\ CountInv' /\ CacheInv'
  BY <1>1, <1>2 DEF PInv, TaskInv, HoldInv, FailedInv, CountInv, CacheInv, CacheConsistent
<1>5. ExitInv' /\ DumpInv'
  <2>1. \A v \in Workers : /\ state'[v] = "exited" <=> state[v] = "exited"
                          /\ state'[v] = "dump" <=> state[v] = "dump"
    BY <1>1
  <2> QED BY <1>1, <2>1 DEF PInv, ExitInv, DumpInv, AllExited
<1>6. loaded[w] = Due(task[w])
  <2>1. Pend(w) = {}
    BY <1>1 DEF Pend
  <2>2. loaded[w] = Due(task[w]) \ Pend(w)
    BY <1>3 DEF PInv, LoadInv
  <2> QED BY <2>1, <2>2
<1>7. /\ \A t : Due(t)' = Due(t)
      /\ \A v \in Workers :
           Holding(v)' /\ v # w =>
             /\ toLoad'[v] \subseteq Spans[task'[v]]
             /\ \A s \in Pend(v)' : <<task'[v], s>> \notin failed'
             /\ loaded'[v] = Due(task[v])' \ Pend(v)'
             /\ state'[v] = "record" => toLoad'[v] = {} /\ loaded'[v] # {}
      /\ FetchInv'
  <2>1. state'[w] \notin {"fetch", "put"}
    BY <1>1
  <2> QED BY <1>1, <2>1, OthersLoaded DEF FetchInv
<1>8. LoadInv'
  <2>1. ASSUME Holding(w)'
        PROVE  /\ toLoad'[w] \subseteq Spans[task'[w]]
               /\ \A s \in Pend(w)' : <<task'[w], s>> \notin failed'
               /\ loaded'[w] = Due(task[w])' \ Pend(w)'
               /\ state'[w] = "record" => toLoad'[w] = {} /\ loaded'[w] # {}
    <3>1. Pend(w)' = {} /\ toLoad'[w] = {} /\ loaded'[w] = loaded[w] /\ loaded[w] # {}
      BY <1>1, <1>3, <2>1 DEF Pend
    <3>2. Due(task[w])' = Due(task[w])
      BY <1>1 DEF Due, Available
    <3> QED BY <1>6, <3>1, <3>2
  <2> QED BY <1>7, <2>1 DEF LoadInv
<1>9. DoneInv'
  <2> SUFFICES ASSUME NEW t \in Tokens
               PROVE  bump'[t] = IF Handled(t)' THEN Due(t)' ELSE {}
    BY DEF DoneInv
  <2>1. CASE t = task[w] /\ loaded[w] = {}
    <3>1. ~Handled(t) /\ bump[t] = {} /\ Due(t)' = {}
      BY <1>3, <1>6, <1>7, <2>1 DEF Handled, PInv, DoneInv
    <3> QED BY <1>1, <3>1
  <2>2. CASE ~(t = task[w] /\ loaded[w] = {})
    <3>1. Handled(t)' <=> Handled(t)
      BY <1>1, <1>2, <1>3, <2>2 DEF Handled
    <3> QED BY <1>1, <1>7, <3>1 DEF PInv, DoneInv
  <2> QED BY <2>1, <2>2
<1> QED BY <1>4, <1>5, <1>7, <1>8, <1>9 DEF PInv

(* The BUMP recorded is the one due, and it is counted once.               *)
LEMMA RecordInv ==
  ASSUME TypeOK, PInv, NEW w \in Workers, RecordBUMP(w)
  PROVE  PInv'
<1> DEFINE t == task[w]
<1>1. /\ UNCHANGED <<sent, closed, returned, jit, cacheSize, entries, order, loads, fetching,
                     received, task, toLoad, loaded, failed, dumped>>
      /\ state[w] = "record" /\ state'[w] = IF DumpBumps THEN "dump" ELSE "receive"
      /\ \A v \in Workers : v # w => state'[v] = state[v]
      /\ recorded' = Append(recorded, t)
  BY DEF RecordBUMP, TypeOK, mainVars, modeVars, cacheVars
<1>2. Holding(w) /\ ~Holding(w)' /\ Busy(w) /\ \A v \in Workers : Busy(v)' => Busy(v)
  BY <1>1 DEF Holding, Busy
<1>3. \A v \in Workers : v # w => (Holding(v)' <=> Holding(v))
  BY <1>1 DEF Holding
<1>4. t \in Tokens /\ t < received
  BY <1>2, PoolAssumption DEF PInv, TaskInv, Tokens, TypeOK
<1>5. t' = t /\ bump'[t] = loaded[w] /\ \A u \in Tokens : u # t => bump'[u] = bump[u]
  BY <1>1, <1>4 DEF RecordBUMP, TypeOK
<1>6. loaded[w] = Due(t) /\ loaded[w] # {}
  <2>1. toLoad[w] = {} /\ loaded[w] # {} /\ loaded[w] = Due(t) \ Pend(w)
    BY <1>1, <1>2 DEF PInv, LoadInv
  <2>2. Pend(w) = {}
    BY <1>1, <2>1 DEF Pend
  <2> QED BY <2>1, <2>2
<1>7. bump[t] = {} /\ ~Handled(t)
  BY <1>2, <1>4 DEF Handled, PInv, DoneInv
<1>8. TaskInv' /\ HoldInv' /\ FailedInv' /\ CacheInv'
  BY <1>1, <1>2, <1>3 DEF PInv, TaskInv, HoldInv, FailedInv, CacheInv, CacheConsistent
<1>9. (\A u : Due(u)' = Due(u)) /\ LoadInv' /\ FetchInv'
  <2>1. state'[w] \notin {"fetch", "put"}
    BY <1>1
  <2> QED BY <1>1, <1>2, <2>1, OthersLoaded DEF LoadInv, FetchInv
<1>10. DoneInv'
  <2> SUFFICES ASSUME NEW u \in Tokens
               PROVE  bump'[u] = IF Handled(u)' THEN Due(u)' ELSE {}
    BY DEF DoneInv
  <2>1. CASE u = t
    <3>1. Handled(u)'
      BY <1>1, <1>2, <1>3, <1>4, <2>1 DEF Handled, PInv, HoldInv
    <3> QED BY <1>5, <1>6, <1>9, <2>1, <3>1
  <2>2. CASE u # t
    <3>1. Handled(u)' <=> Handled(u)
      BY <1>1, <1>2, <1>3, <2>2 DEF Handled
    <3> QED BY <1>5, <1>9, <2>2, <3>1 DEF PInv, DoneInv
  <2> QED BY <2>1, <2>2
<1>11. CountInv'
  <2> DEFINE Had == {u \in Tokens : bump[u] # {}}
             Has == {u \in Tokens : bump'[u] # {}}
  <2>1. Has = Had \cup {t} /\ t \notin Had
    BY <1>4, <1>5, <1>6, <1>7
  <2>2. IsFiniteSet(Had)
    BY Constants_, FS_Subset
  <2>3. Cardinality(Has) = Cardinality(Had) + 1
    BY <2>1, <2>2, FS_AddElement
  <2>4. Len(recorded') = Len(recorded) + 1
    BY <1>1, <1>4, AppendProperties DEF TypeOK
  <2> QED BY <2>3, <2>4 DEF PInv, CountInv
<1>12. ExitInv'
  BY <1>1 DEF PInv, ExitInv, AllExited
<1>13. DumpInv'
  <2>1. \A u \in Tokens : bump[u] # {} => bump'[u] # {}
    BY <1>5, <1>6
  <2>2. \A v \in Workers : state'[v] = "dump" => bump'[task'[v]] # {}
    <3>1. ASSUME NEW v \in Workers, state'[v] = "dump", v # w PROVE bump'[task'[v]] # {}
      <4>1. state[v] = "dump" /\ task[v] \in Tokens
        BY <1>1, <3>1, PoolAssumption DEF PInv, TaskInv, Busy, Tokens, TypeOK
      <4> QED BY <1>1, <2>1, <4>1 DEF PInv, DumpInv
    <3> QED BY <1>1, <1>5, <1>6, <3>1
  <2>3. dumped' # NoToken => bump'[dumped'] # {}
    BY <1>1, <2>1 DEF PInv, DumpInv, TypeOK
  <2>4. DumpBumps => \E v \in Workers : state'[v] = "dump"
    BY <1>1
  <2> QED BY <2>2, <2>3, <2>4 DEF DumpInv
<1> QED BY <1>8, <1>9, <1>10, <1>11, <1>12, <1>13 DEF PInv

-----------------------------------------------------------------------------
(* Nothing is handled, and nothing claimed, at the start.                  *)
LEMMA InitInv == Init => TypeOK /\ PInv
<1> SUFFICES ASSUME Init PROVE TypeOK /\ PInv
  OBVIOUS
<1>1. TypeOK
  <2>1. /\ sent \in 0..NumBusinesses /\ received \in 0..sent
        /\ recorded \in Seq(Tokens) /\ order \in Seq(Subtrees)
    BY PoolAssumption DEF Init
  <2>2. /\ state \in [Workers -> {"receive", "load", "fetch", "put", "record", "dump", "exited"}]
        /\ task \in [Workers -> Tokens \cup {NoToken}]
        /\ toLoad \in [Workers -> SUBSET Subtrees] /\ loaded \in [Workers -> SUBSET Subtrees]
        /\ bump \in [Tokens -> SUBSET Subtrees] /\ loads \in [Subtrees -> Nat]
        /\ fetching \in [Workers -> Subtrees \cup {NoSubtree}]
    BY DEF Init
  <2> QED BY <2>1, <2>2 DEF Init, TypeOK
<1>2. \A w \in Workers : state[w] = "receive"
  BY DEF Init
<1>3. TaskInv /\ HoldInv /\ FetchInv /\ LoadInv /\ FailedInv /\ ExitInv /\ DumpInv
  BY <1>2, Constants_
     DEF Init, TaskInv, HoldInv, FetchInv, LoadInv, FailedInv, ExitInv, DumpInv, Busy, Holding
<1>4. DoneInv
  BY Constants_ DEF Init, DoneInv, Handled
<1>5. CountInv
  <2>1. {t \in Tokens : bump[t] # {}} = {}
    BY DEF Init
  <2> QED BY <2>1, FS_EmptySet DEF Init, CountInv
<1>6. CacheInv
  BY PoolAssumption, FS_EmptySet DEF Init, CacheInv, CacheConsistent, Range
<1> QED BY <1>1, <1>3, <1>4, <1>5, <1>6 DEF PInv

(* Every step of the workers and of the calling goroutine keeps PInv.      *)
LEMMA StepInv == ASSUME TypeOK, PInv, [Next]_vars PROVE PInv'
<1>1. CASE UNCHANGED vars
  <2>1. UNCHANGED <<sent, closed, returned, jit, cacheSize, entries, order, loads, fetching,
                    received, state, task, toLoad, loaded, failed, bump, recorded, dumped>>
    BY <1>1 DEF vars, mainVars, modeVars, cacheVars, workerVars, outVars
  <2>2. TaskInv' /\ HoldInv' /\ FetchInv' /\ FailedInv' /\ CountInv' /\ CacheInv' /\ DumpInv'
    BY <2>1 DEF PInv, TaskInv, HoldInv, FetchInv, FailedInv, CountInv, CacheInv, DumpInv, Busy,
                Holding, CacheConsistent
  <2>3. LoadInv' /\ DoneInv' /\ ExitInv'
    BY <2>1 DEF PInv, LoadInv, DoneInv, ExitInv, Holding, Handled, Pend, Due, Available, AllExited
  <2> QED BY <2>2, <2>3 DEF PInv
<1>2. CASE MainStep
  BY <1>2, MainInv
<1>3. ASSUME NEW w \in Workers, WorkerStep(w) PROVE PInv'
  BY <1>3, ReceiveInv, LoadingInv, AssembleInv, RecordInv, ExitDumpInv DEF WorkerStep, Loading
<1> QED BY <1>1, <1>2, <1>3 DEF Next

(* The invariant with its types is inductive.                              *)
LEMMA Invariance == Spec => [](TypeOK /\ PInv)
<1>1. TypeOK /\ PInv /\ [Next]_vars => (TypeOK /\ PInv)'
  BY TypeStep, StepInv
<1> QED BY <1>1, InitInv, PTL DEF Spec

(* At every moment every token is in the channel, in the hands of one      *)
(* worker that has accounted for all but what it has still to load, or     *)
(* handled for good (ProcessBUMPs).                                        *)
THEOREM PoolInvHolds == Spec => []PoolInv
<1>1. TypeOK /\ PInv => PoolInv
  BY DEF PoolInv
<1> QED BY <1>1, Invariance, PTL

(* No two workers work on one token, and a token whose BUMP is recorded is *)
(* in nobody's hands, for any number of workers and tokens.                *)
THEOREM OneWorkerPerTokenHolds == Spec => []OneWorkerPerToken
<1>1. TypeOK /\ PInv => OneWorkerPerToken
  <2> SUFFICES ASSUME TypeOK, PInv PROVE OneWorkerPerToken
    OBVIOUS
  <2>1. ASSUME NEW t \in Tokens, bump[t] # {} PROVE t \notin Open
    <3>1. Handled(t)
      BY <2>1 DEF PInv, DoneInv
    <3> QED BY <3>1, Constants_ DEF Handled, Open, TypeOK
  <2> QED BY <2>1 DEF OneWorkerPerToken, PInv, HoldInv
<1> QED BY <1>1, Invariance, PTL

(* When ProcessBUMPs returns every BUMP is made of all that is stored and  *)
(* could be read, and as many are counted as there are.                    *)
THEOREM AllAssembledHolds == Spec => []AllAssembled
<1>1. TypeOK /\ PInv => AllAssembled
  <2> SUFFICES ASSUME TypeOK, PInv, returned PROVE
                 /\ \A t \in Tokens : bump[t] = {s \in Available(t) : <<t, s>> \notin failed}
                 /\ Len(recorded) = Cardinality({t \in Tokens : bump[t] # {}})
    BY DEF AllAssembled
  <2>1. /\ \A w \in Workers : state[w] = "exited"
        /\ received = NumBusinesses
    BY Constants_ DEF PInv, ExitInv, AllExited
  <2>2. \A t \in Tokens : Handled(t)
    BY <2>1, Constants_ DEF Handled, Holding
  <2> QED BY <2>2 DEF PInv, DoneInv, CountInv, Due
<1> QED BY <1>1, Invariance, PTL

(* The cache's order names its entries once each and never more than its   *)
(* size, for a cache of any size and any workers.                          *)
THEOREM CacheConsistentHolds == Spec => []CacheConsistent
<1>1. TypeOK /\ PInv => CacheConsistent
  BY DEF PInv, CacheInv
<1> QED BY <1>1, Invariance, PTL

-----------------------------------------------------------------------------
(***************************************************************************)
(* The pool implements the safety part of TokenWork.                       *)
(***************************************************************************)

(* The tokens still open are those not handled.                            *)
LEMMA OpenTokens == TypeOK /\ PInv => Open = {t \in Tokens : ~Handled(t)}
<1> SUFFICES ASSUME TypeOK, PInv PROVE Open = {t \in Tokens : ~Handled(t)}
  OBVIOUS
<1>1. ASSUME NEW w \in Workers, Holding(w) PROVE task[w] \in Tokens
  BY <1>1, PoolAssumption DEF Holding, Busy, PInv, TaskInv, Tokens, TypeOK
<1>2. \A t : t \in received..(NumBusinesses - 1) <=> t \in Tokens /\ ~(t < received)
  BY PoolAssumption DEF Tokens, TypeOK
<1>3. \A t \in Open : t \in Tokens /\ ~Handled(t)
  BY <1>1, <1>2 DEF Open, Handled
<1>4. \A t \in Tokens : ~Handled(t) => t \in Open
  BY <1>2 DEF Open, Handled
<1> QED BY <1>3, <1>4

(* ... and so they are after a step.                                       *)
LEMMA OpenTokensNext == (TypeOK /\ PInv)' => (Open = {t \in Tokens : ~Handled(t)})'
BY OpenTokens, PTL

(* A step that handles t and no other token is the step Handle(t).         *)
LEMMA HandleStep ==
  ASSUME TypeOK, PInv, TypeOK', PInv', NEW t \in Tokens, NEW read \in SUBSET Available(t),
         ~Handled(t), UNCHANGED <<jit, returned>>,
         bump' = [bump EXCEPT ![t] = read],
         \A u \in Tokens : Handled(u)' <=> Handled(u) \/ u = t
  PROVE  Work!Handle(t)
<1>1. t \in Open
  BY OpenTokens
<1>2. Open' = Open \ {t}
  <2>1. Open' = {u \in Tokens : ~Handled(u)'}
    BY OpenTokensNext
  <2> QED BY <2>1, OpenTokens
<1>3. [u \in Tokens |-> Available(u)]' = [u \in Tokens |-> Available(u)]
  BY DEF Available
<1> QED BY <1>1, <1>2, <1>3 DEF Work!Handle

(* A step that handles no token, and records none, is a stutter.           *)
LEMMA StutterStep ==
  ASSUME TypeOK, PInv, TypeOK', PInv', UNCHANGED <<jit, returned, bump>>,
         \A u \in Tokens : Handled(u)' <=> Handled(u)
  PROVE  UNCHANGED Work!workVars
<1>1. Open' = Open
  <2>1. Open' = {u \in Tokens : ~Handled(u)'}
    BY OpenTokensNext
  <2> QED BY <2>1, OpenTokens
<1>2. [u \in Tokens |-> Available(u)]' = [u \in Tokens |-> Available(u)]
  BY DEF Available
<1> QED BY <1>1, <1>2 DEF Work!workVars

(* The calling goroutine: Wait returns, the rest is invisible.             *)
LEMMA MainWork ==
  ASSUME TypeOK, PInv, TypeOK', PInv', MainStep
  PROVE  [Work!WorkNext]_(Work!workVars)
<1>1. UNCHANGED <<jit, bump, state, task, received>>
  BY DEF MainStep, Send, Close, Wait, modeVars, workerVars, outVars
<1>2. \A u \in Tokens : Handled(u)' <=> Handled(u)
  BY <1>1 DEF Handled, Holding
<1>3. CASE Send \/ Close
  <2>1. UNCHANGED returned
    BY <1>3 DEF Send, Close
  <2> QED BY <1>1, <1>2, <2>1, StutterStep
<1>4. CASE Wait
  <2>1. \A t \in Tokens : Handled(t)
    <3>1. received = NumBusinesses /\ \A w \in Workers : ~Holding(w)
      BY <1>4, Constants_ DEF Wait, AllExited, PInv, ExitInv, Holding
    <3> QED BY <3>1, Constants_ DEF Handled
  <2>2. Open = {} /\ Open' = {}
    BY <1>2, <2>1, OpenTokens, OpenTokensNext
  <2>3. ~returned /\ returned' = TRUE
    BY <1>4 DEF Wait
  <2>4. [u \in Tokens |-> Available(u)]' = [u \in Tokens |-> Available(u)]
    BY <1>1 DEF Available
  <2>5. Work!Return
    BY <1>1, <2>2, <2>3, <2>4 DEF Work!Return
  <2> QED BY <2>5 DEF Work!WorkNext
<1> QED BY <1>3, <1>4 DEF MainStep

(* Receive handles a token that has no subtree; any other it only takes    *)
(* into the worker's hands.                                                *)
LEMMA ReceiveWork ==
  ASSUME TypeOK, PInv, TypeOK', PInv', NEW w \in Workers, Receive(w)
  PROVE  [Work!WorkNext]_(Work!workVars)
<1>1. /\ received \in Tokens /\ received' = received + 1 /\ ~Holding(w)
      /\ UNCHANGED <<jit, returned, bump>>
      /\ task'[w] = received /\ (Holding(w)' <=> Spans[received] # {})
      /\ \A v \in Workers : v # w => task'[v] = task[v] /\ (Holding(v)' <=> Holding(v))
  <2>1. received \in Tokens
    BY PoolAssumption DEF Receive, Tokens, TypeOK
  <2> QED BY <2>1 DEF Receive, Holding, TypeOK, mainVars, modeVars, outVars
<1>2. \A v \in Workers : Holding(v) => task[v] \in Nat /\ task[v] < received
  BY Constants_ DEF PInv, TaskInv, Holding, Busy, TypeOK
<1>3. ~Handled(received) /\ bump[received] = {}
  BY <1>1, Constants_ DEF Handled, PInv, DoneInv
<1>4. \A u \in Tokens : u < received + 1 <=> u < received \/ u = received
  BY <1>1, Constants_
<1>5. CASE Spans[received] = {}
  <2>1. \A v \in Workers : (Holding(v)' <=> Holding(v)) /\ (Holding(v) => task'[v] = task[v])
    BY <1>1, <1>5
  <2>2. \A u \in Tokens : Handled(u)' <=> Handled(u) \/ u = received
    BY <1>1, <1>2, <1>4, <2>1, Constants_ DEF Handled
  <2>3. bump' = [bump EXCEPT ![received] = {}]
    BY <1>1, <1>3 DEF TypeOK
  <2>4. Work!Handle(received)
    BY <1>1, <1>3, <2>2, <2>3, HandleStep
  <2> QED BY <1>1, <2>4 DEF Work!WorkNext
<1>6. CASE Spans[received] # {}
  <2>1. \A u \in Tokens : Handled(u)' <=> Handled(u)
    <3>1. ASSUME NEW u \in Tokens, u = received PROVE ~Handled(u)'
      BY <1>1, <1>6, <3>1 DEF Handled
    <3>2. ASSUME NEW u \in Tokens, u # received PROVE Handled(u)' <=> Handled(u)
      BY <1>1, <1>4, <3>2 DEF Handled
    <3> QED BY <1>3, <3>1, <3>2
  <2> QED BY <1>1, <2>1, StutterStep
<1> QED BY <1>5, <1>6

(* Assemble handles a token of which nothing could be loaded.              *)
LEMMA AssembleWork ==
  ASSUME TypeOK, PInv, TypeOK', PInv', NEW w \in Workers, Assemble(w)
  PROVE  [Work!WorkNext]_(Work!workVars)
<1> DEFINE t == task[w]
<1>1. /\ UNCHANGED <<jit, returned, bump, received, task>> /\ Holding(w)
      /\ Holding(w)' <=> loaded[w] # {}
      /\ \A v \in Workers : v # w => (Holding(v)' <=> Holding(v))
  BY DEF Assemble, Holding, TypeOK, mainVars, modeVars, outVars
<1>2. t \in Tokens /\ t < received
  <2>1. Busy(w)
    BY <1>1 DEF Holding, Busy
  <2>2. t \in 0..(received - 1)
    BY <2>1 DEF PInv, TaskInv
  <2> QED BY <2>2, Constants_ DEF TypeOK
<1>3. ~Handled(t) /\ bump[t] = {}
  BY <1>1, <1>2 DEF Handled, PInv, DoneInv
<1>4. CASE loaded[w] = {}
  <2>1. Handled(t)'
    BY <1>1, <1>2, <1>4 DEF Handled, PInv, HoldInv
  <2>2. \A u \in Tokens : u # t => (Handled(u)' <=> Handled(u))
    BY <1>1 DEF Handled
  <2>3. bump' = [bump EXCEPT ![t] = {}]
    BY <1>1, <1>2, <1>3 DEF TypeOK
  <2>4. Work!Handle(t)
    BY <1>1, <1>2, <1>3, <2>1, <2>2, <2>3, HandleStep
  <2> QED BY <1>2, <2>4 DEF Work!WorkNext
<1>5. CASE loaded[w] # {}
  <2>1. \A u \in Tokens : Handled(u)' <=> Handled(u)
    BY <1>1, <1>5 DEF Handled
  <2> QED BY <1>1, <2>1, StutterStep
<1> QED BY <1>4, <1>5

(* RecordBUMP handles the worker's token with what it has loaded.          *)
LEMMA RecordWork ==
  ASSUME TypeOK, PInv, TypeOK', PInv', NEW w \in Workers, RecordBUMP(w)
  PROVE  [Work!WorkNext]_(Work!workVars)
<1> DEFINE t == task[w]
<1>1. /\ UNCHANGED <<jit, returned, received, task>> /\ Holding(w) /\ ~Holding(w)'
      /\ \A v \in Workers : v # w => (Holding(v)' <=> Holding(v))
      /\ bump' = [bump EXCEPT ![t] = loaded[w]]
  BY DEF RecordBUMP, Holding, TypeOK, mainVars, modeVars, cacheVars
<1>2. t \in Tokens /\ t < received
  BY <1>1, Constants_ DEF PInv, TaskInv, Holding, Busy, TypeOK
<1>3. ~Handled(t)
  BY <1>1, <1>2 DEF Handled
<1>4. loaded[w] \in SUBSET Available(t)
  <2>1. loaded[w] = Due(t) \ Pend(w)
    BY <1>1 DEF PInv, LoadInv
  <2> QED BY <2>1 DEF Due
<1>5. Handled(t)'
  BY <1>1, <1>2 DEF Handled, PInv, HoldInv
<1>6. \A u \in Tokens : u # t => (Handled(u)' <=> Handled(u))
  BY <1>1 DEF Handled
<1>7. Work!Handle(t)
  BY <1>1, <1>2, <1>3, <1>4, <1>5, <1>6, HandleStep
<1> QED BY <1>2, <1>7 DEF Work!WorkNext

(* Every token is handled exactly once, with subtrees that the index lists *)
(* for it and the store holds, and ProcessBUMPs returns only when all are: *)
(* the pool with its channel, workers and cache implements TokenWork.      *)
THEOREM ImplementsTokenWorkSafety == Spec => Work!WorkSafety
<1>1. Init => Work!WorkInit
  <2> SUFFICES ASSUME Init PROVE Work!WorkInit
    OBVIOUS
  <2>1. \A t \in Tokens : ~Handled(t)
    BY Constants_ DEF Init, Handled
  <2>2. Open = Tokens
    BY <2>1, InitInv, OpenTokens
  <2>3. [t \in Tokens |-> Available(t)] \in [Tokens -> SUBSET Subtrees]
    <3>1. \A t \in Tokens : Available(t) \in SUBSET Subtrees
      BY SpansType
    <3> QED BY <3>1
  <2> QED BY <2>2, <2>3 DEF Init, Work!WorkInit
<1>2. (TypeOK /\ PInv) /\ (TypeOK /\ PInv)' /\ [Next]_vars => [Work!WorkNext]_(Work!workVars)
  <2> SUFFICES ASSUME TypeOK, PInv, TypeOK', PInv', [Next]_vars
               PROVE  [Work!WorkNext]_(Work!workVars)
    OBVIOUS
  <2>1. CASE MainStep
    BY <2>1, MainWork
  <2>2. ASSUME NEW w \in Workers, Loading(w) \/ Dump(w) \/ Exit(w)
        PROVE  [Work!WorkNext]_(Work!workVars)
    <3>1. UNCHANGED <<jit, returned, received, task, bump>>
      BY <2>2, LoadingFrame DEF Dump, Exit, mainVars, modeVars, outVars
    <3>2. \A v \in Workers : Holding(v)' <=> Holding(v)
      BY <2>2, LoadingFrame DEF Dump, Exit, Holding, TypeOK
    <3>3. \A u \in Tokens : Handled(u)' <=> Handled(u)
      BY <3>1, <3>2 DEF Handled
    <3> QED BY <3>1, <3>3, StutterStep
  <2>3. CASE UNCHANGED vars
    <3>1. UNCHANGED <<jit, returned, received, task, bump, state>>
      BY <2>3 DEF vars, mainVars, modeVars, workerVars, outVars
    <3>2. \A u \in Tokens : Handled(u)' <=> Handled(u)
      BY <3>1 DEF Handled, Holding
    <3> QED BY <3>1, <3>2, StutterStep
  <2> QED BY <2>1, <2>2, <2>3, ReceiveWork, AssembleWork, RecordWork
          DEF Next, WorkerStep, Loading
<1> QED BY <1>1, <1>2, Invariance, PTL DEF Spec, Work!WorkSafety

(***************************************************************************)
(* Proof that the cache bounds how often a subtree is read, for any number *)
(* of workers, tokens and subtrees.                                        *)
(***************************************************************************)

(* Sets of workers are finite and have at most NumWorkers elements.        *)
LEMMA WorkerSets ==
  ASSUME NEW W \in SUBSET Workers
  PROVE  IsFiniteSet(W) /\ Cardinality(W) \in Nat /\ Cardinality(W) <= NumWorkers
<1>1. NumWorkers \in Nat
  BY PoolAssumption DEF NumWorkers
<1>2. IsFiniteSet(Workers) /\ Cardinality(Workers) = NumWorkers
  BY <1>1, FS_Interval DEF Workers
<1> QED BY <1>2, FS_Subset, FS_CardinalityType

(* A cache that holds less than all subtrees, and has room for all, is not *)
(* full.                                                                   *)
LEMMA RoomLeft ==
  ASSUME TypeOK, NeverEvicts, NEW s \in Subtrees, s \notin entries
  PROVE  ~(cacheSize > 0 /\ Cardinality(entries) >= cacheSize)
<1>1. IsFiniteSet(Subtrees) /\ entries \in SUBSET Subtrees
  BY PoolAssumption DEF TypeOK
<1>2. /\ IsFiniteSet(entries) /\ Cardinality(entries) <= Cardinality(Subtrees)
      /\ Cardinality(Subtrees) # Cardinality(entries)
  BY <1>1, FS_Subset
<1>3. Cardinality(entries) \in Nat /\ Cardinality(Subtrees) \in Nat
  BY <1>1, <1>2, FS_CardinalityType
<1> QED BY <1>2, <1>3, PoolAssumption DEF TypeOK, NeverEvicts

(* Only the steps that miss, read and put change what is counted.          *)
LEMMA OtherLoads ==
  ASSUME TypeOK, LoadsInv, UNCHANGED <<cacheSize, entries, loads>>,
         \A w \in Workers :
           /\ state'[w] \in {"fetch", "put"} <=> state[w] \in {"fetch", "put"}
           /\ state[w] \in {"fetch", "put"} => state'[w] = state[w] /\ fetching'[w] = fetching[w]
  PROVE  LoadsInv'
<1>1. \A s : Putters(s)' = Putters(s) /\ Fetchers(s)' = Fetchers(s)
  BY DEF Putters, Fetchers
<1> QED BY <1>1 DEF LoadsInv, NeverEvicts

(* A miss: s is not in the cache, so its readers are not bounded yet.      *)
LEMMA CacheGetLoads ==
  ASSUME TypeOK, LoadsInv, NEW w \in Workers, CacheGet(w)
  PROVE  LoadsInv'
<1>1. UNCHANGED <<cacheSize, entries, loads>> /\ state[w] = "load"
  BY DEF CacheGet, modeVars
<1>2. PICK s \in toLoad[w] :
        IF s \in entries
          THEN UNCHANGED <<state, fetching>>
          ELSE /\ fetching' = [fetching EXCEPT ![w] = s]
               /\ state' = [state EXCEPT ![w] = "fetch"]
  BY DEF CacheGet
<1>3. CASE s \in entries
  BY <1>1, <1>2, <1>3, OtherLoads
<1>4. CASE s \notin entries
  <2>1. /\ state'[w] = "fetch" /\ fetching'[w] = s
        /\ \A v \in Workers : v # w => state'[v] = state[v] /\ fetching'[v] = fetching[v]
    BY <1>2, <1>4 DEF TypeOK
  <2>2. \A r : Putters(r)' = Putters(r)
    BY <1>1, <2>1 DEF Putters
  <2>3. \A r \in entries : Fetchers(r)' = Fetchers(r)
    BY <1>1, <1>4, <2>1 DEF Fetchers
  <2> SUFFICES ASSUME NeverEvicts, NEW r \in Subtrees
               PROVE  IF r \in entries
                        THEN loads[r] + Cardinality(Fetchers(r)') <= NumWorkers
                        ELSE loads[r] = Cardinality(Putters(r)')
    BY <1>1 DEF LoadsInv, NeverEvicts
  <2> QED BY <2>2, <2>3 DEF LoadsInv
<1> QED BY <1>3, <1>4

(* A read: one reader less and one load, or one putter, more.              *)
LEMMA FetchLoads ==
  ASSUME TypeOK, PInv, LoadsInv, NEW w \in Workers, Fetch(w)
  PROVE  LoadsInv'
<1> DEFINE s == fetching[w]
<1>1. UNCHANGED <<cacheSize, entries>> /\ state[w] = "fetch"
  BY DEF Fetch, modeVars
<1>2. s \in Subtrees
  <2>1. task[w] \in Tokens /\ s \in Spans[task[w]]
    <3>1. task[w] \in 0..(received - 1)
      BY <1>1 DEF PInv, TaskInv, Busy
    <3>2. s \in Spans[task[w]]
      BY <1>1 DEF PInv, FetchInv
    <3> QED BY <3>1, <3>2, PoolAssumption DEF Tokens, TypeOK
  <2> QED BY <2>1, SpansType
<1>3. \A v \in Workers : v # w => state'[v] = state[v] /\ fetching'[v] = fetching[v]
  BY DEF Fetch, TypeOK
<1>4. /\ \/ loads' = [loads EXCEPT ![s] = @ + 1] /\ state'[w] = "put" /\ fetching'[w] = s
         \/ loads' = loads /\ state'[w] = "load"
  BY DEF Fetch, TypeOK
<1>5. w \in Fetchers(s) /\ w \notin Putters(s)
  BY <1>1 DEF Fetchers, Putters
<1>6. \A r : r # s => Putters(r)' = Putters(r) /\ Fetchers(r)' = Fetchers(r)
  BY <1>1, <1>3, <1>4 DEF Putters, Fetchers
<1>7. Fetchers(s) \in SUBSET Workers /\ Putters(s) \in SUBSET Workers
  BY DEF Fetchers, Putters
<1>8. loads[s] \in Nat
  BY <1>2 DEF TypeOK
<1>9. \A t \in {s} : Fetchers(t)' = Fetchers(t) \ {w}
  BY <1>1, <1>3, <1>4 DEF Fetchers
<1>10. Cardinality(Fetchers(s) \ {w}) = Cardinality(Fetchers(s)) - 1 /\ Cardinality(Fetchers(s)) \in Nat
  BY <1>5, <1>7, WorkerSets, FS_RemoveElement
<1>11. CASE loads' = [loads EXCEPT ![s] = @ + 1] /\ state'[w] = "put" /\ fetching'[w] = s
  <2>1. \A t \in {s} : Putters(t)' = Putters(t) \cup {w}
    BY <1>1, <1>3, <1>11 DEF Putters
  <2>2. Cardinality(Putters(s) \cup {w}) = Cardinality(Putters(s)) + 1
    BY <1>5, <1>7, WorkerSets, FS_AddElement
  <2>3. /\ \A r \in Subtrees : loads'[r] = IF r = s THEN loads[s] + 1 ELSE loads[r]
    BY <1>2, <1>11 DEF TypeOK
  <2> SUFFICES ASSUME NeverEvicts, NEW r \in Subtrees
               PROVE  IF r \in entries
                        THEN loads'[r] + Cardinality(Fetchers(r)') <= NumWorkers
                        ELSE loads'[r] = Cardinality(Putters(r)')
    BY <1>1 DEF LoadsInv, NeverEvicts
  <2>4. CASE r = s
    <3>1. Fetchers(r)' = Fetchers(s) \ {w} /\ Putters(r)' = Putters(s) \cup {w}
      BY <1>9, <2>1, <2>4
    <3>2. IF s \in entries THEN loads[s] + Cardinality(Fetchers(s)) <= NumWorkers
                           ELSE loads[s] = Cardinality(Putters(s))
      BY <1>2 DEF LoadsInv
    <3>3. NumWorkers \in Nat
      BY PoolAssumption DEF NumWorkers
    <3> QED BY <1>8, <1>10, <2>2, <2>3, <2>4, <3>1, <3>2, <3>3
  <2>5. CASE r # s
    BY <1>6, <2>3, <2>5 DEF LoadsInv
  <2> QED BY <2>4, <2>5
<1>12. CASE loads' = loads /\ state'[w] = "load"
  <2>1. \A t \in {s} : Putters(t)' = Putters(t)
    BY <1>1, <1>3, <1>12 DEF Putters
  <2> SUFFICES ASSUME NeverEvicts, NEW r \in Subtrees
               PROVE  IF r \in entries
                        THEN loads'[r] + Cardinality(Fetchers(r)') <= NumWorkers
                        ELSE loads'[r] = Cardinality(Putters(r)')
    BY <1>1 DEF LoadsInv, NeverEvicts
  <2>2. CASE r = s
    <3>1. Fetchers(r)' = Fetchers(s) \ {w} /\ Putters(r)' = Putters(s)
      BY <1>9, <2>1, <2>2
    <3>2. IF s \in entries THEN loads[s] + Cardinality(Fetchers(s)) <= NumWorkers
                           ELSE loads[s] = Cardinality(Putters(s))
      BY <1>2 DEF LoadsInv
    <3>3. NumWorkers \in Nat
      BY PoolAssumption DEF NumWorkers
    <3> QED BY <1>8, <1>10, <1>12, <2>2, <3>1, <3>2, <3>3
  <2>3. CASE r # s
    BY <1>6, <1>12, <2>3 DEF LoadsInv
  <2> QED BY <2>2, <2>3
<1> QED BY <1>4, <1>11, <1>12

(* The first put: those who have read s and those who still read it are    *)
(* different workers.                                                      *)
LEMMA CachePutLoads ==
  ASSUME TypeOK, PInv, LoadsInv, NEW w \in Workers, CachePut(w)
  PROVE  LoadsInv'
<1> DEFINE s == fetching[w]
<1>1. UNCHANGED <<cacheSize, loads>> /\ state[w] = "put" /\ Insert(s)
  BY DEF CachePut, modeVars
<1>2. s \in Subtrees
  BY <1>1, PoolAssumption DEF PInv, FetchInv
<1>3. /\ state'[w] = "load"
      /\ \A v \in Workers : v # w => state'[v] = state[v] /\ fetching'[v] = fetching[v]
  BY DEF CachePut, TypeOK
<1>4. \A r : Fetchers(r)' = Fetchers(r)
  BY <1>1, <1>3 DEF Fetchers
<1>5. \A r : r # s => Putters(r)' = Putters(r)
  BY <1>1, <1>3 DEF Putters
<1>6. NeverEvicts => entries' = entries \cup {s}
  BY <1>1, <1>2, RoomLeft DEF Insert
<1>7. s \notin entries /\ NeverEvicts => loads[s] + Cardinality(Fetchers(s)) <= NumWorkers
  <2> SUFFICES ASSUME s \notin entries, NeverEvicts
               PROVE  loads[s] + Cardinality(Fetchers(s)) <= NumWorkers
    OBVIOUS
  <2>1. loads[s] = Cardinality(Putters(s))
    BY <1>2 DEF LoadsInv
  <2>2. /\ Putters(s) \in SUBSET Workers /\ Fetchers(s) \in SUBSET Workers
        /\ Putters(s) \cap Fetchers(s) = {}
        /\ (Putters(s) \cup Fetchers(s)) \in SUBSET Workers
    BY DEF Putters, Fetchers
  <2>3. Cardinality(Putters(s) \cup Fetchers(s))
          = Cardinality(Putters(s)) + Cardinality(Fetchers(s)) - Cardinality({})
    BY <2>2, WorkerSets, FS_Union
  <2>4. Cardinality({}) = 0 /\ Cardinality(Putters(s) \cup Fetchers(s)) <= NumWorkers
    BY <2>2, WorkerSets, FS_EmptySet
  <2>5. Cardinality(Putters(s)) \in Nat /\ Cardinality(Fetchers(s)) \in Nat
    BY <2>2, WorkerSets
  <2> QED BY <2>1, <2>3, <2>4, <2>5
<1>8. ASSUME NeverEvicts, NEW r \in Subtrees
      PROVE  IF r \in entries'
               THEN loads[r] + Cardinality(Fetchers(r)) <= NumWorkers
               ELSE loads[r] = Cardinality(Putters(r)')
  <2>1. CASE r = s
    BY <1>6, <1>7, <1>8, <2>1 DEF LoadsInv
  <2>2. CASE r # s
    BY <1>5, <1>6, <1>8, <2>2 DEF LoadsInv
  <2> QED BY <2>1, <2>2
<1> QED BY <1>1, <1>4, <1>8 DEF LoadsInv, NeverEvicts

(* Workers that miss a subtree together read it once each; a subtree that  *)
(* is never evicted is read no more often, for any number of tokens.       *)
THEOREM LoadsBoundedHolds == Spec => []LoadsBounded
<1>1. Init => LoadsInv
  <2> SUFFICES ASSUME Init, NEW s \in Subtrees
               PROVE  s \notin entries /\ loads[s] = Cardinality(Putters(s))
    BY DEF LoadsInv
  <2>1. Putters(s) = {}
    BY DEF Init, Putters
  <2> QED BY <2>1, FS_EmptySet DEF Init
<1>2. TypeOK /\ PInv /\ LoadsInv /\ [Next]_vars => LoadsInv'
  <2> SUFFICES ASSUME TypeOK, PInv, LoadsInv, [Next]_vars PROVE LoadsInv'
    OBVIOUS
  <2>1. CASE MainStep \/ UNCHANGED vars
    <3>1. UNCHANGED <<cacheSize, entries, loads, state, fetching>>
      BY <2>1 DEF MainStep, Send, Close, Wait, vars, modeVars, cacheVars, workerVars
    <3> QED BY <3>1, OtherLoads
  <2>2. ASSUME NEW w \in Workers,
               Receive(w) \/ LoadFragment(w) \/ Assemble(w) \/ RecordBUMP(w) \/ Dump(w) \/ Exit(w)
        PROVE  LoadsInv'
    <3>1. UNCHANGED <<cacheSize, entries, loads, fetching>>
      BY <2>2 DEF Receive, LoadFragment, Assemble, RecordBUMP, Dump, Exit, modeVars, cacheVars
    <3>2. /\ \A v \in Workers : v # w => state'[v] = state[v]
          /\ state[w] \notin {"fetch", "put"} /\ state'[w] \notin {"fetch", "put"}
      BY <2>2 DEF Receive, LoadFragment, Assemble, RecordBUMP, Dump, Exit, TypeOK
    <3> QED BY <3>1, <3>2, OtherLoads
  <2> QED BY <2>1, <2>2, CacheGetLoads, FetchLoads, CachePutLoads DEF Next, WorkerStep
<1>3. TypeOK /\ LoadsInv => LoadsBounded
  <2> SUFFICES ASSUME TypeOK, LoadsInv, NeverEvicts, NEW s \in Subtrees
               PROVE  loads[s] <= NumWorkers
    BY DEF LoadsBounded, NeverEvicts
  <2>1. /\ Cardinality(Putters(s)) \in Nat /\ Cardinality(Putters(s)) <= NumWorkers
        /\ Cardinality(Fetchers(s)) \in Nat
    <3>1. Putters(s) \in SUBSET Workers /\ Fetchers(s) \in SUBSET Workers
      BY DEF Putters, Fetchers
    <3> QED BY <3>1, WorkerSets
  <2>2. loads[s] \in Nat /\ NumWorkers \in Nat
    BY PoolAssumption DEF TypeOK, NumWorkers
  <2> QED BY <2>1, <2>2 DEF LoadsInv
<1> QED BY <1>1, <1>2, <1>3, Invariance, PTL DEF Spec
=============================================================================
