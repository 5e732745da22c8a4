---------------------------- MODULE BumpPoolInv -----------------------------
(***************************************************************************)
(* The inductive invariant behind OneWorkerPerToken, AllAssembled and      *)
(* CacheConsistent, and behind the pool's refinement of TokenWork.  It     *)
(* follows every token from the channel through the hands of one worker to *)
(* its BUMP, and every subtree of it from "to load" to "loaded or failed". *)
(***************************************************************************)
EXTENDS BumpPool

Busy(w) == state[w] \in {"load", "fetch", "put", "record", "dump"}

(* What worker w has still to read for its token.                          *)
Pend(w) == toLoad[w] \cup (IF state[w] = "fetch" THEN {fetching[w]} ELSE {})

(* What a BUMP of t consists of in the end.                                *)
Due(t) == {s \in Available(t) : <<t, s>> \notin failed}

Handled(t) == t < received /\ \A w \in Workers : Holding(w) => task[w] # t

TaskInv == \A w \in Workers : Busy(w) => task[w] \in 0..(received - 1)

HoldInv == \A v, w \in Workers : Holding(v) /\ Holding(w) /\ task[v] = task[w] => v = w

FetchInv ==
  \A w \in Workers :
    state[w] \in {"fetch", "put"} =>
      /\ jit
      /\ fetching[w] \in Spans[task[w]] \ toLoad[w]
      /\ state[w] = "put" => fetching[w] \in Stored

LoadInv ==
  \A w \in Workers :
    Holding(w) =>
      /\ toLoad[w] \subseteq Spans[task[w]]
      /\ \A s \in Pend(w) : <<task[w], s>> \notin failed
      /\ loaded[w] = Due(task[w]) \ Pend(w)
      /\ state[w] = "record" => toLoad[w] = {} /\ loaded[w] # {}

FailedInv == \A t \in Tokens, s \in Subtrees : <<t, s>> \in failed => t < received

DoneInv == \A t \in Tokens : bump[t] = IF Handled(t) THEN Due(t) ELSE {}

CountInv == Len(recorded) = Cardinality({t \in Tokens : bump[t] # {}})

ExitInv ==
  /\ closed => sent = NumBusinesses
  /\ \A w \in Workers : state[w] = "exited" => closed /\ received = sent
  /\ returned => AllExited

CacheInv ==
  /\ IsFiniteSet(entries)
  /\ entries \subseteq Stored
  /\ \A i, j \in 1..Len(order) : order[i] = order[j] => i = j
  /\ CacheConsistent

(* The file is written by the first worker that records a BUMP: once one   *)
(* is recorded, it is there or that worker is about to write it.           *)
DumpInv ==
  /\ \A w \in Workers : state[w] = "dump" => bump[task[w]] # {}
  /\ dumped # NoToken => bump[dumped] # {}
  /\ DumpBumps /\ recorded # << >> => dumped # NoToken \/ \E w \in Workers : state[w] = "dump"

PInv ==
  /\ TaskInv /\ HoldInv /\ FetchInv /\ LoadInv /\ FailedInv
  /\ DoneInv /\ CountInv /\ ExitInv /\ CacheInv /\ DumpInv

(* The workers that have read s and have yet to put it, and those that are *)
(* reading it.                                                             *)
Putters(s)  == {w \in Workers : state[w] = "put" /\ fetching[w] = s}
Fetchers(s) == {w \in Workers : state[w] = "fetch" /\ fetching[w] = s}

NeverEvicts == cacheSize \notin 1..(Cardinality(Subtrees) - 1)

(* Behind LoadsBounded: until s is first put, whoever has read it is about *)
(* to put it; from then on only those who missed it before still read it.  *)
LoadsInv ==
  NeverEvicts =>
    \A s \in Subtrees :
      IF s \in entries
        THEN loads[s] + Cardinality(Fetchers(s)) <= NumWorkers
        ELSE loads[s] = Cardinality(Putters(s))

(* At every moment a token is in the channel, in the hands of exactly one  *)
(* worker, which has accounted for every subtree but those it has still to *)
(* load, or handled for good.                                              *)
PoolInv == TypeOK /\ PInv
=============================================================================
