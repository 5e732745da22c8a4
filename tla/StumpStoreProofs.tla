-------------------------- MODULE StumpStoreProofs --------------------------
(***************************************************************************)
(* Proofs about StumpStore, for any number of goroutines that draw their   *)
(* numbers from one counter and write in any order, any calls, chunks and  *)
(* failures.                                                               *)
(*                                                                         *)
(* Of the first process on a directory: a write never lands on an entry    *)
(* that is there already, because every number is drawn once; so what has  *)
(* been stored stays (NothingLost), and the entries of a call reach the    *)
(* disk in the order in which they were given (PrefixWritten).  An entry is *)
(* stored under its key or waits in one call, so that nothing is missing   *)
(* when no call is under way (AllStored).                                  *)
(*                                                                         *)
(* Discover reads one key after another while entries are added.  ProbeInv *)
(* says that what it has found for a token is, root by root, at least what *)
(* was there when it began and at most what is there now, in order.        *)
(***************************************************************************)
EXTENDS StumpStore, FiniteSetTheorems, TLAPS

Made     == [key : Keys, call : Nat]
Numbered == [entry : Nat, seq : Nat]

StoreType ==
  /\ made \in Seq(Made)
  /\ kind \in {"store", "mem", "disk"}
  /\ calls \in Nat /\ seq \in Nat /\ failures \in Nat /\ opens \in Nat \ {0}
  /\ todo \in [Clients -> Seq(Nat)]
  /\ batch \in [Clients -> Seq(Numbered)]
  /\ written \in [Clients -> Nat]

(* What client c has numbered and not written, and what it has to number.  *)
Left(c)    == written[c] + 1 .. Len(batch[c])
InBatch(c) == {batch[c][i].entry : i \in Left(c)}
InTodo(c)  == {todo[c][i] : i \in DOMAIN todo[c]}
Waiting(c) == InBatch(c) \cup InTodo(c)

(* The entries of a call wait in the order in which they were given.       *)
OrderInv ==
  \A c \in Clients :
    /\ IF batch[c] = << >> THEN written[c] = 0 ELSE written[c] < Len(batch[c])
    /\ \A i, j \in Left(c) : i < j => batch[c][i].entry < batch[c][j].entry
    /\ \A i, j \in DOMAIN todo[c] : i < j => todo[c][i] < todo[c][j]
    /\ \A i \in Left(c), j \in DOMAIN todo[c] : batch[c][i].entry < todo[c][j]

(* A number is drawn once: what has still to be written has numbers of its *)
(* own.                                                                    *)
NumberInv ==
  /\ \A c \in Clients : \A i \in Left(c) : batch[c][i].seq <= seq
  /\ \A c, d \in Clients : \A i \in Left(c), j \in Left(d) :
       batch[c][i].seq = batch[d][j].seq => c = d /\ i = j
  /\ \A ks \in DOMAIN disk : ks[2] \in Nat /\ ks[2] <= seq
  /\ \A ks \in DOMAIN disk, c \in Clients : \A i \in Left(c) : batch[c][i].seq # ks[2]

(* Whatever a call was given before an entry that waits is stored, or      *)
(* waits with it.                                                          *)
CallsInv ==
  /\ \A f \in DOMAIN made : made[f].call <= calls
  /\ Stored \subseteq DOMAIN made
  /\ \A c \in Clients : Waiting(c) \subseteq DOMAIN made
  /\ \A c \in Clients : \A e \in Waiting(c), f \in DOMAIN made :
       f < e /\ made[f].call = made[e].call => f \in Stored \cup Waiting(c)

(* An entry lies under its own key, and nowhere else.                      *)
KeysInv ==
  /\ \A ks \in DOMAIN disk : ks[2] # 0 /\ ks = <<made[disk[ks]].key, ks[2]>>
  /\ \A ks, ls \in DOMAIN disk : disk[ks] = disk[ls] => ks = ls
  /\ \A c \in Clients : \A i \in Left(c) : batch[c][i].seq # 0

(* An entry waits in one place until it is stored; only a failure makes it *)
(* disappear.                                                              *)
OnceInv ==
  /\ \A c \in Clients : Waiting(c) \cap Stored = {}
  /\ \A c, d \in Clients : c # d => Waiting(c) \cap Waiting(d) = {}
  /\ failures = 0 => \A e \in DOMAIN made : e \in Stored \/ \E c \in Clients : e \in Waiting(c)

(* The map in memory has all entries, under their keys and in their order. *)
MemInv ==
  /\ DOMAIN entries \subseteq Keys
  /\ \A e \in DOMAIN made : made[e].key \in DOMAIN entries
  /\ \A k \in DOMAIN entries :
       /\ entries[k] \in Seq(Nat)
       /\ \A i, j \in DOMAIN entries[k] : i < j => entries[k][i] < entries[k][j]
       /\ {entries[k][i] : i \in DOMAIN entries[k]} = {e \in DOMAIN made : made[e].key = k}
       /\ kind = "store" => entries[k] # << >>

FirstProcess == opens = 1 /\ kind = "disk"
InMemory     == opens = 1 /\ kind # "disk"

StoreInv ==
  /\ StoreType
  /\ FirstProcess => OrderInv /\ NumberInv /\ CallsInv /\ KeysInv /\ OnceInv
  /\ InMemory => MemInv
  /\ PrefixWritten

-----------------------------------------------------------------------------
(* A new store has nothing on disk and nothing under way.                  *)
LEMMA InitStore == Init => StoreInv
<1> SUFFICES ASSUME Init PROVE StoreInv
  OBVIOUS
<1>1. StoreType
  BY StoreAssumption DEF Init, StoreType
<1>2. Stored = {} /\ DOMAIN disk = {} /\ DOMAIN made = {}
  BY DEF Init, Stored
<1>3. \A c \in Clients : Left(c) = {} /\ Waiting(c) = {} /\ DOMAIN todo[c] = {}
  BY DEF Init, Left, Waiting, InBatch, InTodo
<1>4. \A c \in Clients : batch[c] = << >> /\ written[c] = 0
  BY DEF Init
<1>5. OrderInv
  BY <1>3, <1>4 DEF OrderInv
<1>6. NumberInv
  BY <1>2, <1>3 DEF NumberInv
<1>7. CallsInv
  BY <1>2, <1>3 DEF CallsInv
<1>8. KeysInv /\ OnceInv
  BY <1>2, <1>3 DEF KeysInv, OnceInv
<1>9. MemInv
  <2>1. DOMAIN entries = {}
    BY DEF Init
  <2> QED BY <1>2, <2>1 DEF MemInv
<1> QED BY <1>1, <1>2, <1>5, <1>6, <1>7, <1>8, <1>9 DEF StoreInv, PrefixWritten

(* The entries of a new call come after all others, in one call.           *)
LEMMA NewCall ==
  ASSUME StoreType, NEW n \in Nat, n # 0, NEW keys \in [1..n -> Keys], Make(keys)
  PROVE  /\ made' \in Seq(Made) /\ calls' = calls + 1
         /\ DOMAIN made = 1..Len(made) /\ DOMAIN made' = 1..(Len(made) + n)
         /\ \A f \in DOMAIN made : made'[f] = made[f]
         /\ \A f \in DOMAIN made' \ DOMAIN made : made'[f].call = calls + 1
         /\ Len(keys) = n /\ NewEntries(keys) = [i \in 1..n |-> Len(made) + i]
         /\ NewEntries(keys) \in Seq(Nat)
<1> DEFINE new == [i \in 1..n |-> [key |-> keys[i], call |-> calls + 1]]
<1>1. keys \in Seq(Keys) /\ Len(keys) = n
  OBVIOUS
<1>2. keys # << >>
  BY <1>1
<1>3. made' = made \o new /\ calls' = calls + 1
  BY <1>1, <1>2 DEF Make
<1>4. new \in Seq(Made) /\ Len(new) = n /\ made \in Seq(Made)
  BY DEF StoreType, Made
<1>5. made' \in Seq(Made) /\ Len(made') = Len(made) + n
  BY <1>3, <1>4
<1>6. \A f \in 1..(Len(made) + n) :
        made'[f] = IF f <= Len(made) THEN made[f] ELSE new[f - Len(made)]
  <2> HIDE DEF new
  <2> QED BY <1>3, <1>4
<1>7. DOMAIN made = 1..Len(made) /\ DOMAIN made' = 1..(Len(made) + n)
  BY <1>4, <1>5
<1>8. \A f \in DOMAIN made : made'[f] = made[f]
  <2> HIDE DEF new
  <2>1. Len(made) \in Nat
    BY <1>4
  <2> QED BY <1>6, <1>7, <2>1
<1>9. \A f \in DOMAIN made' \ DOMAIN made : made'[f].call = calls + 1
  <2> SUFFICES ASSUME NEW f \in DOMAIN made' \ DOMAIN made PROVE made'[f].call = calls + 1
    OBVIOUS
  <2>1. f - Len(made) \in 1..n /\ ~(f <= Len(made)) /\ f \in 1..(Len(made) + n)
    BY <1>4, <1>7
  <2>2. made'[f] = new[f - Len(made)]
    BY <1>6, <2>1
  <2> QED BY <2>1, <2>2
<1>10. NewEntries(keys) = [i \in 1..n |-> Len(made) + i]
  BY <1>1 DEF NewEntries
<1>11. NewEntries(keys) \in Seq(Nat)
  BY <1>4, <1>10
<1> QED BY <1>1, <1>3, <1>5, <1>7, <1>8, <1>9, <1>10, <1>11

(* A call begins: nothing is written, and the new entries wait in order.   *)
LEMMA BeginKeeps ==
  ASSUME StoreInv, NEW c \in Clients, NEW n \in Nat, n # 0, NEW keys \in [1..n -> Keys],
         NEW size, BeginBatch(c, keys, size)
  PROVE  StoreInv'
<1>1. /\ kind = "disk" /\ kind' = kind /\ Make(keys) /\ todo[c] = << >> /\ batch[c] = << >>
      /\ todo' = [todo EXCEPT ![c] = NewEntries(keys)]
      /\ UNCHANGED <<disk, seq, batch, written, failures, opens>>
  BY DEF BeginBatch, Busy, storeVars
<1>2. StoreType
  BY DEF StoreInv
<1>3. /\ made' \in Seq(Made) /\ calls' = calls + 1
      /\ DOMAIN made = 1..Len(made) /\ DOMAIN made' = 1..(Len(made) + n) /\ Len(made) \in Nat
      /\ \A f \in DOMAIN made : made'[f] = made[f]
      /\ \A f \in DOMAIN made' \ DOMAIN made : made'[f].call = calls + 1
      /\ NewEntries(keys) = [i \in 1..n |-> Len(made) + i]
      /\ NewEntries(keys) \in Seq(Nat)
  <2>1. Len(made) \in Nat
    BY <1>2 DEF StoreType
  <2> QED BY <1>1, <1>2, <2>1, NewCall
<1>4. StoreType'
  <2>1. todo' \in [Clients -> Seq(Nat)] /\ calls' \in Nat
    BY <1>1, <1>2, <1>3 DEF StoreType
  <2> QED BY <1>1, <1>2, <1>3, <2>1 DEF StoreType
<1>5. Stored' = Stored
  BY <1>1 DEF Stored
<1>6. \A d \in Clients : Left(d)' = Left(d) /\ InBatch(d)' = InBatch(d)
  BY <1>1 DEF Left, InBatch
<1>7. \A d \in Clients : d # c => todo'[d] = todo[d] /\ Waiting(d)' = Waiting(d)
  BY <1>1, <1>2, <1>6 DEF StoreType, Waiting, InTodo
<1>8. todo'[c] = [i \in 1..n |-> Len(made) + i] /\ DOMAIN todo'[c] = 1..n
  BY <1>1, <1>2, <1>3 DEF StoreType
<1>9. ASSUME FirstProcess' PROVE OrderInv' /\ NumberInv' /\ CallsInv' /\ KeysInv' /\ OnceInv'
  <2>1. OrderInv /\ NumberInv /\ CallsInv /\ KeysInv /\ OnceInv
    BY <1>1, <1>9 DEF StoreInv, FirstProcess
  <2>2. Left(c) = {} /\ InBatch(c) = {}
    <3>1. written[c] = 0 /\ Len(batch[c]) = 0
      BY <1>1, <2>1 DEF OrderInv
    <3> QED BY <3>1 DEF Left, InBatch
  <2>3. Waiting(c)' = {Len(made) + i : i \in 1..n}
    BY <1>6, <1>8, <2>2 DEF Waiting, InTodo
  <2>4. OrderInv'
    <3> SUFFICES ASSUME NEW d \in Clients
                 PROVE  /\ IF batch'[d] = << >> THEN written'[d] = 0
                                                ELSE written'[d] < Len(batch'[d])
                        /\ \A i, j \in Left(d)' : i < j => batch'[d][i].entry < batch'[d][j].entry
                        /\ \A i, j \in DOMAIN todo'[d] : i < j => todo'[d][i] < todo'[d][j]
                        /\ \A i \in Left(d)', j \in DOMAIN todo'[d] :
                             batch'[d][i].entry < todo'[d][j]
      BY DEF OrderInv
    <3>1. CASE d = c
      BY <1>1, <1>3, <1>6, <1>8, <2>1, <2>2, <3>1 DEF OrderInv
    <3>2. CASE d # c
      BY <1>1, <1>6, <1>7, <2>1, <3>2 DEF OrderInv
    <3> QED BY <3>1, <3>2
  <2>5. NumberInv'
    BY <1>1, <1>6, <2>1 DEF NumberInv
  <2>6. CallsInv'
    <3>0. calls \in Nat /\ \A f \in DOMAIN made : made[f].call \in Nat /\ made[f].call <= calls
      <4>1. calls \in Nat /\ \A f \in DOMAIN made : made[f] \in Made
        BY <1>2 DEF StoreType
      <4> QED BY <2>1, <4>1 DEF CallsInv, Made
    <3>1. \A f \in DOMAIN made' : made'[f].call <= calls'
      <4> SUFFICES ASSUME NEW f \in DOMAIN made' PROVE made'[f].call <= calls'
        OBVIOUS
      <4>1. CASE f \in DOMAIN made
        BY <1>3, <3>0, <4>1
      <4>2. CASE f \notin DOMAIN made
        BY <1>3, <3>0, <4>2
      <4> QED BY <4>1, <4>2
    <3>2. Stored' \subseteq DOMAIN made'
      BY <1>3, <1>5, <2>1 DEF CallsInv
    <3>3. \A d \in Clients : Waiting(d)' \subseteq DOMAIN made'
      BY <1>3, <1>7, <2>1, <2>3 DEF CallsInv
    <3>4. ASSUME NEW d \in Clients, NEW e \in Waiting(d)', NEW f \in DOMAIN made',
                 f < e, made'[f].call = made'[e].call
          PROVE  f \in Stored' \cup Waiting(d)'
      <4>1. CASE d = c
        <5>1. e \in DOMAIN made' \ DOMAIN made /\ made'[e].call = calls + 1
          BY <1>3, <2>3, <3>4, <4>1
        <5>2. f \notin DOMAIN made
          BY <1>3, <3>0, <3>4, <5>1
        <5>3. f - Len(made) \in 1..n /\ f = Len(made) + (f - Len(made))
          BY <1>3, <5>2
        <5> QED BY <2>3, <4>1, <5>3
      <4>2. CASE d # c
        <5>1. e \in Waiting(d) /\ e \in DOMAIN made /\ made'[e] = made[e]
          BY <1>3, <1>7, <2>1, <4>2 DEF CallsInv
        <5>2. f \in DOMAIN made /\ made'[f] = made[f]
          BY <1>3, <3>4, <5>1
        <5> QED BY <1>5, <1>7, <2>1, <3>4, <4>2, <5>1, <5>2 DEF CallsInv
      <4> QED BY <4>1, <4>2
    <3> QED BY <3>1, <3>2, <3>3, <3>4 DEF CallsInv
  <2>7. KeysInv'
    <3>1. \A ks \in DOMAIN disk : disk[ks] \in DOMAIN made
      BY <2>1 DEF CallsInv, Stored
    <3>2. \A ks \in DOMAIN disk : made'[disk[ks]] = made[disk[ks]]
      BY <1>3, <3>1
    <3> QED BY <1>1, <1>6, <2>1, <3>2 DEF KeysInv
  <2>8. OnceInv'
    <3>1. \A e \in Waiting(c)' : e \notin DOMAIN made
      BY <1>3, <2>3
    <3>2. \A d \in Clients : Waiting(d)' \cap Stored' = {}
      <4> SUFFICES ASSUME NEW d \in Clients PROVE Waiting(d)' \cap Stored = {}
        BY <1>5
      <4>1. CASE d = c
        BY <2>1, <3>1, <4>1 DEF CallsInv
      <4>2. CASE d # c
        BY <1>7, <2>1, <4>2 DEF OnceInv
      <4> QED BY <4>1, <4>2
    <3>3. ASSUME NEW d \in Clients, NEW e \in Clients, d # e
          PROVE  Waiting(d)' \cap Waiting(e)' = {}
      <4>1. CASE d = c
        BY <1>7, <2>1, <3>1, <3>3, <4>1 DEF CallsInv
      <4>2. CASE e = c
        BY <1>7, <2>1, <3>1, <3>3, <4>2 DEF CallsInv
      <4>3. CASE d # c /\ e # c
        BY <1>7, <2>1, <3>3, <4>3 DEF OnceInv
      <4> QED BY <4>1, <4>2, <4>3
    <3>4. ASSUME failures' = 0, NEW e \in DOMAIN made'
          PROVE  e \in Stored' \/ \E d \in Clients : e \in Waiting(d)'
      <4>1. CASE e \in DOMAIN made
        <5>1. Waiting(c) = {}
          <6>1. todo[c] = << >>
            BY <1>1
          <6> QED BY <2>2, <6>1 DEF Waiting, InTodo
        <5>2. e \in Stored \/ \E d \in Clients : e \in Waiting(d)
          BY <1>1, <2>1, <3>4, <4>1 DEF OnceInv
        <5> QED BY <1>5, <1>7, <5>1, <5>2
      <4>2. CASE e \notin DOMAIN made
        <5>1. e - Len(made) \in 1..n /\ e = Len(made) + (e - Len(made))
          BY <1>3, <4>2
        <5> QED BY <2>3, <5>1
      <4> QED BY <4>1, <4>2
    <3> QED BY <3>2, <3>3, <3>4 DEF OnceInv
  <2> QED BY <2>4, <2>5, <2>6, <2>7, <2>8
<1>10. PrefixWritten'
  <2> SUFFICES ASSUME opens = 1, NEW e \in Stored, NEW f \in DOMAIN made', f < e,
                      made'[f].call = made'[e].call
               PROVE  f \in Stored
    BY <1>1, <1>5 DEF PrefixWritten
  <2>1. PrefixWritten /\ CallsInv
    BY <1>1 DEF StoreInv, FirstProcess
  <2>2. e \in DOMAIN made /\ f \in DOMAIN made
    BY <1>3, <2>1 DEF CallsInv
  <2> QED BY <1>1, <1>3, <2>1, <2>2 DEF PrefixWritten
<1>11. ~InMemory'
  BY <1>1 DEF InMemory
<1> QED BY <1>4, <1>9, <1>10, <1>11 DEF StoreInv

(* The next entry draws a number that nobody has.                          *)
LEMMA NumberKeeps ==
  ASSUME StoreInv, NEW c \in Clients, Number(c)
  PROVE  StoreInv'
<1> DEFINE p == [entry |-> Head(todo[c]), seq |-> seq + 1]
           n == Len(batch[c])
<1>1. /\ todo[c] # << >> /\ written[c] = 0 /\ seq' = seq + 1
      /\ batch' = [batch EXCEPT ![c] = Append(@, p)]
      /\ todo' = [todo EXCEPT ![c] = Tail(@)]
      /\ UNCHANGED <<kind, entries, disk, written, made, calls, failures, opens>>
  BY DEF Number, countVars
<1>2. StoreType /\ todo[c] \in Seq(Nat) /\ batch[c] \in Seq(Numbered) /\ n \in Nat
  BY DEF StoreInv, StoreType
<1>3. /\ Head(todo[c]) = todo[c][1] /\ Head(todo[c]) \in Nat /\ Len(todo[c]) \in Nat \ {0}
      /\ Tail(todo[c]) \in Seq(Nat) /\ DOMAIN Tail(todo[c]) = 1..(Len(todo[c]) - 1)
      /\ \A i \in 1..(Len(todo[c]) - 1) : Tail(todo[c])[i] = todo[c][i + 1]
      /\ DOMAIN todo[c] = 1..Len(todo[c])
  BY <1>1, <1>2
<1>4. p \in Numbered
  BY <1>2, <1>3 DEF StoreType, Numbered
<1>5. /\ batch'[c] = Append(batch[c], p) /\ todo'[c] = Tail(todo[c])
      /\ \A d \in Clients : d # c => batch'[d] = batch[d] /\ todo'[d] = todo[d]
  BY <1>1, <1>2 DEF StoreType
<1>6. /\ batch'[c] \in Seq(Numbered) /\ Len(batch'[c]) = n + 1
      /\ \A i \in 1..n : batch'[c][i] = batch[c][i]
      /\ batch'[c][n + 1] = p
  <2> HIDE DEF p
  <2> QED BY <1>2, <1>4, <1>5
<1>7. StoreType'
  <2>1. seq' \in Nat
    BY <1>1, <1>2 DEF StoreType
  <2>2. batch' \in [Clients -> Seq(Numbered)]
    BY <1>1, <1>2, <1>5, <1>6 DEF StoreType
  <2>3. todo' \in [Clients -> Seq(Nat)]
    BY <1>1, <1>2, <1>3 DEF StoreType
  <2> QED BY <1>1, <1>2, <2>1, <2>2, <2>3 DEF StoreType
<1>8. Stored' = Stored
  BY <1>1 DEF Stored
<1>9. PrefixWritten'
  BY <1>1, <1>8 DEF StoreInv, PrefixWritten
<1>10. ASSUME FirstProcess' PROVE OrderInv' /\ NumberInv' /\ CallsInv' /\ KeysInv' /\ OnceInv'
  <2>1. OrderInv /\ NumberInv /\ CallsInv /\ KeysInv /\ OnceInv
    BY <1>1, <1>10 DEF StoreInv, FirstProcess
  <2>2. /\ Left(c) = 1..n /\ Left(c)' = 1..(n + 1)
        /\ \A d \in Clients : d # c => Left(d)' = Left(d)
    BY <1>1, <1>2, <1>5, <1>6 DEF Left
  <2>3. \A i \in 1..n : batch'[c][i].entry = batch[c][i].entry /\ batch'[c][i].seq = batch[c][i].seq
    BY <1>6
  <2>4. batch'[c][n + 1].entry = todo[c][1] /\ batch'[c][n + 1].seq = seq + 1
    BY <1>3, <1>6
  <2>5. \A d \in Clients : d # c => Waiting(d)' = Waiting(d)
    BY <1>5, <2>2 DEF Waiting, InBatch, InTodo
  <2>6. Waiting(c)' = Waiting(c)
    <3>1. InBatch(c)' = InBatch(c) \cup {todo[c][1]}
      <4>1. InBatch(c)' = {batch'[c][i].entry : i \in 1..(n + 1)}
        BY <2>2 DEF InBatch
      <4>2. InBatch(c) = {batch[c][i].entry : i \in 1..n}
        BY <2>2 DEF InBatch
      <4>3. \A i : i \in 1..(n + 1) <=> i \in 1..n \/ i = n + 1
        BY <1>2
      <4> HIDE DEF n
      <4> QED BY <2>3, <2>4, <4>1, <4>2, <4>3
    <3>2. InTodo(c)' = {todo[c][i + 1] : i \in 1..(Len(todo[c]) - 1)}
      <4>1. InTodo(c)' = {todo'[c][i] : i \in 1..(Len(todo[c]) - 1)}
        BY <1>3, <1>5 DEF InTodo
      <4> QED BY <1>3, <1>5, <4>1
    <3>3. InTodo(c) = {todo[c][1]} \cup {todo[c][i + 1] : i \in 1..(Len(todo[c]) - 1)}
      <4>1. \A i \in 1..Len(todo[c]) : i = 1 \/ (i - 1 \in 1..(Len(todo[c]) - 1) /\ (i - 1) + 1 = i)
        BY <1>3
      <4>2. \A i \in 1..(Len(todo[c]) - 1) : i + 1 \in 1..Len(todo[c])
        BY <1>3
      <4>3. 1 \in 1..Len(todo[c])
        BY <1>3
      <4>4. InTodo(c) = {todo[c][i] : i \in 1..Len(todo[c])}
        BY <1>3 DEF InTodo
      <4> QED BY <4>1, <4>2, <4>3, <4>4
    <3> QED BY <3>1, <3>2, <3>3 DEF Waiting
  <2>7. OrderInv'
    <3> SUFFICES ASSUME NEW d \in Clients
                 PROVE  /\ IF batch'[d] = << >> THEN written'[d] = 0
                                                ELSE written'[d] < Len(batch'[d])
                        /\ \A i, j \in Left(d)' : i < j => batch'[d][i].entry < batch'[d][j].entry
                        /\ \A i, j \in DOMAIN todo'[d] : i < j => todo'[d][i] < todo'[d][j]
                        /\ \A i \in Left(d)', j \in DOMAIN todo'[d] :
                             batch'[d][i].entry < todo'[d][j]
      BY DEF OrderInv
    <3>1. CASE d # c
      BY <1>1, <1>5, <2>1, <2>2, <3>1 DEF OrderInv
    <3>2. CASE d = c
      <4>0. n \in Nat /\ Len(todo[c]) \in Nat \ {0}
        BY <1>2, <1>3
      <4>1. written'[d] = 0 /\ 0 < Len(batch'[d])
        BY <1>1, <1>2, <1>6, <3>2
      <4>2. /\ \A i, j \in 1..n : i < j => batch[c][i].entry < batch[c][j].entry
            /\ \A i, j \in 1..Len(todo[c]) : i < j => todo[c][i] < todo[c][j]
            /\ \A i \in 1..n, j \in 1..Len(todo[c]) : batch[c][i].entry < todo[c][j]
        BY <1>3, <2>1, <2>2 DEF OrderInv
      <4>3. \A i, j \in 1..(n + 1) : i < j => batch'[c][i].entry < batch'[c][j].entry
        <5> SUFFICES ASSUME NEW i \in 1..(n + 1), NEW j \in 1..(n + 1), i < j
                     PROVE  batch'[c][i].entry < batch'[c][j].entry
          OBVIOUS
        <5>1. i \in 1..n /\ (j \in 1..n \/ j = n + 1) /\ 1 \in 1..Len(todo[c])
          <6> HIDE DEF n
          <6> QED BY <4>0
        <5> QED BY <2>3, <2>4, <4>2, <5>1
      <4>4. \A i, j \in 1..(Len(todo[c]) - 1) : i < j => todo[c][i + 1] < todo[c][j + 1]
        <5> SUFFICES ASSUME NEW i \in 1..(Len(todo[c]) - 1), NEW j \in 1..(Len(todo[c]) - 1), i < j
                     PROVE  todo[c][i + 1] < todo[c][j + 1]
          OBVIOUS
        <5>1. i + 1 \in 1..Len(todo[c]) /\ j + 1 \in 1..Len(todo[c]) /\ i + 1 < j + 1
          BY <4>0
        <5> QED BY <4>2, <5>1
      <4>5. \A i \in 1..(n + 1), j \in 1..(Len(todo[c]) - 1) : batch'[c][i].entry < todo[c][j + 1]
        <5> SUFFICES ASSUME NEW i \in 1..(n + 1), NEW j \in 1..(Len(todo[c]) - 1)
                     PROVE  batch'[c][i].entry < todo[c][j + 1]
          OBVIOUS
        <5>1. j + 1 \in 1..Len(todo[c]) /\ 1 \in 1..Len(todo[c]) /\ 1 < j + 1
          BY <1>3
        <5>2. i \in 1..n \/ i = n + 1
          BY <1>2
        <5> QED BY <2>3, <2>4, <4>2, <5>1, <5>2
      <4>6. batch'[d] # << >>
        BY <1>2, <1>6, <3>2
      <4>7. \A j \in DOMAIN todo'[c] : j \in 1..(Len(todo[c]) - 1) /\ todo'[c][j] = todo[c][j + 1]
        BY <1>3, <1>5
      <4>8. \A i, j \in DOMAIN todo'[c] : i < j => todo'[c][i] < todo'[c][j]
        BY <4>4, <4>7
      <4>9. \A i \in Left(c)', j \in DOMAIN todo'[c] : batch'[c][i].entry < todo'[c][j]
        BY <2>2, <4>5, <4>7
      <4> QED BY <2>2, <3>2, <4>1, <4>3, <4>6, <4>8, <4>9
    <3> QED BY <3>1, <3>2
  <2>8. NumberInv'
    <3>0. seq \in Nat /\ seq' = seq + 1
      BY <1>1, <1>2 DEF StoreType
    <3>1. \A d \in Clients : \A i \in Left(d)' :
            \/ d = c /\ i = n + 1 /\ batch'[d][i].seq = seq + 1
            \/ i \in Left(d) /\ batch'[d][i].seq = batch[d][i].seq
      <4> SUFFICES ASSUME NEW d \in Clients, NEW i \in Left(d)'
                   PROVE  \/ d = c /\ i = n + 1 /\ batch'[d][i].seq = seq + 1
                          \/ i \in Left(d) /\ batch'[d][i].seq = batch[d][i].seq
        OBVIOUS
      <4>1. CASE d = c
        <5>1. i \in 1..n \/ i = n + 1
          BY <1>2, <2>2, <4>1
        <5> QED BY <2>2, <2>3, <2>4, <4>1, <5>1
      <4>2. CASE d # c
        BY <1>5, <2>2, <4>2
      <4> QED BY <4>1, <4>2
    <3>2. \A d \in Clients : \A i \in Left(d) : batch[d][i].seq \in Nat /\ batch[d][i].seq <= seq
      <4> SUFFICES ASSUME NEW d \in Clients, NEW i \in Left(d)
                   PROVE  batch[d][i].seq \in Nat /\ batch[d][i].seq <= seq
        OBVIOUS
      <4>1. batch[d] \in Seq(Numbered) /\ written[d] \in Nat
        BY <1>2 DEF StoreType
      <4>2. i \in 1..Len(batch[d])
        BY <4>1 DEF Left
      <4>3. batch[d][i] \in Numbered
        BY <4>1, <4>2
      <4> QED BY <2>1, <4>3 DEF NumberInv, Numbered
    <3>3. \A d \in Clients : \A i \in Left(d)' : batch'[d][i].seq <= seq'
      BY <3>0, <3>1, <3>2
    <3>4. ASSUME NEW d \in Clients, NEW e \in Clients, NEW i \in Left(d)', NEW j \in Left(e)',
                 batch'[d][i].seq = batch'[e][j].seq
          PROVE  d = e /\ i = j
      <4>1. CASE i \in Left(d) /\ j \in Left(e) /\ batch'[d][i].seq = batch[d][i].seq
                 /\ batch'[e][j].seq = batch[e][j].seq
        <5>1. batch[d][i].seq = batch[e][j].seq => d = e /\ i = j
          BY <2>1, <4>1 DEF NumberInv
        <5> QED BY <3>4, <4>1, <5>1
      <4>2. CASE d = c /\ i = n + 1 /\ e = c /\ j = n + 1
        BY <4>2
      <4> QED BY <3>0, <3>1, <3>2, <3>4, <4>1, <4>2
    <3>5. \A ks \in DOMAIN disk' : ks[2] \in Nat /\ ks[2] <= seq'
      BY <1>1, <2>1, <3>0 DEF NumberInv
    <3>6. \A ks \in DOMAIN disk' : \A d \in Clients : \A i \in Left(d)' : batch'[d][i].seq # ks[2]
      <4> SUFFICES ASSUME NEW ks \in DOMAIN disk, NEW d \in Clients, NEW i \in Left(d)'
                   PROVE  batch'[d][i].seq # ks[2]
        BY <1>1
      <4>1. ks[2] \in Nat /\ ks[2] <= seq /\ \A j \in Left(d) : batch[d][j].seq # ks[2]
        BY <2>1 DEF NumberInv
      <4> QED BY <3>0, <3>1, <4>1
    <3> QED BY <3>3, <3>4, <3>5, <3>6 DEF NumberInv
  <2>9. CallsInv'
    <3>1. \A d \in Clients : Waiting(d)' = Waiting(d)
      BY <2>5, <2>6
    <3> QED BY <1>1, <1>8, <2>1, <3>1 DEF CallsInv
  <2>10. KeysInv'
    <3>1. ASSUME NEW d \in Clients, NEW i \in Left(d)' PROVE batch'[d][i].seq # 0
      <4>1. CASE d = c /\ i = n + 1
        BY <1>2, <2>4, <4>1 DEF StoreType
      <4>2. CASE ~(d = c /\ i = n + 1)
        <5>1. i \in Left(d) /\ batch'[d][i].seq = batch[d][i].seq
          <6>1. CASE d = c
            BY <1>2, <2>2, <2>3, <4>2, <6>1
          <6>2. CASE d # c
            BY <1>5, <2>2, <6>2
          <6> QED BY <6>1, <6>2
        <5> QED BY <2>1, <5>1 DEF KeysInv
      <4> QED BY <4>1, <4>2
    <3> QED BY <1>1, <2>1, <3>1 DEF KeysInv
  <2>11. OnceInv'
    BY <1>1, <1>8, <2>1, <2>5, <2>6 DEF OnceInv
  <2> QED BY <2>7, <2>8, <2>9, <2>10, <2>11
<1>11. InMemory' => MemInv'
  BY <1>1 DEF StoreInv, InMemory, MemInv
<1> QED BY <1>7, <1>9, <1>10, <1>11 DEF StoreInv

(* An entry is written under a key that is free, and those of its call     *)
(* before it are there already.                                            *)
LEMMA WriteKeeps ==
  ASSUME StoreInv, NEW c \in Clients, Write(c)
  PROVE  StoreInv'
<1> DEFINE w == written[c] + 1
           p == batch[c][w]
           k == <<made[p.entry].key, p.seq>>
<1>1. /\ batch[c] # << >>
      /\ disk' = [ks \in DOMAIN disk \cup {k} |-> IF ks = k THEN p.entry ELSE disk[ks]]
      /\ IF w = Len(batch[c])
           THEN batch' = [batch EXCEPT ![c] = << >>] /\ written' = [written EXCEPT ![c] = 0]
           ELSE written' = [written EXCEPT ![c] = @ + 1] /\ UNCHANGED batch
      /\ UNCHANGED <<kind, entries, seq, todo, made, calls, failures, opens>>
  BY DEF Write, Ready, countVars
<1>2. /\ StoreType /\ batch[c] \in Seq(Numbered) /\ Len(batch[c]) \in Nat /\ written[c] \in Nat
      /\ w \in Nat
  BY DEF StoreInv, StoreType
<1>3. \A d \in Clients : d # c => batch'[d] = batch[d] /\ written'[d] = written[d]
  BY <1>1, <1>2 DEF StoreType
<1>4. IF w = Len(batch[c]) THEN batch'[c] = << >> /\ written'[c] = 0
                           ELSE batch'[c] = batch[c] /\ written'[c] = w
  BY <1>1, <1>2 DEF StoreType
<1>5. StoreType'
  <2>1. /\ batch \in [Clients -> Seq(Numbered)] /\ written \in [Clients -> Nat]
        /\ << >> \in Seq(Numbered) /\ 0 \in Nat
    BY <1>2 DEF StoreType
  <2>2. CASE w = Len(batch[c])
    <3>1. batch' \in [Clients -> Seq(Numbered)]
      <4>1. batch' = [batch EXCEPT ![c] = << >>]
        BY <1>1, <2>2
      <4> QED BY <2>1, <4>1
    <3>2. written' \in [Clients -> Nat]
      <4>1. written' = [written EXCEPT ![c] = 0]
        BY <1>1, <2>2
      <4> QED BY <2>1, <4>1
    <3> QED BY <1>1, <1>2, <3>1, <3>2 DEF StoreType
  <2>3. CASE w # Len(batch[c])
    <3>1. written' \in [Clients -> Nat]
      <4>1. written' = [written EXCEPT ![c] = w]
        BY <1>1, <2>3
      <4> QED BY <1>2, <2>1, <4>1
    <3> QED BY <1>1, <1>2, <2>3, <3>1 DEF StoreType
  <2> QED BY <2>2, <2>3
<1>6. CASE ~FirstProcess
  <2>1. ~FirstProcess'
    BY <1>1, <1>6 DEF FirstProcess
  <2>2. PrefixWritten'
    BY <2>1 DEF PrefixWritten, FirstProcess
  <2>3. InMemory' => MemInv'
    <3>1. UNCHANGED <<kind, entries, made, opens>>
      BY <1>1
    <3>2. InMemory' => MemInv
      BY <3>1 DEF StoreInv, InMemory
    <3> QED BY ONLY <3>1, <3>2 DEF MemInv
  <2> QED BY <1>5, <2>1, <2>2, <2>3 DEF StoreInv
<1>7. CASE FirstProcess
  <2>1. OrderInv /\ NumberInv /\ CallsInv /\ KeysInv /\ OnceInv /\ PrefixWritten
    BY <1>7 DEF StoreInv
  <2>2. w \in Left(c) /\ w <= Len(batch[c])
    <3>1. written[c] < Len(batch[c])
      BY <1>1, <2>1 DEF OrderInv
    <3> QED BY <1>2, <3>1 DEF Left
  <2>3. /\ Left(c)' = Left(c) \ {w}
        /\ \A i \in Left(c)' : batch'[c][i] = batch[c][i]
    BY <1>2, <1>4, <2>2 DEF Left
  <2>4. \A d \in Clients : d # c => Left(d)' = Left(d)
    BY <1>3 DEF Left
  <2>5. \A d \in Clients : \A i \in Left(d)' : i \in Left(d) /\ batch'[d][i] = batch[d][i]
    BY <1>3, <2>3, <2>4
  <2>6. \A i \in Left(c)' : p.entry < batch[c][i].entry
    <3>1. \A i \in Left(c) : i # w => w < i
      BY <1>2 DEF Left
    <3> QED BY <2>1, <2>2, <2>3, <3>1 DEF OrderInv
  <2>7. \A j \in DOMAIN todo[c] : p.entry < todo[c][j]
    BY <2>1, <2>2 DEF OrderInv
  <2>8. Waiting(c) = Waiting(c)' \cup {p.entry}
    <3>1. InBatch(c)' = {batch[c][i].entry : i \in Left(c)'}
      BY <2>3 DEF InBatch
    <3>2. InBatch(c) = InBatch(c)' \cup {p.entry}
      BY <2>2, <2>3, <3>1 DEF InBatch
    <3>3. InTodo(c)' = InTodo(c)
      BY <1>1 DEF InTodo
    <3> QED BY <3>2, <3>3 DEF Waiting
  <2>9. \A e \in Waiting(c)' : p.entry < e
    <3>1. \A e \in InBatch(c)' : p.entry < e
      BY <2>3, <2>6 DEF InBatch
    <3>2. \A e \in InTodo(c)' : p.entry < e
      BY <1>1, <2>7 DEF InTodo
    <3> QED BY <3>1, <3>2 DEF Waiting
  <2>10. \A d \in Clients : d # c => Waiting(d)' = Waiting(d)
    <3>1. \A d \in Clients : d # c => InBatch(d)' = InBatch(d)
      BY <1>3, <2>4 DEF InBatch
    <3>2. \A d \in Clients : InTodo(d)' = InTodo(d)
      BY <1>1 DEF InTodo
    <3> QED BY <3>1, <3>2 DEF Waiting
  <2>11. k \notin DOMAIN disk
    BY <2>1, <2>2 DEF NumberInv
  <2>12. Stored' = Stored \cup {p.entry}
    <3>1. DOMAIN disk' = DOMAIN disk \cup {k}
      BY <1>1
    <3>2. disk'[k] = p.entry /\ \A ks \in DOMAIN disk : disk'[ks] = disk[ks]
      BY <1>1, <2>11
    <3> HIDE DEF k, p
    <3> QED BY <3>1, <3>2 DEF Stored
  <2>13. OrderInv'
    <3> SUFFICES ASSUME NEW d \in Clients
                 PROVE  /\ IF batch'[d] = << >> THEN written'[d] = 0
                                                ELSE written'[d] < Len(batch'[d])
                        /\ \A i, j \in Left(d)' : i < j => batch'[d][i].entry < batch'[d][j].entry
                        /\ \A i, j \in DOMAIN todo'[d] : i < j => todo'[d][i] < todo'[d][j]
                        /\ \A i \in Left(d)', j \in DOMAIN todo'[d] :
                             batch'[d][i].entry < todo'[d][j]
      BY DEF OrderInv
    <3>1. IF batch'[d] = << >> THEN written'[d] = 0 ELSE written'[d] < Len(batch'[d])
      <4>1. CASE d = c
        BY <1>2, <1>4, <2>2, <4>1
      <4>2. CASE d # c
        BY <1>3, <2>1, <4>2 DEF OrderInv
      <4> QED BY <4>1, <4>2
    <3>2. todo'[d] = todo[d]
      BY <1>1
    <3> QED BY <2>1, <2>5, <3>1, <3>2 DEF OrderInv
  <2>14. NumberInv'
    <3>1. \A d \in Clients : \A i \in Left(d)' : batch'[d][i].seq <= seq'
      BY <1>1, <2>1, <2>5 DEF NumberInv
    <3>2. \A d, e \in Clients : \A i \in Left(d)', j \in Left(e)' :
            batch'[d][i].seq = batch'[e][j].seq => d = e /\ i = j
      BY <2>1, <2>5 DEF NumberInv
    <3>3. p.seq \in Nat /\ p.seq <= seq
      <4>1. w \in 1..Len(batch[c])
        BY <1>2, <2>2
      <4>2. p \in Numbered
        BY <1>2, <4>1
      <4>3. p.seq <= seq
        BY <2>1, <2>2 DEF NumberInv
      <4> QED BY <4>2, <4>3 DEF Numbered
    <3>4. DOMAIN disk' = DOMAIN disk \cup {k} /\ k[2] = p.seq
      BY <1>1
    <3>5. \A ks \in DOMAIN disk' : ks[2] \in Nat /\ ks[2] <= seq'
      BY <1>1, <2>1, <3>3, <3>4 DEF NumberInv
    <3>6. \A d \in Clients : \A i \in Left(d)' : batch'[d][i].seq # p.seq
      BY <2>1, <2>2, <2>3, <2>5 DEF NumberInv
    <3>7. \A ks \in DOMAIN disk' : \A d \in Clients : \A i \in Left(d)' : batch'[d][i].seq # ks[2]
      <4> HIDE DEF k, p
      <4> QED BY <2>1, <2>5, <3>4, <3>6 DEF NumberInv
    <3> QED BY <3>1, <3>2, <3>5, <3>7 DEF NumberInv
  <2>15. CallsInv'
    <3>1. p.entry \in DOMAIN made
      BY <2>1, <2>8 DEF CallsInv
    <3>2. \A d \in Clients : Waiting(d)' \subseteq Waiting(d) /\ Waiting(d) \subseteq Waiting(d)' \cup Stored'
      BY <2>8, <2>10, <2>12
    <3>3. \A d \in Clients : \A e \in Waiting(d)', f \in DOMAIN made :
            f < e /\ made[f].call = made[e].call => f \in Stored' \cup Waiting(d)'
      BY <2>1, <2>12, <3>2 DEF CallsInv
    <3> HIDE DEF p
    <3> QED BY <1>1, <2>1, <2>12, <3>1, <3>2, <3>3 DEF CallsInv
  <2>16. PrefixWritten'
    <3> SUFFICES ASSUME NEW e \in Stored', NEW f \in DOMAIN made, f < e,
                        made[f].call = made[e].call
                 PROVE  f \in Stored'
      BY <1>1 DEF PrefixWritten
    <3>1. CASE e \in Stored
      BY <1>7, <2>1, <2>12, <3>1 DEF PrefixWritten, FirstProcess
    <3>2. CASE e = p.entry
      <4>1. f \in Stored \cup Waiting(c)
        BY <2>1, <2>8, <3>2 DEF CallsInv
      <4>2. f \notin Waiting(c)'
        <5>1. e \in Int /\ f \in Int
          <6>1. p \in Numbered
            BY <1>2, <2>2
          <6> QED BY <1>2, <3>2, <6>1 DEF Numbered, StoreType
        <5> QED BY <2>9, <3>2, <5>1
      <4> QED BY <2>8, <2>12, <4>1, <4>2
    <3> QED BY <2>12, <3>1, <3>2
  <2>17. p.entry \in DOMAIN made /\ p.entry \notin Stored /\ p.seq # 0
    BY <2>1, <2>2, <2>8 DEF CallsInv, OnceInv, KeysInv
  <2>18. KeysInv'
    <3>1. /\ DOMAIN disk' = DOMAIN disk \cup {k} /\ disk'[k] = p.entry
          /\ \A ks \in DOMAIN disk : disk'[ks] = disk[ks] /\ disk[ks] # p.entry
      BY <1>1, <2>11, <2>17 DEF Stored
    <3>2. k[2] # 0 /\ k = <<made[p.entry].key, k[2]>>
      BY <2>17
    <3> HIDE DEF k, p
    <3>3. \A ks \in DOMAIN disk' : ks[2] # 0 /\ ks = <<made'[disk'[ks]].key, ks[2]>>
      BY <1>1, <2>1, <3>1, <3>2 DEF KeysInv
    <3>4. \A ks, ls \in DOMAIN disk' : disk'[ks] = disk'[ls] => ks = ls
      BY <2>1, <3>1 DEF KeysInv
    <3> QED BY <2>1, <2>5, <3>3, <3>4 DEF KeysInv
  <2>19. OnceInv'
    <3>1. p.entry \in Waiting(c) /\ p.entry \notin Waiting(c)'
      <4>1. p.entry \in Nat
        BY <1>2, <2>17 DEF StoreType
      <4>2. ~(p.entry < p.entry)
        BY <4>1
      <4> QED BY <2>8, <2>9, <4>2
    <3> HIDE DEF p
    <3>2. \A d \in Clients : Waiting(d)' \subseteq Waiting(d) /\ p.entry \notin Waiting(d)'
      BY <2>1, <2>8, <2>10, <3>1 DEF OnceInv
    <3>3. \A d \in Clients : Waiting(d) \subseteq Waiting(d)' \cup Stored'
      BY <2>8, <2>10, <2>12
    <3>4. \A d \in Clients : Waiting(d)' \cap Stored' = {}
      BY <2>1, <2>12, <3>2 DEF OnceInv
    <3>5. \A d, e \in Clients : d # e => Waiting(d)' \cap Waiting(e)' = {}
      BY <2>1, <3>2 DEF OnceInv
    <3>6. failures' = 0 => \A e \in DOMAIN made' :
            e \in Stored' \/ \E d \in Clients : e \in Waiting(d)'
      BY <1>1, <2>1, <2>12, <3>3 DEF OnceInv
    <3> QED BY <3>4, <3>5, <3>6 DEF OnceInv
  <2>20. ~InMemory'
    BY <1>1, <1>7 DEF InMemory, FirstProcess
  <2> QED BY <1>5, <2>13, <2>14, <2>15, <2>16, <2>18, <2>19, <2>20 DEF StoreInv
<1> QED BY <1>6, <1>7

(* A call that fails gives up what it has not written.                     *)
LEMMA FailKeeps ==
  ASSUME StoreInv, NEW c \in Clients, WriteFails(c)
  PROVE  StoreInv'
<1>1. /\ batch' = [batch EXCEPT ![c] = << >>] /\ written' = [written EXCEPT ![c] = 0]
      /\ todo' = [todo EXCEPT ![c] = << >>]
      /\ failures' = failures + 1
      /\ UNCHANGED <<kind, entries, disk, seq, made, calls, opens>>
  BY DEF WriteFails, Fails, storeVars
<1>2. /\ StoreType /\ batch \in [Clients -> Seq(Numbered)] /\ written \in [Clients -> Nat]
      /\ todo \in [Clients -> Seq(Nat)]
  BY DEF StoreInv, StoreType
<1>3. /\ batch'[c] = << >> /\ written'[c] = 0 /\ todo'[c] = << >>
      /\ \A d \in Clients : d # c =>
           batch'[d] = batch[d] /\ written'[d] = written[d] /\ todo'[d] = todo[d]
  BY <1>1, <1>2
<1>4. StoreType'
  <2>1. batch' \in [Clients -> Seq(Numbered)]
    BY <1>1, <1>2
  <2>2. written' \in [Clients -> Nat] /\ todo' \in [Clients -> Seq(Nat)]
    BY <1>1, <1>2
  <2> QED BY <1>1, <1>2, <2>1, <2>2 DEF StoreType
<1>5. Left(c)' = {} /\ Waiting(c)' = {} /\ DOMAIN todo'[c] = {}
  BY <1>3 DEF Left, Waiting, InBatch, InTodo
<1>6. \A d \in Clients : d # c => Left(d)' = Left(d) /\ Waiting(d)' = Waiting(d)
  BY <1>3 DEF Left, Waiting, InBatch, InTodo
<1>7. Stored' = Stored
  BY <1>1 DEF Stored
<1>8. PrefixWritten'
  BY <1>1, <1>7 DEF StoreInv, PrefixWritten
<1>9. ASSUME FirstProcess' PROVE OrderInv' /\ NumberInv' /\ CallsInv' /\ KeysInv' /\ OnceInv'
  <2>1. OrderInv /\ NumberInv /\ CallsInv /\ KeysInv /\ OnceInv
    BY <1>1, <1>9 DEF StoreInv, FirstProcess
  <2>2. OrderInv'
    BY <1>3, <1>5, <1>6, <2>1 DEF OrderInv
  <2>3. \A d \in Clients : \A i \in Left(d)' : i \in Left(d) /\ batch'[d][i] = batch[d][i]
    BY <1>3, <1>5, <1>6
  <2>4. NumberInv'
    BY <1>1, <2>1, <2>3 DEF NumberInv
  <2>5. CallsInv'
    BY <1>1, <1>5, <1>6, <1>7, <2>1 DEF CallsInv
  <2>6. KeysInv'
    BY <1>1, <2>1, <2>3 DEF KeysInv
  <2>7. OnceInv'
    <3>1. failures' # 0
      BY <1>1, <1>2 DEF StoreType
    <3> QED BY <1>5, <1>6, <1>7, <2>1, <3>1 DEF OnceInv
  <2> QED BY <2>2, <2>4, <2>5, <2>6, <2>7
<1>10. InMemory' => MemInv'
  BY <1>1 DEF StoreInv, InMemory, MemInv
<1> QED BY <1>4, <1>8, <1>9, <1>10 DEF StoreInv

(* The other process starts with nothing under way; of it nothing is said. *)
LEMMA ReopenKeeps ==
  ASSUME StoreInv, Reopen
  PROVE  StoreInv'
<1>1. /\ opens' = opens + 1 /\ seq' = 0 /\ todo' = [c \in Clients |-> << >>]
      /\ batch' = [c \in Clients |-> << >>] /\ written' = [c \in Clients |-> 0]
      /\ UNCHANGED <<kind, made, calls, failures>>
  BY DEF Reopen
<1>2. StoreType'
  BY <1>1 DEF StoreInv, StoreType
<1>3. opens' # 1
  BY <1>1 DEF StoreInv, StoreType
<1> QED BY <1>2, <1>3 DEF StoreInv, FirstProcess, InMemory, PrefixWritten

(* A store in memory has nothing on disk, and the new entries at the end.  *)
LEMMA MemKeeps ==
  ASSUME StoreInv, NEW key \in Keys, NEW n \in Nat, MemAppend(key, n)
  PROVE  StoreInv'
<1> DEFINE keys == [i \in 1..n |-> key]
           new  == [i \in 1..n |-> [key |-> key, call |-> calls + 1]]
           fresh == [i \in 1..n |-> Len(made) + i]
<1>1. /\ kind # "disk" /\ Make(keys)
      /\ entries' = IF n = 0 /\ kind = "store" THEN entries
                    ELSE [k \in DOMAIN entries \cup {key} |->
                            IF k = key THEN Get(key) \o NewEntries(keys) ELSE entries[k]]
      /\ UNCHANGED <<kind, disk, seq, todo, batch, written, failures, opens>>
  BY DEF MemAppend, batchVars
<1>2. StoreType /\ made \in Seq(Made)
  BY DEF StoreInv, StoreType
<1>3. keys \in Seq(Keys) /\ Len(keys) = n
  OBVIOUS
<1>4. made' = made \o new /\ calls' \in {calls, calls + 1}
  BY <1>1, <1>3 DEF Make
<1>5. new \in Seq(Made) /\ Len(new) = n /\ \A i \in 1..n : new[i].key = key
  BY <1>2 DEF StoreType, Made
<1>6. PICK len \in Nat : len = Len(made)
  BY <1>2
<1>7. /\ made' \in Seq(Made) /\ calls' \in Nat
      /\ DOMAIN made = 1..len /\ DOMAIN made' = 1..(len + n)
      /\ \A f \in 1..len : made'[f] = made[f]
      /\ \A f \in (len + 1)..(len + n) : made'[f].key = key
  <2> HIDE DEF new
  <2>0. calls' \in Nat
    BY <1>2, <1>4 DEF StoreType
  <2>1. made' \in Seq(Made) /\ Len(made') = len + n
    <3>1. made' = made \o new /\ made \in Seq(Made) /\ new \in Seq(Made)
      BY <1>2, <1>4, <1>5
    <3>2. made' \in Seq(Made) /\ Len(made') = Len(made) + Len(new)
      BY ONLY <3>1
    <3> QED BY <1>5, <1>6, <3>2
  <2>2. \A f \in 1..(len + n) : made'[f] = IF f <= len THEN made[f] ELSE new[f - len]
    BY <1>2, <1>4, <1>5, <1>6
  <2>3. \A f \in (len + 1)..(len + n) : f - len \in 1..n /\ ~(f <= len) /\ f \in 1..(len + n)
    OBVIOUS
  <2>4. \A f \in (len + 1)..(len + n) : made'[f].key = key
    BY <1>5, <2>2, <2>3
  <2>5. \A f \in 1..len : made'[f] = made[f]
    BY <2>2
  <2> QED BY <1>2, <1>6, <2>0, <2>1, <2>4, <2>5
<1>8. StoreType'
  BY <1>1, <1>2, <1>7 DEF StoreType
<1>9. ASSUME InMemory' PROVE MemInv'
  <2>1. MemInv
    BY <1>1, <1>9 DEF StoreInv, InMemory
  <2>2. CASE n = 0 /\ kind = "store"
    <3>1. DOMAIN made' = DOMAIN made /\ \A f \in DOMAIN made : made'[f] = made[f]
      BY <1>7, <2>2
    <3>2. entries' = entries /\ kind' = kind
      BY <1>1, <2>2
    <3> QED BY <2>1, <3>1, <3>2 DEF MemInv
  <2>3. CASE ~(n = 0 /\ kind = "store")
    <3> DEFINE Of(k) == {e \in DOMAIN made : made[e].key = k}
    <3>1. PICK old : old = Get(key)
      OBVIOUS
    <3>2. /\ old \in Seq(Nat)
          /\ \A i, j \in DOMAIN old : i < j => old[i] < old[j]
          /\ {old[i] : i \in DOMAIN old} = Of(key)
      <4>1. CASE key \in DOMAIN entries
        BY <1>1, <2>1, <3>1, <4>1 DEF MemInv, Get
      <4>2. CASE key \notin DOMAIN entries
        <5>1. old = << >>
          BY <1>1, <3>1, <4>2 DEF Get
        <5>2. Of(key) = {}
          BY <2>1, <4>2 DEF MemInv
        <5> HIDE DEF Of
        <5> QED BY <5>1, <5>2
      <4> QED BY <4>1, <4>2
    <3>3. PICK m \in Nat : m = Len(old) /\ DOMAIN old = 1..m
      BY <3>2
    <3>4. NewEntries(keys) = fresh /\ fresh \in Seq(Nat) /\ Len(fresh) = n
      BY <1>3, <1>6 DEF NewEntries
    <3>5. PICK list : list = old \o fresh
      OBVIOUS
    <3>6. /\ list \in Seq(Nat) /\ DOMAIN list = 1..(m + n)
          /\ \A i \in 1..m : list[i] = old[i]
          /\ \A i \in (m + 1)..(m + n) : list[i] = len + (i - m)
      <4>0. \A i \in 1..n : fresh[i] = len + i
        BY <1>6
      <4> HIDE DEF fresh
      <4>1. list \in Seq(Nat) /\ Len(list) = m + n
        <5>1. list = old \o fresh /\ old \in Seq(Nat) /\ fresh \in Seq(Nat)
          BY <3>2, <3>4, <3>5
        <5>2. list \in Seq(Nat) /\ Len(list) = Len(old) + Len(fresh)
          BY ONLY <5>1
        <5> QED BY <3>3, <3>4, <5>2
      <4>2. \A i \in 1..(m + n) : list[i] = IF i <= m THEN old[i] ELSE fresh[i - m]
        BY <3>2, <3>3, <3>4, <3>5
      <4>3. \A i \in (m + 1)..(m + n) : i - m \in 1..n /\ ~(i <= m) /\ i \in 1..(m + n)
        OBVIOUS
      <4>4. \A i \in (m + 1)..(m + n) : list[i] = len + (i - m)
        BY <4>0, <4>2, <4>3
      <4>5. \A i \in 1..m : list[i] = old[i]
        BY <4>2
      <4> QED BY <4>1, <4>4, <4>5
    <3>7. /\ DOMAIN entries' = DOMAIN entries \cup {key} /\ entries'[key] = list
          /\ \A k \in DOMAIN entries : k # key => entries'[k] = entries[k]
      BY <1>1, <2>3, <3>1, <3>4, <3>5
    <3>8. \A i \in 1..m : old[i] \in 1..len /\ made[old[i]].key = key
      BY <1>7, <3>2, <3>3
    <3>9. \A e \in DOMAIN made' : e \in 1..len \/ e \in (len + 1)..(len + n)
      BY <1>7
    <3>10. DOMAIN entries' \subseteq Keys
      BY <2>1, <3>7 DEF MemInv
    <3>11. \A e \in DOMAIN made' : made'[e].key \in DOMAIN entries'
      BY <1>7, <2>1, <3>7, <3>9 DEF MemInv
    <3>12. ASSUME NEW i \in 1..(m + n), NEW j \in 1..(m + n), i < j PROVE list[i] < list[j]
      <4>1. CASE j <= m
        <5>1. i \in 1..m /\ j \in 1..m
          BY <4>1, <3>12
        <5> QED BY <3>2, <3>3, <3>6, <3>12, <5>1
      <4>2. CASE i <= m /\ ~(j <= m)
        <5>1. i \in 1..m /\ j \in (m + 1)..(m + n)
          BY <4>2
        <5> QED BY <3>6, <3>8, <5>1
      <4>3. CASE ~(i <= m)
        <5>1. i \in (m + 1)..(m + n) /\ j \in (m + 1)..(m + n)
          BY <4>3, <3>12
        <5> QED BY <3>6, <3>12, <5>1
      <4> QED BY <4>1, <4>2, <4>3, <3>12
    <3>13. {list[i] : i \in 1..(m + n)} = {e \in DOMAIN made' : made'[e].key = key}
      <4>1. ASSUME NEW i \in 1..(m + n) PROVE list[i] \in DOMAIN made' /\ made'[list[i]].key = key
        <5>1. CASE i \in 1..m
          <6>1. list[i] \in 1..len /\ made[list[i]].key = key
            BY <3>6, <3>8, <5>1
          <6> QED BY <1>7, <6>1
        <5>2. CASE i \in (m + 1)..(m + n)
          <6>1. list[i] \in (len + 1)..(len + n)
            BY <3>6, <5>2
          <6> QED BY <1>7, <6>1
        <5> QED BY <5>1, <5>2
      <4>2. ASSUME NEW e \in DOMAIN made', made'[e].key = key
            PROVE  \E i \in 1..(m + n) : list[i] = e
        <5>1. CASE e \in 1..len
          <6>1. e \in Of(key)
            BY <1>7, <4>2, <5>1
          <6>2. PICK i \in 1..m : old[i] = e
            <7> HIDE DEF Of
            <7> QED BY <3>2, <3>3, <6>1
          <6> QED BY <3>6, <6>2
        <5>2. CASE e \in (len + 1)..(len + n)
          <6>1. m + (e - len) \in (m + 1)..(m + n) /\ len + ((m + (e - len)) - m) = e
            BY <5>2
          <6>2. list[m + (e - len)] = e
            BY <3>6, <6>1
          <6> QED BY <6>1, <6>2
        <5> QED BY <3>9, <5>1, <5>2
      <4> QED BY <4>1, <4>2
    <3>14. kind = "store" => list # << >>
      <4> SUFFICES ASSUME kind = "store" PROVE 1 \in DOMAIN list
        OBVIOUS
      <4> QED BY <2>3, <3>6
    <3>15. ASSUME NEW k \in DOMAIN entries, k # key
           PROVE  {e \in DOMAIN made' : made'[e].key = k} = Of(k)
      BY <1>7, <3>9, <3>15
    <3> HIDE DEF Of
    <3>16. ASSUME NEW k \in DOMAIN entries'
           PROVE  /\ entries'[k] \in Seq(Nat)
                  /\ \A i, j \in DOMAIN entries'[k] : i < j => entries'[k][i] < entries'[k][j]
                  /\ {entries'[k][i] : i \in DOMAIN entries'[k]}
                       = {e \in DOMAIN made' : made'[e].key = k}
                  /\ kind' = "store" => entries'[k] # << >>
      <4>1. CASE k = key
        <5>1. entries'[k] = list /\ DOMAIN list = 1..(m + n) /\ kind' = kind
          BY <1>1, <3>6, <3>7, <4>1
        <5>2. \A i, j \in DOMAIN list : i < j => list[i] < list[j]
          BY <3>12, <5>1
        <5>3. {list[i] : i \in DOMAIN list} = {e \in DOMAIN made' : made'[e].key = k}
          BY <3>13, <4>1, <5>1
        <5> QED BY <3>6, <3>14, <5>1, <5>2, <5>3
      <4>2. CASE k # key
        <5>1. k \in DOMAIN entries /\ entries'[k] = entries[k] /\ kind' = kind
          BY <1>1, <3>7, <4>2
        <5>2. /\ entries[k] \in Seq(Nat)
              /\ \A i, j \in DOMAIN entries[k] : i < j => entries[k][i] < entries[k][j]
              /\ {entries[k][i] : i \in DOMAIN entries[k]} = Of(k)
              /\ kind = "store" => entries[k] # << >>
          BY <2>1, <5>1 DEF MemInv, Of
        <5>3. {e \in DOMAIN made' : made'[e].key = k} = Of(k)
          BY <3>15, <4>2, <5>1
        <5> QED BY <5>1, <5>2, <5>3
      <4> QED BY <4>1, <4>2
    <3> QED BY <3>10, <3>11, <3>16 DEF MemInv
  <2> QED BY <2>2, <2>3
<1> QED BY <1>1, <1>8, <1>9 DEF StoreInv, FirstProcess, PrefixWritten

(* Every step keeps the invariant.                                         *)
LEMMA StoreStep == StoreInv /\ [Next]_vars => StoreInv'
<1> SUFFICES ASSUME StoreInv, [Next]_vars PROVE StoreInv'
  OBVIOUS
<1>1. ASSUME NEW key \in Keys, NEW n \in 0..MaxBatch, MemAppend(key, n) PROVE StoreInv'
  BY <1>1, MemKeeps
<1>2. ASSUME NEW c \in Clients, AppendBatch(c) PROVE StoreInv'
  <2>1. PICK key \in Keys, n \in 1..MaxBatch : BeginBatch(c, [i \in 1..n |-> key], n)
    BY <1>2 DEF AppendBatch
  <2>2. n \in Nat /\ n # 0 /\ [i \in 1..n |-> key] \in [1..n -> Keys]
    BY StoreAssumption
  <2> QED BY <2>1, <2>2, BeginKeeps
<1>3. ASSUME NEW c \in Clients, AppendMultiKeyBatch(c) PROVE StoreInv'
  <2>1. PICK n \in 1..MaxBatch : \E keys \in [1..n -> Keys] : BeginBatch(c, keys, ChunkSize)
    BY <1>3 DEF AppendMultiKeyBatch
  <2>2. n \in Nat /\ n # 0
    BY StoreAssumption
  <2> QED BY <2>1, <2>2, BeginKeeps
<1>4. ASSUME NEW c \in Clients, Number(c) \/ Write(c) \/ WriteFails(c) PROVE StoreInv'
  BY <1>4, NumberKeeps, WriteKeeps, FailKeeps
<1>5. CASE Reopen
  BY <1>5, ReopenKeeps
<1>6. CASE UNCHANGED <<storeVars, batchVars, made, calls, failures, opens>>
  <2>1. UNCHANGED <<kind, entries, disk, seq, todo, batch, written, made, calls, failures, opens>>
    BY <1>6 DEF storeVars, batchVars
  <2>2. Stored' = Stored /\ \A c : Left(c)' = Left(c) /\ Waiting(c)' = Waiting(c)
    BY <2>1 DEF Stored, Left, Waiting, InBatch, InTodo
  <2>3. StoreType' /\ PrefixWritten' /\ (FirstProcess' <=> FirstProcess)
    BY <2>1, <2>2 DEF StoreInv, StoreType, PrefixWritten, FirstProcess
  <2>4. OrderInv => OrderInv'
    BY <2>1, <2>2 DEF OrderInv
  <2>5. NumberInv => NumberInv'
    BY <2>1, <2>2 DEF NumberInv
  <2>6. CallsInv => CallsInv'
    BY <2>1, <2>2 DEF CallsInv
  <2>7. KeysInv => KeysInv'
    BY <2>1, <2>2 DEF KeysInv
  <2>8. OnceInv => OnceInv'
    BY <2>1, <2>2 DEF OnceInv
  <2>9. (MemInv => MemInv') /\ (InMemory' <=> InMemory)
    BY <2>1 DEF MemInv, InMemory
  <2> QED BY <2>3, <2>4, <2>5, <2>6, <2>7, <2>8, <2>9 DEF StoreInv
<1>7. ASSUME NEW token \in Tokens, Register(token) PROVE StoreInv'
  BY <1>6, <1>7 DEF Register, countVars
<1>8. CASE DiscoverBegin \/ DiscoverProbe \/ DiscoverReturn
  BY <1>6, <1>8 DEF DiscoverBegin, DiscoverProbe, DiscoverReturn, countVars
<1>9. CASE UNCHANGED vars
  BY <1>6, <1>9 DEF vars, countVars
<1> QED BY <1>1, <1>2, <1>3, <1>4, <1>5, <1>7, <1>8, <1>9 DEF Next

(* While one process has the directory, a call that fails or is cut short  *)
(* leaves a prefix of its entries on disk, whatever the other goroutines   *)
(* write between its chunks.                                               *)
THEOREM PrefixWrittenHolds == Spec => []PrefixWritten
<1>1. StoreInv => PrefixWritten
  BY DEF StoreInv
<1> QED BY <1>1, InitStore, StoreStep, PTL DEF Spec

-----------------------------------------------------------------------------
(* The order in which DiskGet reads the entries of a key.                  *)

Below(A, s) == {r \in A : r < s}
Rank(A, s)  == Cardinality(Below(A, s)) + 1
Nth(A, i)   == CHOOSE s \in A : Cardinality({r \in A : r < s}) = i - 1

(* A number of a finite set has its place in the order, below those of the *)
(* numbers above it.                                                       *)
LEMMA RankFacts ==
  ASSUME NEW A \in SUBSET Nat, IsFiniteSet(A), NEW s \in A
  PROVE  /\ Cardinality(A) \in Nat
         /\ Rank(A, s) \in 1..Cardinality(A)
         /\ \A t \in A : s < t => Rank(A, s) < Rank(A, t)
<1>1. Cardinality(A) \in Nat
  BY FS_CardinalityType
<1>2. ASSUME NEW t \in A PROVE IsFiniteSet(Below(A, t)) /\ Cardinality(Below(A, t)) \in Nat
  <2>1. IsFiniteSet(Below(A, t))
    BY FS_Subset DEF Below
  <2> QED BY <2>1, FS_CardinalityType
<1>3. Cardinality(Below(A, s)) < Cardinality(A)
  <2>1. Below(A, s) \subseteq A /\ s \notin Below(A, s)
    BY DEF Below
  <2>2. /\ Cardinality(Below(A, s)) <= Cardinality(A)
        /\ Cardinality(A) = Cardinality(Below(A, s)) => A = Below(A, s)
    BY <2>1, FS_Subset
  <2> QED BY <1>1, <1>2, <2>1, <2>2
<1>4. ASSUME NEW t \in A, s < t PROVE Rank(A, s) < Rank(A, t)
  <2>1. Below(A, s) \subseteq Below(A, t) /\ s \in Below(A, t) /\ s \notin Below(A, s)
    <3>1. \A r \in A : r \in Nat
      OBVIOUS
    <3>2. ASSUME NEW r \in Below(A, s) PROVE r \in Below(A, t)
      <4>1. r \in A /\ r < s
        BY DEF Below
      <4>2. r < t
        BY <1>4, <3>1, <4>1
      <4> QED BY <4>1, <4>2 DEF Below
    <3>3. ~(s < s)
      BY <3>1
    <3> QED BY <1>4, <3>2, <3>3 DEF Below
  <2>2. /\ Cardinality(Below(A, s)) <= Cardinality(Below(A, t))
        /\ Cardinality(Below(A, t)) = Cardinality(Below(A, s)) => Below(A, t) = Below(A, s)
    BY <1>2, <2>1, FS_Subset
  <2>3. Cardinality(Below(A, s)) \in Nat /\ Cardinality(Below(A, t)) \in Nat
    BY <1>2
  <2> QED BY <2>1, <2>2, <2>3 DEF Rank
<1> QED BY <1>1, <1>2, <1>3, <1>4 DEF Rank

(* Every place is taken, by one number.                                    *)
LEMMA NthFacts ==
  ASSUME NEW A \in SUBSET Nat, IsFiniteSet(A)
  PROVE  /\ Cardinality(A) \in Nat
         /\ \A i \in 1..Cardinality(A) : Nth(A, i) \in A /\ Rank(A, Nth(A, i)) = i
         /\ \A s \in A : Rank(A, s) \in 1..Cardinality(A) /\ Nth(A, Rank(A, s)) = s
<1>1. PICK n \in Nat : n = Cardinality(A)
  BY FS_CardinalityType
<1> DEFINE place == [s \in A |-> Rank(A, s)]
<1>2. ASSUME NEW s \in A PROVE Rank(A, s) \in 1..n
  BY <1>1, RankFacts
<1>3. ASSUME NEW s \in A, NEW t \in A, Rank(A, s) = Rank(A, t) PROVE s = t
  <2>1. s < t => Rank(A, s) < Rank(A, t)
    BY RankFacts
  <2>2. t < s => Rank(A, t) < Rank(A, s)
    BY RankFacts
  <2>3. Rank(A, s) \in Nat /\ s \in Nat /\ t \in Nat
    BY <1>2
  <2> QED BY <1>3, <2>1, <2>2, <2>3
<1>4. place \in Injection(A, 1..n)
  <2>1. place \in [A -> 1..n]
    BY <1>2
  <2>2. \A s, t \in A : place[s] = place[t] => s = t
    BY <1>3
  <2> HIDE DEF place
  <2> QED BY <2>1, <2>2 DEF Injection, IsInjective
<1>5. IsFiniteSet(1..n) /\ Cardinality(1..n) = n
  <2>1. 1 \in Int /\ n \in Int
    OBVIOUS
  <2>2. IsFiniteSet(1..n) /\ Cardinality(1..n) = IF 1 > n THEN 0 ELSE n - 1 + 1
    BY <2>1, FS_Interval
  <2> QED BY <2>2
<1>6. place \in Surjection(A, 1..n)
  <2> HIDE DEF place
  <2>1. Cardinality(A) = Cardinality(1..n) <=> place \in Surjection(A, 1..n)
    BY <1>4, <1>5, FS_Injection
  <2> QED BY <1>1, <1>5, <2>1
<1>7. ASSUME NEW i \in 1..n PROVE \E s \in A : Rank(A, s) = i
  <2>1. \E s \in A : place[s] = i
    <3> HIDE DEF place
    <3> QED BY <1>6 DEF Surjection
  <2> QED BY <2>1
<1>8. ASSUME NEW i \in 1..n PROVE Nth(A, i) \in A /\ Rank(A, Nth(A, i)) = i
  <2>1. PICK s \in A : Rank(A, s) = i
    BY <1>7
  <2>2. \A t \in A : Cardinality(Below(A, t)) = Rank(A, t) - 1 /\ Rank(A, t) \in Nat
    <3> SUFFICES ASSUME NEW t \in A
                 PROVE  Cardinality(Below(A, t)) = Rank(A, t) - 1 /\ Rank(A, t) \in Nat
      OBVIOUS
    <3>1. Cardinality(Below(A, t)) \in Nat
      <4>1. IsFiniteSet(Below(A, t))
        BY FS_Subset DEF Below
      <4> QED BY <4>1, FS_CardinalityType
    <3> QED BY <3>1 DEF Rank
  <2>3. \E t \in A : Cardinality(Below(A, t)) = i - 1
    BY <2>1, <2>2
  <2>4. Nth(A, i) \in A /\ Cardinality(Below(A, Nth(A, i))) = i - 1
    BY <2>3 DEF Nth, Below
  <2>5. PICK t \in A : t = Nth(A, i)
    BY <2>4
  <2>6. Rank(A, t) - 1 = i - 1 /\ Rank(A, t) \in Nat
    BY <2>2, <2>4, <2>5
  <2>7. Rank(A, t) = i
    BY <2>6
  <2> QED BY <2>5, <2>7
<1>9. ASSUME NEW s \in A PROVE Nth(A, Rank(A, s)) = s
  BY <1>2, <1>3, <1>8
<1> QED BY <1>1, <1>2, <1>8, <1>9

(* A number keeps its place among those it was with when others come.      *)
LEMMA NthGrows ==
  ASSUME NEW B \in SUBSET Nat, IsFiniteSet(B), NEW A \in SUBSET B
  PROVE  \E at \in [1..Cardinality(A) -> 1..Cardinality(B)] :
           /\ \A i, j \in 1..Cardinality(A) : i < j => at[i] < at[j]
           /\ \A i \in 1..Cardinality(A) : Nth(B, at[i]) = Nth(A, i)
<1>1. A \in SUBSET Nat /\ IsFiniteSet(A)
  BY FS_Subset
<1>2. PICK n \in Nat : n = Cardinality(A)
  BY <1>1, FS_CardinalityType
<1>3. \A i \in 1..n : Nth(A, i) \in A /\ Rank(A, Nth(A, i)) = i
  BY <1>1, <1>2, NthFacts
<1> DEFINE at == [i \in 1..n |-> Rank(B, Nth(A, i))]
<1>4. ASSUME NEW i \in 1..n PROVE at[i] \in 1..Cardinality(B) /\ Nth(B, at[i]) = Nth(A, i)
  <2>1. Nth(A, i) \in B
    BY <1>3
  <2> QED BY <2>1, NthFacts
<1>5. ASSUME NEW i \in 1..n, NEW j \in 1..n, i < j PROVE at[i] < at[j]
  <2>1. Nth(A, i) \in A /\ Nth(A, j) \in A
    BY <1>3
  <2>2. Nth(A, j) < Nth(A, i) => Rank(A, Nth(A, j)) < Rank(A, Nth(A, i))
    BY <1>1, <2>1, RankFacts
  <2>3. Nth(A, i) \in Nat /\ Nth(A, j) \in Nat
    BY <2>1
  <2>4. Nth(A, i) < Nth(A, j)
    BY <1>3, <1>5, <2>2, <2>3
  <2>5. Rank(B, Nth(A, i)) < Rank(B, Nth(A, j))
    BY <2>1, <2>4, RankFacts
  <2> QED BY <2>5
<1>6. at \in [1..n -> 1..Cardinality(B)]
  BY <1>4
<1> HIDE DEF at
<1> QED BY <1>2, <1>4, <1>5, <1>6

-----------------------------------------------------------------------------
(* What Get reads.                                                         *)

(* The numbers up to q under which the disk d has entries of a key, and    *)
(* the entries it has at the numbers of A, in their order.                 *)
At(d, q, key)   == {s \in 1..q + MaxEntries : <<key, s>> \in DOMAIN d}
Read(d, A, key) == [i \in 1..Cardinality(A) |-> d[<<key, Nth(A, i)>>]]
Elements(s)     == {s[i] : i \in DOMAIN s}

(* Get scans the numbers at which the disk has entries of the key.         *)
LEMMA DiskGetReads == ASSUME NEW key PROVE DiskGet(key) = Read(disk, At(disk, seq, key), key)
BY DEF DiskGet, Read, At, Nth

(* What is read are the entries at those numbers.                          *)
LEMMA ReadAll ==
  ASSUME NEW A \in SUBSET Nat, IsFiniteSet(A), NEW d, NEW key
  PROVE  /\ Elements(Read(d, A, key)) = {d[<<key, s>>] : s \in A}
         /\ Read(d, A, key) = << >> <=> A = {}
         /\ (\A s \in A : d[<<key, s>>] \in Nat) => Read(d, A, key) \in Seq(Nat)
<1>1. PICK n \in Nat : n = Cardinality(A)
  BY FS_CardinalityType
<1> DEFINE e(s) == d[<<key, s>>]
<1>2. /\ \A i \in 1..n : Nth(A, i) \in A
      /\ \A s \in A : Rank(A, s) \in 1..n /\ Nth(A, Rank(A, s)) = s
  BY <1>1, NthFacts
<1>3. PICK r : r = Read(d, A, key)
  OBVIOUS
<1>4. r = [i \in 1..n |-> e(Nth(A, i))]
  BY <1>1, <1>3 DEF Read
<1> HIDE DEF e
<1>5. Elements(r) = {e(s) : s \in A}
  <2>1. \A i \in 1..n : r[i] \in {e(s) : s \in A}
    BY <1>2, <1>4
  <2>2. \A s \in A : \E i \in 1..n : r[i] = e(s)
    BY <1>2, <1>4
  <2> QED BY <1>4, <2>1, <2>2 DEF Elements
<1>6. r = << >> <=> A = {}
  <2>1. CASE A = {}
    <3>1. n = 0
      BY <1>1, <2>1, FS_EmptySet
    <3> QED BY <1>4, <2>1, <3>1
  <2>2. CASE A # {}
    <3>1. PICK i \in 1..n : TRUE
      BY <1>2, <2>2
    <3>2. 1 \in DOMAIN r
      BY <1>4, <3>1
    <3>3. r # << >>
      BY <3>2
    <3> QED BY <2>2, <3>3
  <2> QED BY <2>1, <2>2
<1>7. (\A s \in A : e(s) \in Nat) => r \in Seq(Nat)
  <2> SUFFICES ASSUME \A s \in A : e(s) \in Nat PROVE r \in Seq(Nat)
    OBVIOUS
  <2>1. r \in [1..n -> Nat]
    BY <1>2, <1>4
  <2> QED BY <2>1
<1> QED BY <1>3, <1>5, <1>6, <1>7 DEF e

(* When entries come and none is moved or stored twice, what was read is a *)
(* subsequence of what is read then.                                       *)
LEMMA ReadGrows ==
  ASSUME NEW B \in SUBSET Nat, IsFiniteSet(B), NEW A \in SUBSET B, NEW d, NEW e, NEW key,
         \A s \in A : e[<<key, s>>] = d[<<key, s>>],
         \A s, t \in B : e[<<key, s>>] = e[<<key, t>>] => s = t
  PROVE  Subsequence(Read(d, A, key), Read(e, B, key))
<1>1. PICK n \in Nat, m \in Nat : n = Cardinality(A) /\ m = Cardinality(B)
  <2>1. IsFiniteSet(A)
    BY FS_Subset
  <2> QED BY <2>1, FS_CardinalityType
<1>2. A \in SUBSET Nat /\ IsFiniteSet(A)
  BY FS_Subset
<1>3. PICK at \in [1..n -> 1..m] :
        /\ \A i, j \in 1..n : i < j => at[i] < at[j]
        /\ \A i \in 1..n : Nth(B, at[i]) = Nth(A, i)
  BY <1>1, NthGrows
<1>4. /\ \A i \in 1..n : Nth(A, i) \in A
      /\ \A i \in 1..m : Nth(B, i) \in B /\ Rank(B, Nth(B, i)) = i
  BY <1>1, <1>2, NthFacts
<1> DEFINE v(s) == d[<<key, s>>]
           w(s) == e[<<key, s>>]
<1>5. PICK s, t : s = Read(d, A, key) /\ t = Read(e, B, key)
  OBVIOUS
<1>6. s = [i \in 1..n |-> v(Nth(A, i))] /\ t = [i \in 1..m |-> w(Nth(B, i))]
  BY <1>1, <1>5 DEF Read
<1>7. /\ \A a \in A : w(a) = v(a)
      /\ \A a, b \in B : w(a) = w(b) => a = b
  OBVIOUS
<1> HIDE DEF v, w
<1>8. ASSUME NEW i \in 1..n, NEW k \in 1..m PROVE t[k] = s[i] <=> k = at[i]
  <2>1. s[i] = w(Nth(B, at[i])) /\ t[k] = w(Nth(B, k)) /\ at[i] \in 1..m
    BY <1>3, <1>4, <1>6, <1>7
  <2>2. t[k] = s[i] => Nth(B, k) = Nth(B, at[i])
    BY <1>4, <1>7, <2>1
  <2>3. Nth(B, k) = Nth(B, at[i]) => k = at[i]
    BY <1>4, <2>1
  <2> QED BY <2>1, <2>2, <2>3
<1>9. DOMAIN s = 1..n /\ DOMAIN t = 1..m
  BY <1>6
<1>10. Subsequence(s, t)
  BY <1>3, <1>8, <1>9 DEF Subsequence
<1> QED BY <1>5, <1>10

(* On disk, the numbers of a key are those of its entries.                 *)
LEMMA AtFacts ==
  ASSUME NEW d, NEW q \in Nat, NEW key,
         \A ks \in DOMAIN d : ks[2] \in Nat /\ ks[2] <= q /\ ks[2] # 0,
         \A ks, ls \in DOMAIN d : d[ks] = d[ls] => ks = ls
  PROVE  /\ At(d, q, key) \in SUBSET Nat /\ IsFiniteSet(At(d, q, key))
         /\ \A s : s \in At(d, q, key) <=> <<key, s>> \in DOMAIN d
         /\ \A s, t \in At(d, q, key) : d[<<key, s>>] = d[<<key, t>>] => s = t
<1>1. q + MaxEntries \in Nat /\ MaxEntries \in Nat
  BY StoreAssumption
<1>2. IsFiniteSet(1..q + MaxEntries)
  <2>1. 1 \in Int /\ q + MaxEntries \in Int
    BY <1>1
  <2> QED BY <2>1, FS_Interval
<1>3. At(d, q, key) \subseteq 1..q + MaxEntries
  BY DEF At
<1>4. IsFiniteSet(At(d, q, key)) /\ At(d, q, key) \in SUBSET Nat
  <2>1. IsFiniteSet(At(d, q, key))
    BY <1>2, <1>3, FS_Subset
  <2> QED BY <1>1, <1>3, <2>1
<1>5. ASSUME NEW s, <<key, s>> \in DOMAIN d PROVE s \in At(d, q, key)
  <2>1. <<key, s>>[2] \in Nat /\ <<key, s>>[2] <= q /\ <<key, s>>[2] # 0
    BY <1>5
  <2>2. s \in Nat /\ s <= q /\ s # 0
    BY <2>1
  <2> QED BY <1>1, <1>5, <2>2 DEF At
<1>6. \A s : s \in At(d, q, key) => <<key, s>> \in DOMAIN d
  BY DEF At
<1>7. ASSUME NEW s \in At(d, q, key), NEW t \in At(d, q, key), d[<<key, s>>] = d[<<key, t>>]
      PROVE  s = t
  <2>1. <<key, s>> = <<key, t>>
    BY <1>6, <1>7
  <2> QED BY <2>1
<1> QED BY <1>4, <1>5, <1>6, <1>7

(* In memory, the entries of a key are its slice, whether or not it has    *)
(* one.                                                                    *)
LEMMA MemGet ==
  ASSUME MemInv, kind # "disk", NEW key
  PROVE  /\ Get(key) \in Seq(Nat)
         /\ \A i, j \in DOMAIN Get(key) : i < j => Get(key)[i] < Get(key)[j]
         /\ {Get(key)[i] : i \in DOMAIN Get(key)} = {e \in DOMAIN made : made[e].key = key}
         /\ key \notin DOMAIN entries => Get(key) = << >>
         /\ key \in DOMAIN entries => Get(key) = entries[key]
<1>1. CASE key \in DOMAIN entries
  <2>1. Get(key) = entries[key]
    BY <1>1 DEF Get
  <2> QED BY <1>1, <2>1 DEF MemInv
<1>2. CASE key \notin DOMAIN entries
  <2>1. Get(key) = << >>
    BY <1>2 DEF Get
  <2>2. {e \in DOMAIN made : made[e].key = key} = {}
    BY <1>2 DEF MemInv
  <2>3. {Get(key)[i] : i \in DOMAIN Get(key)} = {}
    BY <2>1
  <2> QED BY <1>2, <2>1, <2>2, <2>3
<1> QED BY <1>1, <1>2

(* In memory, nothing waits and no slice is shared.                        *)
LEMMA MemStored ==
  ASSUME StoreInv, InMemory
  PROVE  AllStored
<1>1. MemInv /\ kind # "disk"
  BY DEF StoreInv, InMemory
<1>2. \A k \in Keys : {Get(k)[i] : i \in DOMAIN Get(k)} = {e \in DOMAIN made : made[e].key = k}
  BY <1>1, MemGet
<1>3. ASSUME kind # "mem" PROVE Len_(kind) = Cardinality({k \in Keys : Get(k) # << >>})
  <2>1. kind = "store"
    BY <1>1, <1>3 DEF StoreInv, StoreType
  <2>2. ASSUME NEW k \in Keys PROVE Get(k) # << >> <=> k \in DOMAIN entries
    BY <1>1, <2>1, MemGet DEF MemInv
  <2>3. {k \in Keys : Get(k) # << >>} = DOMAIN entries
    BY <1>1, <2>2 DEF MemInv
  <2> QED BY <1>1, <2>3 DEF Len_
<1> QED BY <1>2, <1>3 DEF AllStored

(* On disk, once nothing waits and nothing has failed, every entry is      *)
(* under its key.                                                          *)
LEMMA DiskStored ==
  ASSUME StoreInv, FirstProcess
  PROVE  AllStored
<1>1. kind = "disk" /\ StoreType /\ NumberInv /\ CallsInv /\ KeysInv /\ OnceInv
  BY DEF StoreInv, FirstProcess
<1> SUFFICES ASSUME failures = 0, \A c \in Clients : ~Busy(c)
             PROVE  /\ \A k \in Keys : {Get(k)[i] : i \in DOMAIN Get(k)}
                                         = {e \in DOMAIN made : made[e].key = k}
                    /\ Len_(kind) = Cardinality({k \in Keys : Get(k) # << >>})
  BY DEF AllStored
<1>2. Stored = DOMAIN made
  <2>1. \A c \in Clients : Waiting(c) = {}
    <3> SUFFICES ASSUME NEW c \in Clients PROVE Waiting(c) = {}
      OBVIOUS
    <3>1. todo[c] = << >> /\ batch[c] = << >> /\ written[c] \in Nat
      BY <1>1 DEF Busy, StoreType
    <3>2. Left(c) = {}
      BY <3>1 DEF Left
    <3> QED BY <3>1, <3>2 DEF Waiting, InBatch, InTodo
  <2> QED BY <1>1, <2>1 DEF OnceInv, CallsInv
<1>3. ASSUME NEW k
      PROVE  /\ {Get(k)[i] : i \in DOMAIN Get(k)} = {disk[<<k, s>>] : s \in At(disk, seq, k)}
             /\ Get(k) = << >> <=> At(disk, seq, k) = {}
             /\ \A s : s \in At(disk, seq, k) <=> <<k, s>> \in DOMAIN disk
  <2>1. PICK A, d, q : A = At(disk, seq, k) /\ d = disk /\ q = seq
    OBVIOUS
  <2>2. /\ A \in SUBSET Nat /\ IsFiniteSet(A)
        /\ \A s : s \in At(disk, seq, k) <=> <<k, s>> \in DOMAIN disk
    <3>1. /\ q \in Nat
          /\ \A ks \in DOMAIN d : ks[2] \in Nat /\ ks[2] <= q /\ ks[2] # 0
          /\ \A ks, ls \in DOMAIN d : d[ks] = d[ls] => ks = ls
      BY <1>1, <2>1 DEF StoreType, NumberInv, KeysInv
    <3>2. /\ At(d, q, k) \in SUBSET Nat /\ IsFiniteSet(At(d, q, k))
          /\ \A s : s \in At(d, q, k) <=> <<k, s>> \in DOMAIN d
      BY <3>1, AtFacts
    <3> QED BY <2>1, <3>2
  <2>3. Get(k) = Read(d, A, k)
    BY <1>1, <2>1, DiskGetReads DEF Get
  <2>4. PICK get : get = Get(k) /\ get = Read(d, A, k)
    BY <2>3
  <2>5. Elements(get) = {d[<<k, s>>] : s \in A} /\ (get = << >> <=> A = {})
    BY <2>2, <2>4, ReadAll
  <2> QED BY <2>1, <2>2, <2>4, <2>5 DEF Elements
<1>4. ASSUME NEW k \in Keys
      PROVE  {disk[<<k, s>>] : s \in At(disk, seq, k)} = {e \in DOMAIN made : made[e].key = k}
  <2>1. ASSUME NEW s \in At(disk, seq, k)
        PROVE  disk[<<k, s>>] \in DOMAIN made /\ made[disk[<<k, s>>]].key = k
    <3>1. PICK ks \in DOMAIN disk : ks = <<k, s>>
      BY <1>3
    <3>2. disk[ks] \in DOMAIN made
      BY <1>2 DEF Stored
    <3>3. ks = <<made[disk[ks]].key, ks[2]>>
      BY <1>1 DEF KeysInv
    <3> QED BY <3>1, <3>2, <3>3
  <2>2. ASSUME NEW e \in DOMAIN made, made[e].key = k
        PROVE  \E s \in At(disk, seq, k) : disk[<<k, s>>] = e
    <3>1. PICK ks \in DOMAIN disk : disk[ks] = e
      BY <1>2 DEF Stored
    <3>2. ks = <<k, ks[2]>>
      BY <1>1, <2>2, <3>1 DEF KeysInv
    <3>3. ks[2] \in At(disk, seq, k)
      BY <1>3, <3>2
    <3> QED BY <3>1, <3>2, <3>3
  <2> QED BY <2>1, <2>2
<1>5. {ks[1] : ks \in DOMAIN disk} = {k \in Keys : Get(k) # << >>}
  <2>1. ASSUME NEW ks \in DOMAIN disk PROVE ks[1] \in Keys /\ Get(ks[1]) # << >>
    <3>1. ks = <<made[disk[ks]].key, ks[2]>>
      BY <1>1 DEF KeysInv
    <3>2. disk[ks] \in DOMAIN made
      BY <1>2 DEF Stored
    <3>3. made[disk[ks]].key \in Keys
      <4>1. made[disk[ks]] \in Made
        BY <1>1, <3>2 DEF StoreType
      <4> QED BY <4>1 DEF Made
    <3>4. PICK k \in Keys : k = made[disk[ks]].key
      BY <3>3
    <3>5. ks = <<k, ks[2]>> /\ ks[1] = k
      BY <3>1, <3>4
    <3>6. ks[2] \in At(disk, seq, k)
      BY <1>3, <3>5
    <3> QED BY <1>3, <3>5, <3>6
  <2>2. ASSUME NEW k \in Keys, Get(k) # << >> PROVE \E ks \in DOMAIN disk : ks[1] = k
    <3>1. PICK s \in At(disk, seq, k) : TRUE
      BY <1>3, <2>2
    <3>2. <<k, s>> \in DOMAIN disk /\ <<k, s>>[1] = k
      BY <1>3
    <3> QED BY <3>2
  <2> QED BY <2>1, <2>2
<1> QED BY <1>1, <1>3, <1>4, <1>5 DEF Len_

(* While the first process has the directory, every entry of every call    *)
(* that returned without failing is found under its key, and under no      *)
(* other, in all three stores.                                             *)
THEOREM AllStoredHolds == Spec => []AllStored
<1>1. StoreInv => AllStored
  <2>1. opens # 1 => AllStored
    BY DEF AllStored
  <2> QED BY <2>1, MemStored, DiskStored DEF InMemory, FirstProcess
<1> QED BY <1>1, InitStore, StoreStep, PTL DEF Spec

-----------------------------------------------------------------------------
(* What a step does to what Get returns.                                   *)

(* A sequence without repetition is a subsequence of any that begins with  *)
(* it and has no repetition either.                                        *)
LEMMA PrefixSubsequence ==
  ASSUME NEW s \in Seq(Nat), NEW u \in Seq(Nat), NEW t, t = s \o u,
         \A i, j \in DOMAIN t : t[i] = t[j] => i = j
  PROVE  Subsequence(s, t) /\ SubSeq(t, 1, Len(s)) = s
<1>1. PICK n \in Nat, m \in Nat : n = Len(s) /\ m = Len(t) /\ n <= m
  <2>1. Len(t) = Len(s) + Len(u) /\ Len(s) \in Nat /\ Len(u) \in Nat
    OBVIOUS
  <2> QED BY <2>1
<1>2. DOMAIN s = 1..n /\ DOMAIN t = 1..m /\ t \in Seq(Nat)
  BY <1>1
<1>3. \A i \in 1..n : t[i] = s[i]
  BY <1>1
<1>4. PICK at \in [1..n -> 1..m] : \A i \in 1..n : at[i] = i
  <2>1. [i \in 1..n |-> i] \in [1..n -> 1..m]
    BY <1>1
  <2> QED BY <2>1
<1>5. Subsequence(s, t)
  <2>1. ASSUME NEW i \in 1..n, NEW k \in 1..m PROVE t[k] = s[i] <=> k = at[i]
    <3>1. i \in DOMAIN t /\ k \in DOMAIN t /\ t[i] = s[i] /\ at[i] = i
      BY <1>1, <1>2, <1>3, <1>4
    <3> QED BY <3>1
  <2>2. \A i, j \in 1..n : i < j => at[i] < at[j]
    BY <1>4
  <2>3. /\ at \in [DOMAIN s -> DOMAIN t]
        /\ \A i, j \in DOMAIN s : i < j => at[i] < at[j]
        /\ \A i \in DOMAIN s, k \in DOMAIN t : t[k] = s[i] <=> k = at[i]
    BY <1>2, <2>1, <2>2
  <2> QED BY <2>3, Zenon DEF Subsequence
<1>6. SubSeq(t, 1, n) = s
  <2>1. SubSeq(t, 1, n) = [i \in 1..n |-> t[i]]
    BY <1>1, <1>2
  <2>2. s = [i \in 1..n |-> s[i]]
    BY <1>2
  <2> QED BY <1>3, <2>1, <2>2
<1> QED BY <1>1, <1>5, <1>6

(* The first process has been the only one, and keeps to its kind of store. *)
LEMMA SameProcess ==
  ASSUME StoreInv, [Next]_vars, opens' = 1
  PROVE  opens = 1 /\ ~Reopen /\ kind' = kind
<1>1. opens = 1 /\ ~Reopen
  <2>1. opens \in Nat \ {0}
    BY DEF StoreInv, StoreType
  <2>2. ~Reopen
    BY <2>1 DEF Reopen
  <2>3. opens' = opens
    BY <2>2 DEF Next, MemAppend, AppendBatch, AppendMultiKeyBatch, BeginBatch, Number, Write,
              WriteFails, Register, DiscoverBegin, DiscoverProbe, DiscoverReturn, countVars, vars
  <2> QED BY <2>2, <2>3
<1>2. kind' = kind
  BY <1>1 DEF Next, MemAppend, AppendBatch, AppendMultiKeyBatch, BeginBatch, Number, Write,
     WriteFails, Register, DiscoverBegin, DiscoverProbe, DiscoverReturn, storeVars, vars
<1> QED BY <1>1, <1>2

(* While one process has the directory, no step takes anything from the    *)
(* disk or writes over it.                                                 *)
LEMMA DiskGrows ==
  ASSUME StoreInv, [Next]_vars, opens' = 1, kind = "disk"
  PROVE  /\ FirstProcess /\ kind' = kind
         /\ DOMAIN disk \subseteq DOMAIN disk'
         /\ \A ks \in DOMAIN disk : disk'[ks] = disk[ks]
<1>1. opens = 1 /\ ~Reopen
  BY SameProcess
<1>2. FirstProcess /\ NumberInv
  BY <1>1 DEF StoreInv, FirstProcess
<1>3. ASSUME NEW c \in Clients, Write(c)
      PROVE  /\ kind' = kind /\ DOMAIN disk \subseteq DOMAIN disk'
             /\ \A ks \in DOMAIN disk : disk'[ks] = disk[ks]
  <2> DEFINE p == batch[c][written[c] + 1]
             k == <<made[p.entry].key, p.seq>>
  <2>1. /\ disk' = [ks \in DOMAIN disk \cup {k} |-> IF ks = k THEN p.entry ELSE disk[ks]]
        /\ batch[c] # << >> /\ kind' = kind
    BY <1>3 DEF Write, Ready
  <2>2. written[c] + 1 \in Left(c)
    <3>1. OrderInv /\ written[c] \in Nat /\ Len(batch[c]) \in Nat
      BY <1>2 DEF StoreInv, StoreType
    <3>2. written[c] < Len(batch[c])
      BY <2>1, <3>1 DEF OrderInv
    <3> QED BY <3>1, <3>2 DEF Left
  <2>3. k \notin DOMAIN disk
    BY <1>2, <2>2 DEF NumberInv
  <2> HIDE DEF p, k
  <2> QED BY <2>1, <2>3
<1>4. CASE \E c \in Clients : Write(c)
  BY <1>2, <1>3, <1>4
<1>5. CASE ~\E c \in Clients : Write(c)
  <2>1. UNCHANGED <<kind, disk>>
    BY <1>1, <1>5 DEF Next, MemAppend, AppendBatch, AppendMultiKeyBatch, BeginBatch, Number,
       WriteFails, Register, DiscoverBegin, DiscoverProbe, DiscoverReturn, storeVars, vars
  <2> QED BY <1>2, <2>1
<1> QED BY <1>4, <1>5

(* So what a Get returned is a subsequence of what the next one returns.   *)
LEMMA DiskKeeps ==
  ASSUME StoreInv, StoreInv', [Next]_vars, opens' = 1, kind = "disk", NEW k
  PROVE  Subsequence(Get(k), Get(k)')
<1>1. /\ FirstProcess /\ FirstProcess' /\ kind' = "disk"
      /\ DOMAIN disk \subseteq DOMAIN disk'
      /\ \A ks \in DOMAIN disk : disk'[ks] = disk[ks]
  BY DiskGrows DEF FirstProcess
<1>2. PICK d, e, q, r, A, B :
        /\ d = disk /\ e = disk' /\ q = seq /\ r = seq'
        /\ A = At(d, q, k) /\ B = At(e, r, k)
  OBVIOUS
<1>3. /\ q \in Nat
      /\ \A ks \in DOMAIN d : ks[2] \in Nat /\ ks[2] <= q /\ ks[2] # 0
      /\ \A ks, ls \in DOMAIN d : d[ks] = d[ls] => ks = ls
  BY <1>1, <1>2 DEF StoreInv, StoreType, NumberInv, KeysInv
<1>4. /\ r \in Nat
      /\ \A ks \in DOMAIN e : ks[2] \in Nat /\ ks[2] <= r /\ ks[2] # 0
      /\ \A ks, ls \in DOMAIN e : e[ks] = e[ls] => ks = ls
  BY <1>1, <1>2 DEF StoreInv, StoreType, NumberInv, KeysInv
<1>5. \A s : s \in A <=> <<k, s>> \in DOMAIN d
  BY <1>2, <1>3, AtFacts
<1>6. /\ B \in SUBSET Nat /\ IsFiniteSet(B)
      /\ \A s : s \in B <=> <<k, s>> \in DOMAIN e
      /\ \A s, t \in B : e[<<k, s>>] = e[<<k, t>>] => s = t
  BY <1>2, <1>4, AtFacts
<1>7. A \subseteq B /\ \A s \in A : e[<<k, s>>] = d[<<k, s>>]
  BY <1>1, <1>2, <1>5, <1>6
<1>8. Get(k) = Read(d, A, k)
  BY <1>1, <1>2, DiskGetReads DEF Get, FirstProcess
<1>9. Get(k)' = Read(e, B, k)
  BY <1>1, <1>2 DEF Get, DiskGet, Read, At, Nth
<1>10. Subsequence(Read(d, A, k), Read(e, B, k))
  BY <1>6, <1>7, ReadGrows
<1> QED BY <1>8, <1>9, <1>10

(* In memory, it is a prefix.                                              *)
LEMMA SliceKeeps ==
  ASSUME StoreInv, StoreInv', [Next]_vars, opens' = 1, kind # "disk", NEW k
  PROVE  /\ Subsequence(Get(k), Get(k)')
         /\ SubSeq(Get(k)', 1, Len(Get(k))) = Get(k)
<1>1. opens = 1 /\ ~Reopen
  BY SameProcess
<1>2. kind' = kind
  BY SameProcess
<1>3. MemInv /\ MemInv'
  BY <1>1, <1>2 DEF StoreInv, InMemory
<1>4. PICK s, t : s = Get(k) /\ t = Get(k)'
  OBVIOUS
<1>5. s \in Seq(Nat)
  BY <1>3, <1>4, MemGet
<1>6. /\ \A i \in DOMAIN t : t[i] \in Nat
      /\ \A i, j \in DOMAIN t : i < j => t[i] < t[j]
      /\ \A i \in DOMAIN t : i \in Nat
  <2>1. t = IF k \in DOMAIN entries' THEN entries'[k] ELSE << >>
    BY <1>2, <1>4 DEF Get
  <2>2. CASE k \in DOMAIN entries'
    BY <1>3, <2>1, <2>2 DEF MemInv
  <2>3. CASE k \notin DOMAIN entries'
    BY <2>1, <2>3
  <2> QED BY <2>2, <2>3
<1>7. \A i, j \in DOMAIN t : t[i] = t[j] => i = j
  <2> SUFFICES ASSUME NEW i \in DOMAIN t, NEW j \in DOMAIN t, t[i] = t[j] PROVE i = j
    OBVIOUS
  <2>1. ~(i < j) /\ ~(j < i)
    BY <1>6
  <2> QED BY <1>6, <2>1
<1>8. \E u \in Seq(Nat) : t = s \o u
  <2>1. CASE entries' = entries
    <3>1. t = s
      BY <1>2, <1>4, <2>1 DEF Get
    <3>2. s = s \o << >> /\ << >> \in Seq(Nat)
      BY <1>5
    <3> QED BY <3>1, <3>2
  <2>2. CASE entries' # entries
    <3>1. PICK key \in Keys, n \in 0..MaxBatch : MemAppend(key, n)
      BY <1>1, <2>2 DEF Next, AppendBatch, AppendMultiKeyBatch, BeginBatch, Number, Write,
         WriteFails, Register, DiscoverBegin, DiscoverProbe, DiscoverReturn, storeVars, vars
    <3> DEFINE keys == [i \in 1..n |-> key]
    <3>2. entries' = [l \in DOMAIN entries \cup {key} |->
                        IF l = key THEN Get(key) \o NewEntries(keys) ELSE entries[l]]
      BY <2>2, <3>1 DEF MemAppend
    <3>3. NewEntries(keys) \in Seq(Nat)
      <4>1. n \in Nat /\ Len(made) \in Nat
        BY StoreAssumption DEF StoreInv, StoreType
      <4>2. Len(keys) = n
        BY <4>1
      <4> QED BY <4>1, <4>2 DEF NewEntries
    <3> HIDE DEF keys
    <3>4. CASE k = key
      <4>1. t = s \o NewEntries(keys)
        BY <1>2, <1>4, <3>2, <3>4 DEF Get
      <4> QED BY <3>3, <4>1
    <3>5. CASE k # key
      <4>1. t = s
        BY <1>2, <1>4, <3>2, <3>5 DEF Get
      <4>2. s = s \o << >> /\ << >> \in Seq(Nat)
        BY <1>5
      <4> QED BY <4>1, <4>2
    <3> QED BY <3>4, <3>5
  <2> QED BY <2>1, <2>2
<1>9. PICK u \in Seq(Nat) : t = s \o u
  BY <1>8
<1>10. Subsequence(s, t) /\ SubSeq(t, 1, Len(s)) = s
  BY <1>5, <1>7, <1>9, PrefixSubsequence
<1> QED BY <1>4, <1>10

(* While one process has the directory, nothing that Get returned is lost, *)
(* moved or stored twice, in any of the stores and whatever is appended.   *)
THEOREM NothingLostHolds == Spec => NothingLost
<1> DEFINE Kept == opens' = 1 =>
             \A k \in Keys :
               /\ Subsequence(Get(k), Get(k)')
               /\ kind # "disk" => SubSeq(Get(k)', 1, Len(Get(k))) = Get(k)
<1>1. StoreInv /\ StoreInv' /\ [Next]_vars => [Kept]_vars
  BY DiskKeeps, SliceKeeps
<1> QED BY <1>1, InitStore, StoreStep, PTL DEF Spec, NothingLost

-----------------------------------------------------------------------------
(* What Discover collects for a token.                                     *)

(* The result of a token, n roots on: the parts of the roots, one after    *)
(* the other; floor and now are what Get returned, by key, when Discover   *)
(* began and what it returns now.                                          *)
Collected(token, result, n, floor, now) ==
  \E cut \in [0..n -> 0..Len(result)] :
    /\ cut[0] = 0 /\ cut[n] = Len(result)
    /\ \A r \in 1..n :
         LET key    == XORKey(token, Roots[r])
             ofRoot == SubSeq(result, cut[r - 1] + 1, cut[r])
         IN /\ cut[r - 1] <= cut[r]
            /\ Subsequence(floor[key], ofRoot)
            /\ Subsequence(ofRoot, now[key])

Now == [k \in Keys |-> Get(k)]

(* How far Discover has come with the token at place i.                    *)
RootsOf(i) == IF i < probe.token THEN probe.root ELSE probe.root - 1

Probing ==
  /\ probe = [root |-> probe.root, token |-> probe.token, tokens |-> probe.tokens,
              result |-> probe.result, floor |-> probe.floor]
  /\ probe.tokens \in Seq(Tokens)
  /\ \A i, j \in DOMAIN probe.tokens : probe.tokens[i] = probe.tokens[j] => i = j
  /\ probe.token \in DOMAIN probe.tokens /\ probe.root \in 1..(Len(Roots) + 1)
  /\ probe.root = Len(Roots) + 1 => probe.token = 1
  /\ DOMAIN probe.result = {probe.tokens[i] : i \in DOMAIN probe.tokens}
  /\ \A k \in Keys : Subsequence(probe.floor[k], Now[k])
  /\ \A i \in DOMAIN probe.tokens :
       LET token == probe.tokens[i] IN
         /\ probe.result[token] \in Seq(Nat)
         /\ Collected(token, probe.result[token], RootsOf(i), probe.floor, Now)

ProbeInv ==
  opens = 1 =>
    /\ registry \in Seq(Tokens)
    /\ \A i, j \in DOMAIN registry : registry[i] = registry[j] => i = j
    /\ probe # NoProbe => Probing

(* A subsequence of a subsequence is one of the whole.                     *)
LEMMA SubsequenceTrans ==
  ASSUME NEW s, NEW t, NEW u, Subsequence(s, t), Subsequence(t, u)
  PROVE  Subsequence(s, u)
<1>1. PICK f \in [DOMAIN s -> DOMAIN t] :
        /\ \A i, j \in DOMAIN s : i < j => f[i] < f[j]
        /\ \A i \in DOMAIN s, m \in DOMAIN t : t[m] = s[i] <=> m = f[i]
  BY Zenon DEF Subsequence
<1>2. PICK g \in [DOMAIN t -> DOMAIN u] :
        /\ \A i, j \in DOMAIN t : i < j => g[i] < g[j]
        /\ \A i \in DOMAIN t, m \in DOMAIN u : u[m] = t[i] <=> m = g[i]
  BY Zenon DEF Subsequence
<1> DEFINE h == [i \in DOMAIN s |-> g[f[i]]]
<1>3. \A i \in DOMAIN s : f[i] \in DOMAIN t /\ h[i] = g[f[i]]
  BY <1>1
<1>4. h \in [DOMAIN s -> DOMAIN u]
  BY <1>2, <1>3
<1> HIDE DEF h
<1>5. \A i, j \in DOMAIN s : i < j => h[i] < h[j]
  BY <1>1, <1>2, <1>3
<1>6. \A i \in DOMAIN s, m \in DOMAIN u : u[m] = s[i] <=> m = h[i]
  <2> SUFFICES ASSUME NEW i \in DOMAIN s, NEW m \in DOMAIN u PROVE u[m] = s[i] <=> m = h[i]
    OBVIOUS
  <2>1. t[f[i]] = s[i]
    BY <1>1, <1>3
  <2> QED BY <1>2, <1>3, <2>1
<1> QED BY <1>4, <1>5, <1>6, Zenon DEF Subsequence

(* Nothing is collected before the first root.                             *)
LEMMA CollectedNothing ==
  ASSUME NEW token, NEW floor, NEW now
  PROVE  Collected(token, << >>, 0, floor, now)
<1> DEFINE cut == [r \in 0..0 |-> 0]
<1>1. cut \in [0..0 -> 0..Len(<< >>)] /\ cut[0] = 0 /\ Len(<< >>) = 0 /\ 1..0 = {}
  OBVIOUS
<1> HIDE DEF cut
<1> QED BY <1>1 DEF Collected

(* What has been collected stays right when more is appended.              *)
LEMMA CollectedKeeps ==
  ASSUME NEW token \in Tokens, NEW result, NEW n \in 0..Len(Roots), NEW floor, NEW now, NEW then,
         Collected(token, result, n, floor, now),
         \A k \in Keys : Subsequence(now[k], then[k])
  PROVE  Collected(token, result, n, floor, then)
<1> DEFINE key(r) == XORKey(token, Roots[r])
           ofRoot(cut, r) == SubSeq(result, cut[r - 1] + 1, cut[r])
<1>1. PICK cut \in [0..n -> 0..Len(result)] :
        /\ cut[0] = 0 /\ cut[n] = Len(result)
        /\ \A r \in 1..n : /\ cut[r - 1] <= cut[r]
                           /\ Subsequence(floor[key(r)], ofRoot(cut, r))
                           /\ Subsequence(ofRoot(cut, r), now[key(r)])
  BY DEF Collected
<1>2. \A r \in 1..n : key(r) \in Keys
  BY StoreAssumption DEF Keys
<1> HIDE DEF key, ofRoot
<1>3. \A r \in 1..n : Subsequence(ofRoot(cut, r), then[key(r)])
  BY <1>1, <1>2, SubsequenceTrans
<1> QED BY <1>1, <1>3 DEF Collected, key, ofRoot

(* The next root adds its part at the end.                                 *)
LEMMA CollectedNext ==
  ASSUME NEW token \in Tokens, NEW result \in Seq(Nat), NEW n \in Nat, NEW floor, NEW now,
         Collected(token, result, n, floor, now),
         NEW part \in Seq(Nat), part = now[XORKey(token, Roots[n + 1])],
         Subsequence(floor[XORKey(token, Roots[n + 1])], part), Subsequence(part, part)
  PROVE  Collected(token, result \o part, n + 1, floor, now)
<1> DEFINE key(r) == XORKey(token, Roots[r])
           ofRoot(res, cut, r) == SubSeq(res, cut[r - 1] + 1, cut[r])
<1>1. PICK cut \in [0..n -> 0..Len(result)] :
        /\ cut[0] = 0 /\ cut[n] = Len(result)
        /\ \A r \in 1..n : /\ cut[r - 1] <= cut[r]
                           /\ Subsequence(floor[key(r)], ofRoot(result, cut, r))
                           /\ Subsequence(ofRoot(result, cut, r), now[key(r)])
  BY DEF Collected
<1>2. PICK l \in Nat, m \in Nat : l = Len(result) /\ m = Len(part)
  OBVIOUS
<1>3. PICK whole : whole = result \o part
  OBVIOUS
<1>4. /\ whole \in Seq(Nat) /\ Len(whole) = l + m
      /\ \A i \in 1..l : whole[i] = result[i]
      /\ \A i \in 1..m : whole[l + i] = part[i]
  BY <1>2, <1>3
<1> DEFINE longer == [r \in 0..(n + 1) |-> IF r = n + 1 THEN l + m ELSE cut[r]]
<1>5. /\ longer \in [0..(n + 1) -> 0..(l + m)] /\ longer[n + 1] = l + m
      /\ \A r \in 0..n : longer[r] = cut[r]
  <2>1. \A r \in 0..n : cut[r] \in 0..(l + m)
    BY <1>1, <1>2
  <2> QED BY <2>1
<1> HIDE DEF longer
<1>6. ASSUME NEW r \in 1..n
      PROVE  longer[r - 1] <= longer[r] /\ ofRoot(whole, longer, r) = ofRoot(result, cut, r)
  <2>1. r \in 0..n /\ r - 1 \in 0..n
    OBVIOUS
  <2>2. PICK a \in 0..l, b \in 0..l : a = cut[r - 1] /\ b = cut[r] /\ a <= b
    BY <1>1, <1>2, <2>1
  <2>3. longer[r - 1] = a /\ longer[r] = b
    BY <1>5, <2>1, <2>2
  <2>4. SubSeq(whole, a + 1, b) = [i \in 1..(b - a) |-> whole[a + i]]
    BY <1>4
  <2>5. SubSeq(result, a + 1, b) = [i \in 1..(b - a) |-> result[a + i]]
    BY <1>2
  <2>6. \A i \in 1..(b - a) : whole[a + i] = result[a + i]
    BY <1>4
  <2>7. SubSeq(whole, a + 1, b) = SubSeq(result, a + 1, b)
    BY <2>4, <2>5, <2>6
  <2> QED BY <2>2, <2>3, <2>7
<1>7. longer[n] <= longer[n + 1] /\ ofRoot(whole, longer, n + 1) = part
  <2>1. longer[n] = l /\ longer[n + 1] = l + m /\ (n + 1) - 1 = n
    BY <1>1, <1>2, <1>5
  <2>2. SubSeq(whole, l + 1, l + m) = [i \in 1..m |-> whole[l + i]]
    BY <1>4
  <2>3. part = [i \in 1..m |-> part[i]]
    BY <1>2
  <2>4. SubSeq(whole, l + 1, l + m) = part
    BY <1>4, <2>2, <2>3
  <2> QED BY <2>1, <2>4
<1>8. /\ Subsequence(floor[key(n + 1)], part) /\ Subsequence(part, now[key(n + 1)])
  OBVIOUS
<1> HIDE DEF key, ofRoot
<1>9. ASSUME NEW r \in 1..(n + 1)
      PROVE  /\ longer[r - 1] <= longer[r]
             /\ Subsequence(floor[key(r)], ofRoot(whole, longer, r))
             /\ Subsequence(ofRoot(whole, longer, r), now[key(r)])
  <2>1. CASE r \in 1..n
    BY <1>1, <1>6, <2>1
  <2>2. CASE r = n + 1
    BY <1>7, <1>8, <2>2
  <2> QED BY <2>1, <2>2
<1>10. longer[0] = 0 /\ longer[n + 1] = Len(whole) /\ longer \in [0..(n + 1) -> 0..Len(whole)]
  BY <1>1, <1>4, <1>5
<1>11. Collected(token, whole, n + 1, floor, now)
  BY <1>9, <1>10 DEF Collected, key, ofRoot
<1> QED BY <1>3, <1>11

(* What Get returns has no repetition.                                     *)
LEMMA GetOnce ==
  ASSUME StoreInv, opens = 1, NEW k
  PROVE  Get(k) \in Seq(Nat) /\ Subsequence(Get(k), Get(k))
<1>1. CASE kind # "disk"
  <2>1. MemInv
    BY <1>1 DEF StoreInv, InMemory
  <2>2. PICK s : s = Get(k)
    OBVIOUS
  <2>3. s \in Seq(Nat) /\ \A i, j \in DOMAIN s : i < j => s[i] < s[j]
    BY <1>1, <2>1, <2>2, MemGet
  <2>4. \A i, j \in DOMAIN s : s[i] = s[j] => i = j
    <3> SUFFICES ASSUME NEW i \in DOMAIN s, NEW j \in DOMAIN s, s[i] = s[j] PROVE i = j
      OBVIOUS
    <3>1. ~(i < j) /\ ~(j < i) /\ i \in Nat /\ j \in Nat
      BY <2>3
    <3> QED BY <3>1
  <2>5. s = s \o << >> /\ << >> \in Seq(Nat)
    BY <2>3
  <2>6. Subsequence(s, s)
    BY <2>3, <2>4, <2>5, PrefixSubsequence
  <2> QED BY <2>2, <2>3, <2>6
<1>2. CASE kind = "disk"
  <2>1. PICK d, q, A : d = disk /\ q = seq /\ A = At(d, q, k)
    OBVIOUS
  <2>2. /\ q \in Nat
        /\ \A ks \in DOMAIN d : ks[2] \in Nat /\ ks[2] <= q /\ ks[2] # 0 /\ d[ks] \in Nat
        /\ \A ks, ls \in DOMAIN d : d[ks] = d[ls] => ks = ls
    <3>1. StoreType /\ NumberInv /\ KeysInv /\ CallsInv
      BY <1>2 DEF StoreInv, FirstProcess
    <3>2. \A ks \in DOMAIN d : d[ks] \in DOMAIN made
      BY <2>1, <3>1 DEF CallsInv, Stored
    <3>3. DOMAIN made \subseteq Nat
      BY <3>1 DEF StoreType
    <3> QED BY <2>1, <3>1, <3>2, <3>3 DEF StoreType, NumberInv, KeysInv
  <2>3. /\ A \in SUBSET Nat /\ IsFiniteSet(A)
        /\ \A s : s \in A <=> <<k, s>> \in DOMAIN d
        /\ \A s, t \in A : d[<<k, s>>] = d[<<k, t>>] => s = t
    BY <2>1, <2>2, AtFacts
  <2>4. PICK s : s = Get(k) /\ s = Read(d, A, k)
    BY <1>2, <2>1, DiskGetReads DEF Get
  <2>5. Read(d, A, k) \in Seq(Nat)
    <3>1. \A a \in A : d[<<k, a>>] \in Nat
      BY <2>2, <2>3
    <3> QED BY <2>3, <3>1, ReadAll
  <2>6. Subsequence(Read(d, A, k), Read(d, A, k))
    BY <2>3, ReadGrows
  <2> QED BY <2>4, <2>5, <2>6
<1> QED BY <1>1, <1>2

(* A step that Discover has no part in.                                    *)
LEMMA OthersKeep ==
  ASSUME StoreInv, StoreInv', ProbeInv, [Next]_vars, opens' = 1, UNCHANGED probe, probe # NoProbe
  PROVE  Probing'
<1>1. Probing /\ opens = 1
  BY SameProcess DEF ProbeInv
<1>2. PICK p, now, then : p = probe /\ p = probe' /\ now = Now /\ then = Now'
  OBVIOUS
<1>3. \A k \in Keys : Subsequence(now[k], then[k])
  <2> SUFFICES ASSUME NEW k \in Keys PROVE Subsequence(now[k], then[k])
    OBVIOUS
  <2>1. now[k] = Get(k) /\ then[k] = Get(k)'
    BY <1>2 DEF Now
  <2>2. Subsequence(Get(k), Get(k)')
    BY DiskKeeps, SliceKeeps
  <2> QED BY <2>1, <2>2
<1>4. ASSUME NEW k \in Keys PROVE Subsequence(p.floor[k], then[k])
  <2>1. Subsequence(p.floor[k], now[k])
    BY <1>1, <1>2 DEF Probing
  <2> QED BY <1>3, <2>1, SubsequenceTrans
<1>5. ASSUME NEW i \in DOMAIN p.tokens
      PROVE  /\ p.result[p.tokens[i]] \in Seq(Nat)
             /\ Collected(p.tokens[i], p.result[p.tokens[i]], RootsOf(i), p.floor, then)
  <2>1. PICK token \in Tokens, result \in Seq(Nat), n \in 0..Len(Roots) :
          /\ token = p.tokens[i] /\ result = p.result[token]
          /\ n = RootsOf(i) /\ Collected(token, result, n, p.floor, now)
    <3>1. p.tokens[i] \in Tokens
      BY <1>1, <1>2 DEF Probing
    <3>2. /\ p.result[p.tokens[i]] \in Seq(Nat)
          /\ Collected(p.tokens[i], p.result[p.tokens[i]], RootsOf(i), p.floor, now)
      BY <1>1, <1>2 DEF Probing
    <3>3. RootsOf(i) \in 0..Len(Roots)
      <4>1. /\ probe.root \in 1..(Len(Roots) + 1) /\ Len(Roots) \in Nat
            /\ probe.root = Len(Roots) + 1 => probe.token = 1
            /\ i \in Nat \ {0}
        BY <1>1, <1>2, StoreAssumption DEF Probing
      <4> QED BY <4>1 DEF RootsOf
    <3> QED BY <3>1, <3>2, <3>3
  <2>2. Collected(token, result, n, p.floor, then)
    BY <1>3, <2>1, CollectedKeeps
  <2> QED BY <2>1, <2>2
<1>6. \A i : RootsOf(i)' = RootsOf(i)
  BY DEF RootsOf
<1> QED BY <1>1, <1>2, <1>4, <1>5, <1>6 DEF Probing

(* Discover begins with nothing collected.                                 *)
LEMMA BeginProbing ==
  ASSUME StoreInv, ProbeInv, opens = 1, DiscoverBegin
  PROVE  Probing'
<1>1. /\ probe' = [root |-> 1, token |-> 1, tokens |-> registry,
                   result |-> [t \in {registry[i] : i \in DOMAIN registry} |-> << >>],
                   floor  |-> [k \in Keys |-> Get(k)]]
      /\ registry # << >>
      /\ UNCHANGED <<kind, entries, disk, seq>>
  BY DEF DiscoverBegin, storeVars
<1>2. registry \in Seq(Tokens) /\ \A i, j \in DOMAIN registry : registry[i] = registry[j] => i = j
  BY DEF ProbeInv
<1>3. /\ probe'.root = 1 /\ probe'.token = 1 /\ probe'.tokens = registry
      /\ probe'.result = [t \in {registry[i] : i \in DOMAIN registry} |-> << >>]
      /\ probe'.floor = [k \in Keys |-> Get(k)]
      /\ probe' = [root |-> probe'.root, token |-> probe'.token, tokens |-> probe'.tokens,
                   result |-> probe'.result, floor |-> probe'.floor]
  BY <1>1
<1>4. 1 \in DOMAIN registry /\ \A i \in DOMAIN registry : i \in Nat /\ ~(i < 1)
  BY <1>1, <1>2
<1>5. Now' = Now
  BY <1>1 DEF Now, Get, DiskGet
<1>6. \A k \in Keys : Subsequence(probe'.floor[k], Now'[k])
  BY <1>3, <1>5, GetOnce DEF Now
<1>7. ASSUME NEW i \in DOMAIN registry
      PROVE  /\ probe'.result[registry[i]] \in Seq(Nat)
             /\ Collected(registry[i], probe'.result[registry[i]], RootsOf(i)', probe'.floor, Now')
  <2>1. probe'.result[registry[i]] = << >>
    BY <1>3
  <2>2. RootsOf(i)' = 0
    BY <1>3, <1>4 DEF RootsOf
  <2>3. PICK token, floor, now : token = registry[i] /\ floor = probe'.floor /\ now = Now'
    OBVIOUS
  <2>4. Collected(token, << >>, 0, floor, now)
    BY CollectedNothing
  <2> QED BY <2>1, <2>2, <2>3, <2>4
<1>8. probe'.root \in 1..(Len(Roots) + 1) /\ (probe'.root = Len(Roots) + 1 => probe'.token = 1)
  BY <1>3, StoreAssumption
<1>9. DOMAIN probe'.result = {probe'.tokens[i] : i \in DOMAIN probe'.tokens}
  BY <1>3
<1> QED BY <1>2, <1>3, <1>4, <1>6, <1>7, <1>8, <1>9 DEF Probing

(* One probe of the store: the part of the token's next root.              *)
LEMMA ProbeCollects ==
  ASSUME StoreInv, ProbeInv, opens = 1, DiscoverProbe
  PROVE  Probing'
<1>1. PICK p : p = probe
  OBVIOUS
<1>2. PICK t, key, part : t = p.tokens[p.token] /\ key = XORKey(t, Roots[p.root]) /\ part = Get(key)
  OBVIOUS
<1>3. /\ p.root \in 1..Len(Roots) /\ p # NoProbe
      /\ probe' = [p EXCEPT
                     !.result[t] = @ \o part,
                     !.token = IF @ < Len(p.tokens) THEN @ + 1 ELSE 1,
                     !.root  = IF p.token < Len(p.tokens) THEN @ ELSE @ + 1]
      /\ UNCHANGED <<kind, entries, disk, seq>>
  BY <1>1, <1>2, StoreAssumption DEF DiscoverProbe, storeVars, NoProbe
<1>4. Probing
  BY <1>1, <1>3 DEF ProbeInv
<1>5. /\ p = [root |-> p.root, token |-> p.token, tokens |-> p.tokens,
              result |-> p.result, floor |-> p.floor]
      /\ p.tokens \in Seq(Tokens)
      /\ \A i, j \in DOMAIN p.tokens : p.tokens[i] = p.tokens[j] => i = j
      /\ p.token \in DOMAIN p.tokens
      /\ DOMAIN p.result = {p.tokens[i] : i \in DOMAIN p.tokens}
      /\ \A k \in Keys : Subsequence(p.floor[k], Now[k])
      /\ \A i \in DOMAIN p.tokens :
           /\ p.result[p.tokens[i]] \in Seq(Nat)
           /\ Collected(p.tokens[i], p.result[p.tokens[i]], RootsOf(i), p.floor, Now)
  BY <1>1, <1>4 DEF Probing
<1>6. PICK len \in Nat : len = Len(p.tokens) /\ DOMAIN p.tokens = 1..len
  BY <1>5
<1>7. PICK last \in BOOLEAN : last <=> ~(p.token < len)
  OBVIOUS
<1>8. PICK q : q = probe'
  OBVIOUS
<1>9. /\ q = [root |-> q.root, token |-> q.token, tokens |-> q.tokens,
              result |-> q.result, floor |-> q.floor]
      /\ q.root  = (IF last THEN p.root + 1 ELSE p.root)
      /\ q.token = (IF last THEN 1 ELSE p.token + 1)
      /\ q.tokens = p.tokens /\ q.floor = p.floor
      /\ q.result = [p.result EXCEPT ![t] = @ \o part]
  <2>1. PICK root, token, tokens, result, floor :
          /\ p = [root |-> root, token |-> token, tokens |-> tokens,
                  result |-> result, floor |-> floor]
    BY <1>5
  <2>2. /\ p.root = root /\ p.token = token /\ p.tokens = tokens /\ p.result = result
        /\ p.floor = floor
    BY <2>1
  <2>3. q = [root   |-> IF token < len THEN root ELSE root + 1,
             token  |-> IF token < len THEN token + 1 ELSE 1,
             tokens |-> tokens,
             result |-> [result EXCEPT ![t] = @ \o part],
             floor  |-> floor]
    BY <1>3, <1>6, <1>8, <2>1, <2>2
  <2> QED BY <1>7, <2>2, <2>3
<1>10. Now' = Now /\ \A k \in Keys : Now[k] = Get(k)
  BY <1>3 DEF Now, Get, DiskGet
<1>11. t \in Tokens /\ key \in Keys /\ t \in DOMAIN p.result
  BY <1>2, <1>3, <1>5, StoreAssumption DEF Keys
<1>12. DOMAIN q.result = DOMAIN p.result
  BY <1>9
<1>13. ASSUME NEW i \in DOMAIN p.tokens
       PROVE  /\ q.result[p.tokens[i]] \in Seq(Nat)
              /\ Collected(p.tokens[i], q.result[p.tokens[i]], RootsOf(i)', p.floor, Now)
  <2>1. i \in 1..len /\ p.token \in 1..len /\ p.root \in Nat
    BY <1>3, <1>5, <1>6, StoreAssumption
  <2>2. RootsOf(i) = (IF i < p.token THEN p.root ELSE p.root - 1)
    BY <1>1 DEF RootsOf
  <2>3. RootsOf(i)' = (IF i < q.token THEN q.root ELSE q.root - 1)
    BY <1>8 DEF RootsOf
  <2>4. CASE i = p.token
    <3>1. RootsOf(i) = p.root - 1
      BY <2>1, <2>2, <2>4
    <3>2. RootsOf(i)' = p.root
      BY <1>7, <1>9, <2>1, <2>3, <2>4
    <3>0. PICK now : now = Now
      OBVIOUS
    <3>3. PICK n \in Nat, result \in Seq(Nat) : n = p.root - 1 /\ result = p.result[t]
      BY <1>2, <1>3, <1>5, StoreAssumption
    <3>4. Collected(t, result, n, p.floor, now) /\ p.root = n + 1
      BY <1>2, <1>5, <2>1, <2>4, <3>0, <3>1, <3>3
    <3>5. part \in Seq(Nat) /\ Subsequence(part, part)
      BY <1>2, GetOnce
    <3>6. /\ key = XORKey(t, Roots[n + 1]) /\ part = now[key]
          /\ Subsequence(p.floor[key], part)
      BY <1>2, <1>5, <1>10, <1>11, <3>0, <3>3, <3>4
    <3>7. Collected(t, result \o part, n + 1, p.floor, now)
      BY <1>11, <3>4, <3>5, <3>6, CollectedNext
    <3>8. q.result[t] = result \o part /\ result \o part \in Seq(Nat)
      BY <1>9, <1>11, <3>3, <3>5
    <3> QED BY <1>2, <2>4, <3>0, <3>2, <3>3, <3>4, <3>7, <3>8
  <2>5. CASE i # p.token
    <3>1. p.tokens[i] # t
      BY <1>2, <1>5, <2>5
    <3>2. q.result[p.tokens[i]] = p.result[p.tokens[i]]
      BY <1>5, <1>9, <3>1
    <3>3. RootsOf(i)' = RootsOf(i)
      BY <1>7, <1>9, <2>1, <2>2, <2>3, <2>5
    <3> QED BY <1>5, <3>2, <3>3
  <2> QED BY <2>4, <2>5
<1>14. /\ q.token \in DOMAIN q.tokens /\ q.root \in 1..(Len(Roots) + 1)
       /\ q.root = Len(Roots) + 1 => q.token = 1
  <2>1. Len(Roots) \in Nat /\ p.root \in 1..Len(Roots) /\ p.token \in 1..len
    BY <1>3, <1>5, <1>6, StoreAssumption
  <2>2. CASE last
    <3>1. q.token = 1 /\ q.root = p.root + 1
      BY <1>9, <2>2
    <3> QED BY <1>6, <1>9, <2>1, <3>1
  <2>3. CASE ~last
    <3>1. q.token = p.token + 1 /\ q.root = p.root /\ p.token < len
      BY <1>7, <1>9, <2>3
    <3> QED BY <1>6, <1>9, <2>1, <3>1
  <2> QED BY <2>2, <2>3
<1>15. \A k \in Keys : Subsequence(q.floor[k], Now'[k])
  BY <1>5, <1>9, <1>10
<1> QED BY <1>5, <1>8, <1>9, <1>10, <1>12, <1>13, <1>14, <1>15 DEF Probing

(* Every step keeps what Discover has collected right.                     *)
LEMMA ProbeStep == StoreInv /\ StoreInv' /\ ProbeInv /\ [Next]_vars => ProbeInv'
<1> SUFFICES ASSUME StoreInv, StoreInv', ProbeInv, [Next]_vars, opens' = 1
             PROVE  /\ registry' \in Seq(Tokens)
                    /\ \A i, j \in DOMAIN registry' : registry'[i] = registry'[j] => i = j
                    /\ probe' # NoProbe => Probing'
  BY DEF ProbeInv
<1>1. opens = 1 /\ ~Reopen
  BY SameProcess
<1>2. /\ registry \in Seq(Tokens)
      /\ \A i, j \in DOMAIN registry : registry[i] = registry[j] => i = j
  BY <1>1 DEF ProbeInv
<1>3. /\ registry' \in Seq(Tokens)
      /\ \A i, j \in DOMAIN registry' : registry'[i] = registry'[j] => i = j
  <2>1. CASE registry' = registry
    BY <1>2, <2>1
  <2>2. CASE registry' # registry
    <3>1. PICK token \in Tokens : Register(token)
      BY <1>1, <2>2 DEF Next, MemAppend, AppendBatch, AppendMultiKeyBatch, BeginBatch, Number,
         Write, WriteFails, DiscoverBegin, DiscoverProbe, DiscoverReturn, vars
    <3>2. /\ registry' = Append(registry, token)
          /\ \A i \in DOMAIN registry : registry[i] # token
      BY <3>1 DEF Register
    <3>3. PICK n \in Nat : n = Len(registry) /\ DOMAIN registry = 1..n
      BY <1>2
    <3>4. /\ registry' \in Seq(Tokens) /\ DOMAIN registry' = 1..(n + 1)
          /\ registry'[n + 1] = token /\ \A i \in 1..n : registry'[i] = registry[i]
      BY <1>2, <3>2, <3>3
    <3>5. \A i \in 1..(n + 1) : i \in 1..n \/ i = n + 1
      BY <3>3
    <3> QED BY <1>2, <3>2, <3>3, <3>4, <3>5
  <2> QED BY <2>1, <2>2
<1>4. ASSUME probe' # NoProbe PROVE Probing'
  <2>1. CASE DiscoverBegin
    BY <1>1, <2>1, BeginProbing
  <2>2. CASE DiscoverProbe
    BY <1>1, <2>2, ProbeCollects
  <2>3. CASE ~DiscoverBegin /\ ~DiscoverProbe
    <3>1. ~DiscoverReturn
      BY <1>4 DEF DiscoverReturn
    <3>2. UNCHANGED probe
      BY <1>1, <2>3, <3>1 DEF Next, MemAppend, AppendBatch, AppendMultiKeyBatch, BeginBatch,
         Number, Write, WriteFails, Register, vars
    <3> QED BY <1>4, <3>2, OthersKeep
  <2> QED BY <2>1, <2>2, <2>3
<1> QED BY <1>3, <1>4

(* When Discover is done, every token has the parts of all the roots.      *)
LEMMA ProbeDone == ProbeInv => DiscoverComplete
<1> SUFFICES ASSUME ProbeInv, Discovered, opens = 1, NEW i \in DOMAIN probe.tokens
             PROVE  \E cut \in [0..Len(Roots) -> 0..Len(probe.result[probe.tokens[i]])] :
                      /\ cut[0] = 0 /\ cut[Len(Roots)] = Len(probe.result[probe.tokens[i]])
                      /\ \A r \in DOMAIN Roots :
                           LET key    == XORKey(probe.tokens[i], Roots[r])
                               ofRoot == SubSeq(probe.result[probe.tokens[i]],
                                                cut[r - 1] + 1, cut[r])
                           IN /\ cut[r - 1] <= cut[r]
                              /\ Subsequence(probe.floor[key], ofRoot)
                              /\ Subsequence(ofRoot, Get(key))
  BY DEF DiscoverComplete
<1>1. probe # NoProbe
  BY StoreAssumption DEF Discovered, NoProbe
<1>2. Probing /\ Len(Roots) \in Nat
  BY <1>1, StoreAssumption DEF ProbeInv
<1>3. probe.root = Len(Roots) + 1 /\ probe.token = 1
  BY <1>2 DEF Probing, Discovered
<1>4. RootsOf(i) = Len(Roots)
  <2>1. i \in Nat /\ ~(i < 1)
    BY <1>2 DEF Probing
  <2> QED BY <1>2, <1>3, <2>1 DEF RootsOf
<1>5. PICK token, result, n, floor, now :
        /\ token = probe.tokens[i] /\ result = probe.result[token] /\ n = Len(Roots)
        /\ floor = probe.floor /\ now = Now
  OBVIOUS
<1>6. token \in Tokens /\ Collected(token, result, n, floor, now)
  BY <1>2, <1>4, <1>5 DEF Probing
<1>7. \A r \in 1..n : XORKey(token, Roots[r]) \in Keys
  BY <1>5, <1>6, StoreAssumption DEF Keys
<1>8. \A r \in 1..n : now[XORKey(token, Roots[r])] = Get(XORKey(token, Roots[r]))
  BY <1>5, <1>7 DEF Now
<1>9. DOMAIN Roots = 1..n
  BY <1>5, StoreAssumption
<1>10. PICK cut \in [0..n -> 0..Len(result)] :
         /\ cut[0] = 0 /\ cut[n] = Len(result)
         /\ \A r \in 1..n :
              /\ cut[r - 1] <= cut[r]
              /\ Subsequence(floor[XORKey(token, Roots[r])],
                             SubSeq(result, cut[r - 1] + 1, cut[r]))
              /\ Subsequence(SubSeq(result, cut[r - 1] + 1, cut[r]),
                             now[XORKey(token, Roots[r])])
  BY <1>6 DEF Collected
<1>11. \A r \in DOMAIN Roots :
         /\ cut[r - 1] <= cut[r]
         /\ Subsequence(floor[XORKey(token, Roots[r])],
                        SubSeq(result, cut[r - 1] + 1, cut[r]))
         /\ Subsequence(SubSeq(result, cut[r - 1] + 1, cut[r]), Get(XORKey(token, Roots[r])))
  BY <1>8, <1>9, <1>10
<1> QED BY <1>5, <1>10, <1>11

(* Discover gives every token it began with all that was stored for it     *)
(* when it began, root by root, in order and once each, whatever the other *)
(* goroutines append while it runs.                                        *)
THEOREM DiscoverCompleteHolds == Spec => []DiscoverComplete
<1>1. Init => ProbeInv
  BY DEF Init, ProbeInv
<1>2. StoreInv /\ ProbeInv => DiscoverComplete
  BY ProbeDone
<1> QED BY <1>1, <1>2, InitStore, StoreStep, ProbeStep, PTL DEF Spec
=============================================================================
