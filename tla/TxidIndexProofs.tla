--------------------------- MODULE TxidIndexProofs ---------------------------
(***************************************************************************)
(* Proofs about the index from txid to token, for any number of            *)
(* goroutines, txids and tokens, any buffer size, and any number of writes *)
(* that fail and of kills of the process.                                  *)
(***************************************************************************)
EXTENDS TxidIndex, SequenceTheorems, TLAPS

Answers  == Tokens \cup {NoToken}
PairType == [txid : Txids, token : Tokens]
Steps    == {"idle", "setBatch", "flush", "view"}

IndexType ==
  /\ table \in [Txids -> Answers] /\ last \in [Txids -> Answers]
  /\ buf \in Seq(PairType)
  /\ pc \in [Clients -> Steps]
  /\ batch \in [Clients -> Seq(PairType)]
  /\ wanted \in [Clients -> SUBSET Txids]
  /\ found \in [Clients -> [Txids -> Answers]]
  /\ due \in [Clients -> SUBSET Txids]
  /\ could \in [Clients -> [Txids -> SUBSET Answers]]
  /\ blurred \subseteq Txids

(* The pair at i is the newest of its txid.                                *)
NewestAt(pairs, x, i) ==
  i \in DOMAIN pairs /\ pairs[i].txid = x /\ \A j \in DOMAIN pairs : pairs[j].txid = x => j <= i

HasNewest(pairs) == \A x \in TxidsOf(pairs) : \E i \in DOMAIN pairs : NewestAt(pairs, x, i)

(* Only a client that writes has a batch, and only a buffered index has    *)
(* any.                                                                    *)
ShapeInv ==
  /\ kind # "buffered" => buf = << >> /\ \A c \in Clients : batch[c] = << >>
  /\ \A c \in Clients : ~Writing(c) => batch[c] = << >>
  /\ HasNewest(buf) /\ \A c \in Clients : HasNewest(batch[c])

(* The token a txid was last set to is in the buffer, or else in the one   *)
(* batch that has the txid, or else on disk.                               *)
WhereInv ==
  \A x \in Txids \ blurred :
    /\ \A c, d \in Clients : x \in TxidsOf(batch[c]) /\ x \in TxidsOf(batch[d]) => c = d
    /\ x \in TxidsOf(buf) => Lookup(buf, x) = last[x]
    /\ x \notin TxidsOf(buf) =>
         /\ \A c \in Clients : x \in TxidsOf(batch[c]) => Lookup(batch[c], x) = last[x]
         /\ x \notin InFlight => table[x] = last[x]

(* What was not set again since a Flush began is not in the buffer.        *)
DueInv == \A c \in Clients : due[c] \cap TxidsOf(buf) = {}

(* What a lookup has found, or will find on disk, is an answer it may give.*)
LookInv ==
  \A c \in Clients : \A x \in wanted[c] :
    pc[c] = "view" =>
      IF found[c][x] # NoToken THEN found[c][x] \in could[c][x] ELSE table[x] \in could[c][x]

AnswerInv == GetFresh /\ FlushCovers

IndexInv == IndexType /\ ShapeInv /\ WhereInv /\ DueInv /\ LookInv

-----------------------------------------------------------------------------
(***************************************************************************)
(* Lookups in a sequence of pairs.                                         *)
(***************************************************************************)

(* The newest pair is the one Lookup finds.                                *)
LEMMA LookupNewest ==
  ASSUME NEW pairs \in Seq(PairType), NEW x, NEW i, NewestAt(pairs, x, i)
  PROVE  Lookup(pairs, x) = pairs[i].token
<1> DEFINE at == {j \in DOMAIN pairs : pairs[j].txid = x}
<1>1. i \in at /\ \A j \in at : j <= i
  BY DEF NewestAt
<1>2. at \subseteq Nat
  OBVIOUS
<1>3. \A k \in at : (\A j \in at : j <= k) => k = i
  BY <1>1, <1>2
<1>4. (CHOOSE k \in at : \A j \in at : j <= k) = i
  BY <1>1, <1>3
<1> QED BY <1>4 DEF Lookup

(* It is a token.                                                          *)
LEMMA LookupType ==
  ASSUME NEW pairs \in Seq(PairType), HasNewest(pairs), NEW x \in TxidsOf(pairs)
  PROVE  Lookup(pairs, x) \in Tokens /\ x \in Txids
<1>1. PICK i \in DOMAIN pairs : NewestAt(pairs, x, i)
  BY DEF HasNewest
<1>2. pairs[i] \in PairType
  OBVIOUS
<1>3. pairs[i].token \in Tokens /\ pairs[i].txid \in Txids
  BY <1>2 DEF PairType
<1>4. pairs[i].txid = x
  BY <1>1 DEF NewestAt
<1>5. Lookup(pairs, x) = pairs[i].token
  BY <1>1, LookupNewest
<1> QED BY <1>3, <1>4, <1>5

(* A pair at the end is the newest of its txid, and of no other.           *)
LEMMA LookupAppend ==
  ASSUME NEW pairs \in Seq(PairType), HasNewest(pairs), NEW x \in Txids, NEW t \in Tokens
  PROVE  /\ Append(pairs, Pair(x, t)) \in Seq(PairType)
         /\ TxidsOf(Append(pairs, Pair(x, t))) = TxidsOf(pairs) \cup {x}
         /\ HasNewest(Append(pairs, Pair(x, t)))
         /\ Lookup(Append(pairs, Pair(x, t)), x) = t
         /\ \A y \in TxidsOf(pairs) :
              y # x => Lookup(Append(pairs, Pair(x, t)), y) = Lookup(pairs, y)
<1> DEFINE more == Append(pairs, Pair(x, t))
           n == Len(pairs)
<1>1. Pair(x, t) \in PairType /\ Pair(x, t).txid = x /\ Pair(x, t).token = t
  BY DEF Pair, PairType
<1>2. /\ more \in Seq(PairType) /\ n \in Nat /\ DOMAIN more = 1..(n + 1) /\ DOMAIN pairs = 1..n
      /\ \A i \in 1..n : more[i] = pairs[i]
      /\ more[n + 1] = Pair(x, t)
  BY <1>1, AppendProperties
<1> HIDE DEF more, n
<1>3. TxidsOf(more) = TxidsOf(pairs) \cup {x}
  <2>1. \A y \in TxidsOf(more) : y \in TxidsOf(pairs) \cup {x}
    <3> SUFFICES ASSUME NEW i \in 1..(n + 1) PROVE more[i].txid \in TxidsOf(pairs) \cup {x}
      BY <1>2 DEF TxidsOf
    <3>1. CASE i = n + 1
      BY <1>1, <1>2, <3>1
    <3>2. CASE i # n + 1
      <4>1. i \in 1..n
        BY <1>2, <3>2
      <4> QED BY <1>2, <4>1 DEF TxidsOf
    <3> QED BY <3>1, <3>2
  <2>2. x \in TxidsOf(more)
    <3>1. n + 1 \in DOMAIN more
      BY <1>2
    <3> QED BY <1>1, <1>2, <3>1 DEF TxidsOf
  <2>3. \A y \in TxidsOf(pairs) : y \in TxidsOf(more)
    <3> SUFFICES ASSUME NEW i \in 1..n PROVE pairs[i].txid \in TxidsOf(more)
      BY <1>2 DEF TxidsOf
    <3>1. i \in 1..(n + 1) /\ more[i] = pairs[i]
      BY <1>2
    <3> QED BY <1>2, <3>1 DEF TxidsOf
  <2> QED BY <2>1, <2>2, <2>3
<1>4. NewestAt(more, x, n + 1)
  BY <1>1, <1>2 DEF NewestAt
<1>5. \A y, i : y # x /\ NewestAt(pairs, y, i) => NewestAt(more, y, i) /\ more[i] = pairs[i]
  <2> SUFFICES ASSUME NEW y, NEW i, y # x, NewestAt(pairs, y, i)
               PROVE  NewestAt(more, y, i) /\ more[i] = pairs[i]
    OBVIOUS
  <2>1. i \in 1..n /\ i \in 1..(n + 1) /\ more[i] = pairs[i] /\ pairs[i].txid = y
    BY <1>2 DEF NewestAt
  <2>2. ASSUME NEW j \in 1..(n + 1), more[j].txid = y PROVE j <= i
    <3>1. j # n + 1
      BY <1>1, <1>2, <2>2
    <3>2. j \in 1..n
      BY <1>2, <3>1
    <3> QED BY <1>2, <2>2, <3>2 DEF NewestAt
  <2> QED BY <1>2, <2>1, <2>2 DEF NewestAt
<1>6. HasNewest(more)
  <2> SUFFICES ASSUME NEW y \in TxidsOf(more) PROVE \E i \in DOMAIN more : NewestAt(more, y, i)
    BY DEF HasNewest
  <2>1. CASE y = x
    BY <1>2, <1>4, <2>1
  <2>2. CASE y # x
    <3>1. PICK i \in DOMAIN pairs : NewestAt(pairs, y, i)
      BY <1>3, <2>2 DEF HasNewest
    <3>2. NewestAt(more, y, i)
      BY <1>5, <2>2, <3>1
    <3> QED BY <3>2 DEF NewestAt
  <2> QED BY <2>1, <2>2
<1>7. Lookup(more, x) = t
  BY <1>1, <1>2, <1>4, LookupNewest
<1>8. ASSUME NEW y \in TxidsOf(pairs), y # x PROVE Lookup(more, y) = Lookup(pairs, y)
  <2>1. PICK i \in DOMAIN pairs : NewestAt(pairs, y, i)
    BY DEF HasNewest
  <2>2. NewestAt(more, y, i) /\ more[i] = pairs[i]
    BY <1>5, <1>8, <2>1
  <2>3. Lookup(more, y) = more[i].token /\ Lookup(pairs, y) = pairs[i].token
    BY <1>2, <2>1, <2>2, LookupNewest
  <2> QED BY <2>2, <2>3
<1> QED BY <1>2, <1>3, <1>6, <1>7, <1>8 DEF more

(* What is left without the first pair: the txids but for the first one's, *)
(* unless it comes again, and for the others what was found before.        *)
LEMMA LookupTail ==
  ASSUME NEW pairs \in Seq(PairType), HasNewest(pairs), pairs # << >>
  PROVE  /\ Head(pairs) \in PairType /\ Tail(pairs) \in Seq(PairType)
         /\ TxidsOf(pairs) = {Head(pairs).txid} \cup TxidsOf(Tail(pairs))
         /\ HasNewest(Tail(pairs))
         /\ \A y \in TxidsOf(Tail(pairs)) : Lookup(Tail(pairs), y) = Lookup(pairs, y)
         /\ Head(pairs).txid \notin TxidsOf(Tail(pairs)) =>
              Lookup(pairs, Head(pairs).txid) = Head(pairs).token
<1> DEFINE rest == Tail(pairs)
           n == Len(pairs)
<1>1. /\ n \in Nat /\ n >= 1 /\ DOMAIN pairs = 1..n
      /\ rest \in Seq(PairType) /\ Len(rest) = n - 1
      /\ \A i \in 1..(n - 1) : rest[i] = pairs[i + 1]
      /\ Head(pairs) = pairs[1]
  BY EmptySeq, HeadTailProperties
<1>2. DOMAIN rest = 1..(n - 1) /\ pairs[1] \in PairType
  BY <1>1
<1> HIDE DEF rest, n
<1>3. TxidsOf(pairs) = {pairs[1].txid} \cup TxidsOf(rest)
  <2>1. ASSUME NEW i \in 1..n PROVE pairs[i].txid \in {pairs[1].txid} \cup TxidsOf(rest)
    <3>1. CASE i = 1
      BY <3>1
    <3>2. CASE i # 1
      <4>1. i - 1 \in 1..(n - 1) /\ rest[i - 1] = pairs[i]
        BY <1>1, <3>2
      <4> QED BY <1>2, <4>1 DEF TxidsOf
    <3> QED BY <3>1, <3>2
  <2>2. ASSUME NEW i \in 1..(n - 1) PROVE rest[i].txid \in TxidsOf(pairs)
    <3>1. i + 1 \in 1..n /\ rest[i] = pairs[i + 1]
      BY <1>1
    <3> QED BY <1>1, <3>1 DEF TxidsOf
  <2>3. pairs[1].txid \in TxidsOf(pairs)
    <3>1. 1 \in 1..n
      BY <1>1
    <3> QED BY <1>1, <3>1 DEF TxidsOf
  <2>4. \A y \in TxidsOf(pairs) : y \in {pairs[1].txid} \cup TxidsOf(rest)
    BY <1>1, <2>1 DEF TxidsOf
  <2>5. \A y \in TxidsOf(rest) : y \in TxidsOf(pairs)
    BY <1>2, <2>2 DEF TxidsOf
  <2> QED BY <2>3, <2>4, <2>5
<1>4. ASSUME NEW y \in TxidsOf(rest)
      PROVE  (\E i \in DOMAIN rest : NewestAt(rest, y, i)) /\ Lookup(rest, y) = Lookup(pairs, y)
  <2>1. PICK k \in DOMAIN pairs : NewestAt(pairs, y, k)
    BY <1>3 DEF HasNewest
  <2>2. PICK i \in 1..(n - 1) : rest[i].txid = y
    BY <1>2 DEF TxidsOf
  <2>3. i + 1 \in 1..n /\ pairs[i + 1].txid = y
    BY <1>1, <2>2
  <2>4. i + 1 <= k
    BY <1>1, <2>1, <2>3 DEF NewestAt
  <2>5. k - 1 \in 1..(n - 1) /\ rest[k - 1] = pairs[k] /\ pairs[k].txid = y
    <3>1. k \in 1..n /\ i \in Int /\ i >= 1
      BY <1>1, <2>1
    <3>2. k - 1 \in 1..(n - 1)
      BY <1>1, <2>4, <3>1
    <3>3. rest[k - 1] = pairs[(k - 1) + 1] /\ (k - 1) + 1 = k
      BY <1>1, <3>1, <3>2
    <3> QED BY <2>1, <3>2, <3>3 DEF NewestAt
  <2>6. ASSUME NEW j \in 1..(n - 1), rest[j].txid = y PROVE j <= k - 1
    <3>1. j + 1 \in 1..n /\ pairs[j + 1].txid = y
      BY <1>1, <2>6
    <3>2. j + 1 <= k
      BY <1>1, <2>1, <3>1 DEF NewestAt
    <3> QED BY <1>1, <2>1, <3>2
  <2>7. NewestAt(rest, y, k - 1)
    BY <1>2, <2>5, <2>6 DEF NewestAt
  <2>8. Lookup(rest, y) = rest[k - 1].token /\ Lookup(pairs, y) = pairs[k].token
    BY <1>1, <2>1, <2>7, LookupNewest
  <2> QED BY <1>2, <2>5, <2>7, <2>8
<1>5. ASSUME pairs[1].txid \notin TxidsOf(rest)
      PROVE  Lookup(pairs, pairs[1].txid) = pairs[1].token
  <2>1. ASSUME NEW j \in 1..n, pairs[j].txid = pairs[1].txid PROVE j <= 1
    <3> SUFFICES ASSUME j > 1 PROVE FALSE
      BY <1>1
    <3>1. j - 1 \in 1..(n - 1) /\ rest[j - 1] = pairs[j]
      BY <1>1
    <3> QED BY <1>2, <1>5, <2>1, <3>1 DEF TxidsOf
  <2>2. NewestAt(pairs, pairs[1].txid, 1)
    BY <1>1, <2>1 DEF NewestAt
  <2> QED BY <2>2, LookupNewest
<1> QED BY <1>1, <1>2, <1>3, <1>4, <1>5 DEF rest, HasNewest

(* The empty sequence has no pair.                                         *)
LEMMA LookupEmpty == << >> \in Seq(PairType) /\ TxidsOf(<< >>) = {} /\ HasNewest(<< >>)
<1>1. << >> \in Seq(PairType) /\ DOMAIN << >> = {}
  OBVIOUS
<1> QED BY <1>1 DEF TxidsOf, HasNewest

-----------------------------------------------------------------------------
(***************************************************************************)
(* What a step does to the lookups under way.                              *)
(***************************************************************************)

(* The answers a lookup may give only grow while it lasts; a token set     *)
(* meanwhile is one of them, and every token is if the txid is on its way  *)
(* to disk.                                                                *)
LEMMA CouldGrows ==
  ASSUME Observe, IndexType, last' \in [Txids -> Answers]
  PROVE  /\ could' \in [Clients -> [Txids -> SUBSET Answers]]
         /\ \A c \in Clients : \A x \in Txids :
              pc'[c] = "view" /\ x \in wanted'[c] =>
                /\ last'[x] \in could'[c][x]
                /\ ~Idle(c) => could[c][x] \subseteq could'[c][x]
                /\ Idle(c) => last[x] \in could'[c][x]
                /\ x \in InFlight \cup blurred => Answers \subseteq could'[c][x]
<1>1. ASSUME NEW c \in Clients, NEW x \in Txids
      PROVE  /\ last[x] \in Answers /\ last'[x] \in Answers
             /\ could[c][x] \subseteq Answers
             /\ could'[c][x] =
                  IF pc'[c] # "view" \/ x \notin wanted'[c] THEN {}
                  ELSE (IF Idle(c) THEN {last[x]} ELSE could[c][x])
                       \cup {last'[x]}
                       \cup (IF x \in InFlight \cup blurred \/ x \in (InFlight \cup blurred)'
                             THEN Tokens \cup {NoToken} ELSE {})
  <2>1. last[x] \in Answers /\ last'[x] \in Answers /\ could[c][x] \subseteq Answers
    BY DEF IndexType
  <2> QED BY <2>1 DEF Observe
<1>2. ASSUME NEW c \in Clients, NEW x \in Txids PROVE could'[c][x] \subseteq Answers
  <2>1. CASE pc'[c] # "view" \/ x \notin wanted'[c]
    BY <1>1, <2>1
  <2>2. CASE ~(pc'[c] # "view" \/ x \notin wanted'[c])
    <3> DEFINE old  == IF Idle(c) THEN {last[x]} ELSE could[c][x]
               more == IF x \in InFlight \cup blurred \/ x \in (InFlight \cup blurred)'
                         THEN Tokens \cup {NoToken} ELSE {}
    <3>1. could'[c][x] = old \cup {last'[x]} \cup more
      BY <1>1, <2>2
    <3>2. last'[x] \in Answers
      BY <1>1
    <3>3. old \subseteq Answers
      <4>1. last[x] \in Answers /\ could[c][x] \subseteq Answers
        BY <1>1
      <4> QED BY <4>1
    <3>4. more \subseteq Answers
      BY DEF Answers
    <3> HIDE DEF old, more
    <3> QED BY <3>1, <3>2, <3>3, <3>4
  <2> QED BY <2>1, <2>2
<1>3. could' = [c \in Clients |-> [x \in Txids |-> could'[c][x]]]
  BY DEF Observe
<1>4. could' \in [Clients -> [Txids -> SUBSET Answers]]
  BY <1>2, <1>3
<1>5. ASSUME NEW c \in Clients, NEW x \in Txids, pc'[c] = "view", x \in wanted'[c]
      PROVE  /\ last'[x] \in could'[c][x]
             /\ ~Idle(c) => could[c][x] \subseteq could'[c][x]
             /\ Idle(c) => last[x] \in could'[c][x]
             /\ x \in InFlight \cup blurred => Answers \subseteq could'[c][x]
  <2> DEFINE old  == IF Idle(c) THEN {last[x]} ELSE could[c][x]
             more == IF x \in InFlight \cup blurred \/ x \in (InFlight \cup blurred)'
                       THEN Tokens \cup {NoToken} ELSE {}
  <2>1. could'[c][x] = old \cup {last'[x]} \cup more
    BY <1>1, <1>5
  <2>2. /\ ~Idle(c) => old = could[c][x]
        /\ Idle(c) => old = {last[x]}
        /\ x \in InFlight \cup blurred => more = Answers
    BY DEF Answers
  <2> HIDE DEF old, more
  <2> QED BY <2>1, <2>2
<1> QED BY <1>4, <1>5

(* A step that leaves the lookups alone, and changes on disk only what is  *)
(* set or on its way to disk, keeps what they find among their answers.    *)
LEMMA LookKept ==
  ASSUME IndexType, IndexType', LookInv, Observe,
         \A c \in Clients : pc'[c] = "view" =>
           pc[c] = "view" /\ wanted'[c] = wanted[c] /\ found'[c] = found[c],
         \A x \in Txids : table'[x] \in {table[x], last'[x]} \/ x \in InFlight
  PROVE  LookInv'
<1> SUFFICES ASSUME NEW c \in Clients, NEW x \in wanted'[c], pc'[c] = "view"
             PROVE  IF found'[c][x] # NoToken THEN found'[c][x] \in could'[c][x]
                                              ELSE table'[x] \in could'[c][x]
  BY DEF LookInv
<1>1. x \in Txids /\ x \in wanted[c] /\ pc[c] = "view" /\ ~Idle(c) /\ found'[c] = found[c]
  BY DEF IndexType, Idle
<1>2. last' \in [Txids -> Answers] /\ table'[x] \in Answers
  BY <1>1 DEF IndexType
<1>3. /\ last'[x] \in could'[c][x] /\ could[c][x] \subseteq could'[c][x]
      /\ x \in InFlight => Answers \subseteq could'[c][x]
  BY <1>1, <1>2, CouldGrows
<1>4. IF found[c][x] # NoToken THEN found[c][x] \in could[c][x] ELSE table[x] \in could[c][x]
  BY <1>1 DEF LookInv
<1> QED BY <1>1, <1>2, <1>3, <1>4

(* A txid is in flight if it is in someone's batch.                        *)
LEMMA InFlightOf == \A x : x \in InFlight <=> \E c \in Clients : x \in TxidsOf(batch[c])
BY DEF InFlight

(* Taking the buffer: its pairs are now the newest on their way to disk,   *)
(* and a txid that was on its way already is blurred.                      *)
LEMMA TakeKeeps ==
  ASSUME IndexInv, NEW c \in Clients, Idle(c), kind = "buffered", kind' = kind, table' = table,
         NEW pairs \in Seq(PairType), HasNewest(pairs), NEW step \in {"setBatch", "flush"},
         Take(c, pairs, step),
         \A y \in Txids \ blurred :
           IF y \in TxidsOf(pairs) THEN Lookup(pairs, y) = last'[y]
                                   ELSE y \notin TxidsOf(buf) /\ last'[y] = last[y]
  PROVE  /\ buf' \in Seq(PairType) /\ batch' \in [Clients -> Seq(PairType)]
         /\ pc' \in [Clients -> Steps] /\ blurred' \subseteq Txids
         /\ ShapeInv' /\ WhereInv' /\ DueInv'
<1>1. /\ buf' = << >> /\ TxidsOf(buf') = {} /\ HasNewest(buf') /\ buf' \in Seq(PairType)
  BY LookupEmpty DEF Take
<1>2. /\ batch[c] = << >> /\ TxidsOf(batch[c]) = {}
      /\ batch'[c] = pairs
      /\ \A d \in Clients \ {c} : batch'[d] = batch[d] /\ pc'[d] = pc[d]
      /\ pc'[c] = step
      /\ batch' \in [Clients -> Seq(PairType)] /\ pc' \in [Clients -> Steps]
  BY LookupEmpty DEF Take, Goto, IndexInv, IndexType, ShapeInv, Writing, Idle, Steps
<1>3. \A y \in TxidsOf(pairs) : y \in Txids
  BY LookupType
<1>4. blurred' = blurred \cup (TxidsOf(pairs) \cap InFlight) /\ blurred' \subseteq Txids
  BY <1>3 DEF Take, IndexInv, IndexType
<1>5. ShapeInv'
  BY <1>1, <1>2 DEF ShapeInv, IndexInv, Writing
<1>6. WhereInv'
  <2> SUFFICES ASSUME NEW y \in Txids \ blurred'
               PROVE  /\ \A d, e \in Clients :
                           y \in TxidsOf(batch'[d]) /\ y \in TxidsOf(batch'[e]) => d = e
                      /\ \A d \in Clients : y \in TxidsOf(batch'[d]) => Lookup(batch'[d], y) = last'[y]
                      /\ y \notin InFlight' => table'[y] = last'[y]
    BY <1>1 DEF WhereInv
  <2>1. y \in Txids \ blurred /\ ~(y \in TxidsOf(pairs) /\ y \in InFlight)
    BY <1>4
  <2>2. /\ \A d, e \in Clients : y \in TxidsOf(batch[d]) /\ y \in TxidsOf(batch[e]) => d = e
        /\ y \notin TxidsOf(buf) =>
             /\ \A d \in Clients : y \in TxidsOf(batch[d]) => Lookup(batch[d], y) = last[y]
             /\ y \notin InFlight => table[y] = last[y]
    BY <2>1 DEF IndexInv, WhereInv
  <2>3. y \in InFlight' <=> \E d \in Clients : y \in TxidsOf(batch'[d])
    BY DEF InFlight
  <2>4. CASE y \in TxidsOf(pairs)
    <3>1. \A d \in Clients : y \in TxidsOf(batch'[d]) => d = c
      BY <1>2, <2>1, <2>4, InFlightOf
    <3> QED BY <1>2, <2>1, <2>3, <2>4, <3>1
  <2>5. CASE y \notin TxidsOf(pairs)
    <3>1. y \notin TxidsOf(buf) /\ last'[y] = last[y]
      BY <2>1, <2>5
    <3>2. \A d \in Clients : y \in TxidsOf(batch'[d]) => d # c /\ batch'[d] = batch[d]
      BY <1>2, <2>5
    <3>3. y \notin InFlight' => y \notin InFlight
      BY <1>2, <2>3, InFlightOf
    <3> QED BY <2>2, <3>1, <3>2, <3>3
  <2> QED BY <2>4, <2>5
<1>7. DueInv'
  BY <1>1 DEF DueInv
<1> QED BY <1>1, <1>2, <1>4, <1>5, <1>6, <1>7

-----------------------------------------------------------------------------
(***************************************************************************)
(* The actions, one by one.                                                *)
(***************************************************************************)

(* A Set that writes at once: only an index without a buffer does.         *)
LEMMA SetKeeps ==
  ASSUME IndexInv, NEW c \in Clients, Set(c), Observe
  PROVE  IndexInv'
<1>1. PICK x \in Txids, t \in Tokens :
        /\ Record(x, t)
        /\ \/ table' = [table EXCEPT ![x] = t] /\ blurred' = blurred
           \/ table' = table /\ blurred' = blurred \cup {x}
  BY DEF Set
<1>2. kind # "buffered" /\ UNCHANGED <<kind, buf, pc, batch, wanted, found>>
  BY DEF Set
<1>3. t \in Answers
  BY DEF Answers
<1>4. /\ last' \in [Txids -> Answers] /\ last'[x] = t
      /\ \A y \in Txids \ {x} : last'[y] = last[y] /\ table'[y] = table[y]
      /\ table' \in [Txids -> Answers] /\ (x \notin blurred' => table'[x] = t)
      /\ table'[x] \in {table[x], t}
      /\ due' \in [Clients -> SUBSET Txids] /\ \A d \in Clients : due'[d] \subseteq due[d]
      /\ blurred' \subseteq Txids /\ blurred \subseteq blurred'
  BY <1>1, <1>3 DEF Record, IndexInv, IndexType
<1>5. /\ buf = << >> /\ TxidsOf(buf) = {}
      /\ \A d \in Clients : batch[d] = << >> /\ TxidsOf(batch[d]) = {}
  BY <1>2, LookupEmpty DEF IndexInv, ShapeInv
<1>6. IndexType'
  <2>1. could' \in [Clients -> [Txids -> SUBSET Answers]]
    BY <1>4, CouldGrows DEF IndexInv
  <2> QED BY <1>2, <1>4, <2>1 DEF IndexInv, IndexType
<1>7. ShapeInv'
  BY <1>2, <1>5 DEF IndexInv, ShapeInv, Writing
<1>8. WhereInv'
  <2>1. \A y : y \notin InFlight /\ y \notin InFlight'
    BY <1>2, <1>5 DEF InFlight
  <2>2. \A y \in Txids \ blurred' : table'[y] = last'[y]
    BY <1>4, <1>5, <2>1 DEF IndexInv, WhereInv
  <2> QED BY <1>2, <1>5, <2>2 DEF WhereInv
<1>9. DueInv'
  BY <1>2, <1>5 DEF DueInv
<1>10. LookInv'
  <2>1. \A y \in Txids : table'[y] \in {table[y], last'[y]}
    BY <1>4
  <2> QED BY <1>2, <1>6, <2>1, LookKept DEF IndexInv
<1> QED BY <1>6, <1>7, <1>8, <1>9, <1>10 DEF IndexInv

(* A Set that appends to the buffer, or takes it.                          *)
LEMMA BufferedSetKeeps ==
  ASSUME IndexInv, NEW c \in Clients, BufferedSet(c), Observe
  PROVE  IndexInv'
<1>1. PICK x \in Txids, t \in Tokens :
        /\ Record(x, t)
        /\ IF Len(Append(buf, Pair(x, t))) >= bufSize
             THEN Take(c, Append(buf, Pair(x, t)), "setBatch")
             ELSE buf' = Append(buf, Pair(x, t)) /\ UNCHANGED <<batch, blurred, pc>>
  BY DEF BufferedSet
<1> DEFINE pairs == Append(buf, Pair(x, t))
<1>2. kind = "buffered" /\ Idle(c) /\ UNCHANGED <<kind, table, wanted, found>>
  BY DEF BufferedSet
<1>3. t \in Answers
  BY DEF Answers
<1>4. /\ last' \in [Txids -> Answers] /\ last'[x] = t
      /\ \A y \in Txids \ {x} : last'[y] = last[y]
      /\ due' \in [Clients -> SUBSET Txids]
      /\ \A d \in Clients : due'[d] = due[d] \ {x}
  BY <1>1, <1>3 DEF Record, IndexInv, IndexType
<1>5. buf \in Seq(PairType) /\ HasNewest(buf)
  BY DEF IndexInv, IndexType, ShapeInv
<1>6. /\ pairs \in Seq(PairType) /\ TxidsOf(pairs) = TxidsOf(buf) \cup {x} /\ HasNewest(pairs)
      /\ Lookup(pairs, x) = t
      /\ \A y \in TxidsOf(buf) : y # x => Lookup(pairs, y) = Lookup(buf, y)
  BY <1>5, LookupAppend
<1> HIDE DEF pairs
<1>7. \A y \in Txids \ blurred :
        IF y \in TxidsOf(pairs) THEN Lookup(pairs, y) = last'[y]
                                ELSE y \notin TxidsOf(buf) /\ last'[y] = last[y]
  <2> SUFFICES ASSUME NEW y \in Txids \ blurred
               PROVE  IF y \in TxidsOf(pairs) THEN Lookup(pairs, y) = last'[y]
                      ELSE y \notin TxidsOf(buf) /\ last'[y] = last[y]
    OBVIOUS
  <2>1. y \in TxidsOf(buf) => Lookup(buf, y) = last[y]
    BY DEF IndexInv, WhereInv
  <2> QED BY <1>4, <1>6, <2>1
<1>8. /\ buf' \in Seq(PairType) /\ batch' \in [Clients -> Seq(PairType)]
      /\ pc' \in [Clients -> Steps] /\ blurred' \subseteq Txids
      /\ ShapeInv' /\ WhereInv' /\ DueInv'
  <2>1. CASE Take(c, pairs, "setBatch")
    BY <1>2, <1>6, <1>7, <2>1, TakeKeeps
  <2>2. CASE buf' = pairs /\ UNCHANGED <<batch, blurred, pc>>
    <3>1. ShapeInv'
      BY <1>2, <1>6, <2>2 DEF IndexInv, ShapeInv, Writing
    <3>2. WhereInv'
      <4>1. InFlight' = InFlight
        BY <2>2 DEF InFlight
      <4> SUFFICES ASSUME NEW y \in Txids \ blurred
                   PROVE  /\ \A d, e \in Clients :
                               y \in TxidsOf(batch[d]) /\ y \in TxidsOf(batch[e]) => d = e
                          /\ y \in TxidsOf(pairs) => Lookup(pairs, y) = last'[y]
                          /\ y \notin TxidsOf(pairs) =>
                               /\ \A d \in Clients : y \in TxidsOf(batch[d]) => Lookup(batch[d], y) = last'[y]
                               /\ y \notin InFlight => table[y] = last'[y]
        BY <1>2, <2>2, <4>1 DEF WhereInv
      <4>2. y \notin TxidsOf(pairs) => y \notin TxidsOf(buf) /\ last'[y] = last[y]
        BY <1>7
      <4> QED BY <1>7, <4>2 DEF IndexInv, WhereInv
    <3>3. DueInv'
      BY <1>4, <1>6, <2>2 DEF IndexInv, DueInv
    <3> QED BY <1>6, <2>2, <3>1, <3>2, <3>3 DEF IndexInv, IndexType
  <2> QED BY <1>1, <2>1, <2>2 DEF pairs
<1>9. IndexType'
  <2>1. could' \in [Clients -> [Txids -> SUBSET Answers]]
    BY <1>4, CouldGrows DEF IndexInv
  <2> QED BY <1>2, <1>4, <1>8, <2>1 DEF IndexInv, IndexType
<1>10. LookInv'
  <2>1. \A d \in Clients : pc'[d] = "view" => pc[d] = "view"
    BY <1>1 DEF Take, Goto, IndexInv, IndexType
  <2> QED BY <1>2, <1>9, <2>1, LookKept DEF IndexInv
<1> QED BY <1>8, <1>9, <1>10 DEF IndexInv

(* Flush takes the buffer as it is.                                        *)
LEMMA FlushKeeps ==
  ASSUME IndexInv, NEW c \in Clients, Flush(c), Observe
  PROVE  IndexInv'
<1>1. /\ kind = "buffered" /\ Idle(c) /\ Take(c, buf, "flush")
      /\ due' = [due EXCEPT ![c] = Txids]
      /\ UNCHANGED <<kind, table, wanted, found, last>>
  BY DEF Flush
<1>2. buf \in Seq(PairType) /\ HasNewest(buf)
  BY DEF IndexInv, IndexType, ShapeInv
<1>3. \A y \in Txids \ blurred :
        IF y \in TxidsOf(buf) THEN Lookup(buf, y) = last'[y]
                              ELSE y \notin TxidsOf(buf) /\ last'[y] = last[y]
  BY <1>1 DEF IndexInv, WhereInv
<1>4. /\ buf' \in Seq(PairType) /\ batch' \in [Clients -> Seq(PairType)]
      /\ pc' \in [Clients -> Steps] /\ blurred' \subseteq Txids
      /\ ShapeInv' /\ WhereInv' /\ DueInv'
  BY <1>1, <1>2, <1>3, TakeKeeps
<1>5. IndexType'
  <2>1. could' \in [Clients -> [Txids -> SUBSET Answers]]
    BY <1>1, CouldGrows DEF IndexInv, IndexType
  <2> QED BY <1>1, <1>4, <2>1 DEF IndexInv, IndexType
<1>6. LookInv'
  <2>1. \A d \in Clients : pc'[d] = "view" => pc[d] = "view"
    BY <1>1 DEF Take, Goto, IndexInv, IndexType
  <2> QED BY <1>1, <1>5, <2>1, LookKept DEF IndexInv
<1> QED BY <1>4, <1>5, <1>6 DEF IndexInv

(* One pair of a batch reaches the disk: the newest of its txid is on disk *)
(* or still in the batch.                                                  *)
LEMMA SetBatchKeeps ==
  ASSUME IndexInv, NEW c \in Clients, SetBatch(c), Observe
  PROVE  IndexInv'
<1> DEFINE first == Head(batch[c])
           rest  == Tail(batch[c])
<1>1. /\ Writing(c) /\ batch[c] # << >>
      /\ table' = [table EXCEPT ![first.txid] = first.token]
      /\ batch' = [batch EXCEPT ![c] = rest]
      /\ UNCHANGED <<kind, buf, pc, wanted, found, due, last, blurred>>
  BY DEF SetBatch, histVars
<1>2. batch[c] \in Seq(PairType) /\ HasNewest(batch[c])
  BY DEF IndexInv, IndexType, ShapeInv
<1>3. /\ first \in PairType /\ rest \in Seq(PairType) /\ HasNewest(rest)
      /\ TxidsOf(batch[c]) = {first.txid} \cup TxidsOf(rest)
      /\ \A y \in TxidsOf(rest) : Lookup(rest, y) = Lookup(batch[c], y)
      /\ first.txid \notin TxidsOf(rest) => Lookup(batch[c], first.txid) = first.token
  BY <1>1, <1>2, LookupTail
<1> HIDE DEF first, rest
<1>4. /\ first.txid \in Txids /\ first.token \in Answers
      /\ batch'[c] = rest /\ \A d \in Clients \ {c} : batch'[d] = batch[d]
      /\ table'[first.txid] = first.token
      /\ \A y \in Txids \ {first.txid} : table'[y] = table[y]
      /\ table' \in [Txids -> Answers] /\ batch' \in [Clients -> Seq(PairType)]
  BY <1>1, <1>3 DEF IndexInv, IndexType, PairType, Answers
<1>5. IndexType'
  <2>1. could' \in [Clients -> [Txids -> SUBSET Answers]]
    BY <1>1, CouldGrows DEF IndexInv, IndexType
  <2> QED BY <1>1, <1>4, <2>1 DEF IndexInv, IndexType
<1>6. ShapeInv'
  <2>1. kind = "buffered"
    BY <1>1 DEF IndexInv, ShapeInv
  <2> QED BY <1>1, <1>3, <1>4, <2>1 DEF IndexInv, ShapeInv, Writing
<1>7. WhereInv'
  <2> SUFFICES ASSUME NEW y \in Txids \ blurred
               PROVE  /\ \A d, e \in Clients :
                           y \in TxidsOf(batch'[d]) /\ y \in TxidsOf(batch'[e]) => d = e
                      /\ y \in TxidsOf(buf) => Lookup(buf, y) = last[y]
                      /\ y \notin TxidsOf(buf) =>
                           /\ \A d \in Clients : y \in TxidsOf(batch'[d]) => Lookup(batch'[d], y) = last[y]
                           /\ y \notin InFlight' => table'[y] = last[y]
    BY <1>1 DEF WhereInv
  <2>1. /\ \A d, e \in Clients : y \in TxidsOf(batch[d]) /\ y \in TxidsOf(batch[e]) => d = e
        /\ y \in TxidsOf(buf) => Lookup(buf, y) = last[y]
        /\ y \notin TxidsOf(buf) =>
             /\ \A d \in Clients : y \in TxidsOf(batch[d]) => Lookup(batch[d], y) = last[y]
             /\ y \notin InFlight => table[y] = last[y]
    BY DEF IndexInv, WhereInv
  <2>2. \A d \in Clients :
          /\ y \in TxidsOf(batch'[d]) =>
               y \in TxidsOf(batch[d]) /\ Lookup(batch'[d], y) = Lookup(batch[d], y)
          /\ y # first.txid => (y \in TxidsOf(batch'[d]) <=> y \in TxidsOf(batch[d]))
    BY <1>3, <1>4
  <2>3. y \in InFlight' <=> \E d \in Clients : y \in TxidsOf(batch'[d])
    BY DEF InFlight
  <2>4. ASSUME y \notin TxidsOf(buf), y \notin InFlight' PROVE table'[y] = last[y]
    <3>1. CASE y = first.txid
      <4>1. y \notin TxidsOf(rest)
        BY <1>4, <2>3, <2>4
      <4> QED BY <1>3, <1>4, <2>1, <2>4, <3>1, <4>1
    <3>2. CASE y # first.txid
      <4>1. y \notin InFlight
        BY <2>2, <2>3, <2>4, <3>2, InFlightOf
      <4> QED BY <1>4, <2>1, <2>4, <3>2, <4>1
    <3> QED BY <3>1, <3>2
  <2> QED BY <2>1, <2>2, <2>4
<1>8. DueInv'
  BY <1>1 DEF IndexInv, DueInv
<1>9. LookInv'
  <2>1. first.txid \in InFlight
    BY <1>3, InFlightOf
  <2>2. \A y \in Txids : table'[y] \in {table[y], last'[y]} \/ y \in InFlight
    BY <1>4, <2>1
  <2> QED BY <1>1, <1>5, <2>2, LookKept DEF IndexInv
<1> QED BY <1>5, <1>6, <1>7, <1>8, <1>9 DEF IndexInv

(* The rest of a batch is lost: its txids are blurred.                     *)
LEMMA SetBatchFailsKeeps ==
  ASSUME IndexInv, NEW c \in Clients, SetBatchFails(c), Observe
  PROVE  IndexInv'
<1>1. /\ Writing(c) /\ batch[c] # << >>
      /\ blurred' = blurred \cup TxidsOf(batch[c])
      /\ batch' = [batch EXCEPT ![c] = << >>]
      /\ UNCHANGED <<kind, table, buf, pc, wanted, found, due, last>>
  BY DEF SetBatchFails, indexVars
<1>2. batch[c] \in Seq(PairType) /\ HasNewest(batch[c])
  BY DEF IndexInv, IndexType, ShapeInv
<1>3. \A y \in TxidsOf(batch[c]) : y \in Txids
  BY <1>2, LookupType
<1>4. /\ batch'[c] = << >> /\ TxidsOf(batch'[c]) = {} /\ HasNewest(batch'[c])
      /\ \A d \in Clients \ {c} : batch'[d] = batch[d]
      /\ batch' \in [Clients -> Seq(PairType)] /\ blurred' \subseteq Txids
  BY <1>1, <1>3, LookupEmpty DEF IndexInv, IndexType
<1>5. IndexType'
  <2>1. could' \in [Clients -> [Txids -> SUBSET Answers]]
    BY <1>1, CouldGrows DEF IndexInv, IndexType
  <2> QED BY <1>1, <1>4, <2>1 DEF IndexInv, IndexType
<1>6. ShapeInv'
  BY <1>1, <1>4 DEF IndexInv, ShapeInv, Writing
<1>7. WhereInv'
  <2> SUFFICES ASSUME NEW y \in Txids \ blurred'
               PROVE  /\ \A d, e \in Clients :
                           y \in TxidsOf(batch'[d]) /\ y \in TxidsOf(batch'[e]) => d = e
                      /\ y \in TxidsOf(buf) => Lookup(buf, y) = last[y]
                      /\ y \notin TxidsOf(buf) =>
                           /\ \A d \in Clients : y \in TxidsOf(batch'[d]) => Lookup(batch'[d], y) = last[y]
                           /\ y \notin InFlight' => table[y] = last[y]
    BY <1>1 DEF WhereInv
  <2>1. y \in Txids \ blurred /\ y \notin TxidsOf(batch[c])
    BY <1>1
  <2>2. \A d \in Clients :
          /\ y \in TxidsOf(batch'[d]) <=> y \in TxidsOf(batch[d])
          /\ y \in TxidsOf(batch'[d]) => batch'[d] = batch[d]
    BY <1>4, <2>1
  <2>3. y \in InFlight' <=> y \in InFlight
    BY <2>2 DEF InFlight
  <2> QED BY <2>1, <2>2, <2>3 DEF IndexInv, WhereInv
<1>8. DueInv'
  BY <1>1 DEF IndexInv, DueInv
<1>9. LookInv'
  BY <1>1, <1>5, LookKept DEF IndexInv
<1> QED BY <1>5, <1>6, <1>7, <1>8, <1>9 DEF IndexInv

(* The write is over.  When a Flush returns, what is still due to it is    *)
(* covered.                                                                *)
LEMMA BatchReturnsKeeps ==
  ASSUME IndexInv, NEW c \in Clients, BatchReturns(c), Observe
  PROVE  IndexInv' /\ AnswerInv'
<1>1. /\ Writing(c) /\ batch[c] = << >>
      /\ pc' = [pc EXCEPT ![c] = "idle"]
      /\ answer' = IF pc[c] = "flush" THEN [op |-> "flush", due |-> due[c]] ELSE [op |-> "none"]
      /\ due' = [due EXCEPT ![c] = {}]
      /\ UNCHANGED <<kind, table, buf, batch, wanted, found, last, blurred>>
  BY DEF BatchReturns, Goto, indexVars, histVars
<1>2. InFlight' = InFlight
  BY <1>1 DEF InFlight
<1>3. pc' \in [Clients -> Steps] /\ due' \in [Clients -> SUBSET Txids]
  BY <1>1 DEF IndexInv, IndexType, Steps
<1>4. IndexType'
  <2>1. could' \in [Clients -> [Txids -> SUBSET Answers]]
    BY <1>1, CouldGrows DEF IndexInv, IndexType
  <2> QED BY <1>1, <1>3, <2>1 DEF IndexInv, IndexType
<1>5. ShapeInv'
  <2>1. \A d \in Clients : ~Writing(d)' => batch[d] = << >>
    BY <1>1 DEF IndexInv, IndexType, ShapeInv, Writing
  <2> QED BY <1>1, <2>1 DEF IndexInv, ShapeInv
<1>6. WhereInv'
  BY <1>1, <1>2 DEF IndexInv, WhereInv
<1>7. DueInv'
  BY <1>1 DEF IndexInv, IndexType, DueInv
<1>8. LookInv'
  <2>1. \A d \in Clients : pc'[d] = "view" => pc[d] = "view"
    BY <1>1 DEF IndexInv, IndexType
  <2> QED BY <1>1, <1>4, <2>1, LookKept DEF IndexInv
<1>9. AnswerInv'
  <2>1. CASE pc[c] = "flush"
    <3>1. answer'.op = "flush" /\ answer'.due = due[c]
      BY <1>1, <2>1
    <3>2. ASSUME NEW x \in due[c] \ (InFlight \cup blurred)
          PROVE  x \notin TxidsOf(buf) /\ table[x] = last[x]
      <4>1. x \in Txids \ blurred /\ x \notin TxidsOf(buf) /\ x \notin InFlight
        BY DEF IndexInv, IndexType, DueInv
      <4> QED BY <4>1 DEF IndexInv, WhereInv
    <3> QED BY <1>1, <1>2, <3>1, <3>2 DEF AnswerInv, GetFresh, FlushCovers
  <2>2. CASE pc[c] # "flush"
    BY <1>1, <2>2 DEF AnswerInv, GetFresh, FlushCovers
  <2> QED BY <2>1, <2>2
<1> QED BY <1>4, <1>5, <1>6, <1>7, <1>8, <1>9 DEF IndexInv

(* A lookup begins: what it finds in the buffer, or will find on disk if   *)
(* nothing happens, was the newest token unless the txid is on its way.    *)
LEMMA GetKeeps ==
  ASSUME IndexInv, NEW c \in Clients, Get(c), Observe
  PROVE  IndexInv'
<1>1. PICK xs \in SUBSET Txids :
        /\ wanted' = [wanted EXCEPT ![c] = xs]
        /\ found' = [found EXCEPT ![c] =
             [x \in Txids |-> IF x \in xs \cap TxidsOf(buf) THEN Lookup(buf, x) ELSE NoToken]]
  BY DEF Get
<1>2. /\ Idle(c) /\ pc' = [pc EXCEPT ![c] = "view"]
      /\ UNCHANGED <<kind, table, buf, batch, due, last, blurred>>
  BY DEF Get, Goto, indexVars, histVars
<1>3. buf \in Seq(PairType) /\ HasNewest(buf)
  BY DEF IndexInv, IndexType, ShapeInv
<1>4. \A x \in TxidsOf(buf) : Lookup(buf, x) \in Tokens
  BY <1>3, LookupType
<1>5. /\ pc' \in [Clients -> Steps] /\ wanted' \in [Clients -> SUBSET Txids]
      /\ wanted'[c] = xs /\ pc'[c] = "view"
      /\ \A x \in Txids : found'[c][x] = IF x \in xs \cap TxidsOf(buf) THEN Lookup(buf, x) ELSE NoToken
      /\ \A d \in Clients \ {c} : pc'[d] = pc[d] /\ wanted'[d] = wanted[d] /\ found'[d] = found[d]
  BY <1>1, <1>2 DEF IndexInv, IndexType, Steps
<1>6. found' \in [Clients -> [Txids -> Answers]]
  <2> DEFINE mine == [x \in Txids |-> IF x \in xs \cap TxidsOf(buf) THEN Lookup(buf, x) ELSE NoToken]
  <2>1. mine \in [Txids -> Answers]
    BY <1>4 DEF Answers
  <2> HIDE DEF mine
  <2>2. found \in [Clients -> [Txids -> Answers]] /\ found' = [found EXCEPT ![c] = mine]
    BY <1>1 DEF IndexInv, IndexType, mine
  <2> QED BY <2>1, <2>2
<1>7. last' \in [Txids -> Answers]
  BY <1>2 DEF IndexInv, IndexType
<1>8. IndexType'
  <2>1. could' \in [Clients -> [Txids -> SUBSET Answers]]
    BY <1>7, CouldGrows DEF IndexInv
  <2> QED BY <1>2, <1>5, <1>6, <2>1 DEF IndexInv, IndexType
<1>9. ShapeInv'
  <2>1. \A d \in Clients : ~Writing(d)' => ~Writing(d)
    BY <1>2, <1>5 DEF Writing, Idle
  <2> QED BY <1>2, <2>1 DEF IndexInv, ShapeInv
<1>10. WhereInv' /\ DueInv'
  <2>1. InFlight' = InFlight
    BY <1>2 DEF InFlight
  <2> QED BY <1>2, <2>1 DEF IndexInv, WhereInv, DueInv
<1>11. LookInv'
  <2> SUFFICES ASSUME NEW d \in Clients, NEW x \in wanted'[d], pc'[d] = "view"
               PROVE  IF found'[d][x] # NoToken THEN found'[d][x] \in could'[d][x]
                                                ELSE table[x] \in could'[d][x]
    BY <1>2 DEF LookInv
  <2>1. x \in Txids /\ table[x] \in Answers
    BY <1>5 DEF IndexInv, IndexType
  <2>2. /\ ~Idle(d) => could[d][x] \subseteq could'[d][x]
        /\ Idle(d) => last[x] \in could'[d][x]
        /\ x \in InFlight \cup blurred => Answers \subseteq could'[d][x]
    BY <1>7, <2>1, CouldGrows DEF IndexInv
  <2>3. CASE d = c
    <3>1. CASE x \in TxidsOf(buf)
      <4>1. found'[c][x] = Lookup(buf, x) /\ Lookup(buf, x) \in Tokens
        BY <1>4, <1>5, <2>1, <2>3, <3>1
      <4>2. found'[c][x] # NoToken /\ found'[c][x] \in Answers
        BY <4>1, IndexAssumption DEF Answers
      <4>3. x \notin blurred => Lookup(buf, x) = last[x]
        BY <2>1, <3>1 DEF IndexInv, WhereInv
      <4> QED BY <1>2, <2>2, <2>3, <4>1, <4>2, <4>3
    <3>2. CASE x \notin TxidsOf(buf)
      <4>1. found'[c][x] = NoToken
        BY <1>5, <2>1, <3>2
      <4>2. x \notin InFlight \cup blurred => table[x] = last[x]
        BY <2>1, <3>2 DEF IndexInv, WhereInv
      <4> QED BY <1>2, <2>1, <2>2, <2>3, <4>1, <4>2
    <3> QED BY <3>1, <3>2
  <2>4. CASE d # c
    <3>1. ~Idle(d) /\ x \in wanted[d] /\ pc[d] = "view" /\ found'[d] = found[d]
      BY <1>5, <2>4 DEF Idle
    <3>2. IF found[d][x] # NoToken THEN found[d][x] \in could[d][x] ELSE table[x] \in could[d][x]
      BY <3>1 DEF IndexInv, LookInv
    <3> QED BY <2>2, <3>1, <3>2
  <2> QED BY <2>3, <2>4
<1> QED BY <1>8, <1>9, <1>10, <1>11 DEF IndexInv

(* A lookup answers, with what LookInv says of it.                         *)
LEMMA GetViewKeeps ==
  ASSUME IndexInv, NEW c \in Clients, GetView(c), Observe
  PROVE  IndexInv' /\ AnswerInv'
<1>1. /\ pc[c] = "view" /\ pc' = [pc EXCEPT ![c] = "idle"]
      /\ wanted' = [wanted EXCEPT ![c] = {}]
      /\ found' = [found EXCEPT ![c] = Nothing]
      /\ UNCHANGED <<kind, table, buf, batch, due, last, blurred>>
  BY DEF GetView, Goto, indexVars, histVars
<1>2. Nothing \in [Txids -> Answers]
  BY DEF Nothing, Answers
<1>3. /\ pc' \in [Clients -> Steps] /\ wanted' \in [Clients -> SUBSET Txids]
      /\ found' \in [Clients -> [Txids -> Answers]]
      /\ \A d \in Clients : pc'[d] = "view" =>
           d # c /\ pc[d] = "view" /\ wanted'[d] = wanted[d] /\ found'[d] = found[d]
      /\ \A d \in Clients : ~Writing(d)' => ~Writing(d)
  BY <1>1, <1>2 DEF IndexInv, IndexType, Steps, Writing
<1>4. IndexType'
  <2>1. could' \in [Clients -> [Txids -> SUBSET Answers]]
    BY <1>1, CouldGrows DEF IndexInv, IndexType
  <2> QED BY <1>1, <1>3, <2>1 DEF IndexInv, IndexType
<1>5. ShapeInv'
  BY <1>1, <1>3 DEF IndexInv, ShapeInv
<1>6. WhereInv' /\ DueInv'
  <2>1. InFlight' = InFlight
    BY <1>1 DEF InFlight
  <2> QED BY <1>1, <2>1 DEF IndexInv, WhereInv, DueInv
<1>7. LookInv'
  BY <1>1, <1>3, <1>4, LookKept DEF IndexInv
<1>8. AnswerInv'
  <2>1. PICK missed \in SUBSET {x \in wanted[c] : found[c][x] = NoToken} :
          answer' = [op    |-> "get",
                     value |-> [x \in wanted[c] |-> IF found[c][x] # NoToken THEN found[c][x]
                                                    ELSE IF x \in missed THEN NoToken ELSE table[x]],
                     could |-> [x \in Txids |-> IF x \in missed THEN could[c][x] \cup {NoToken}
                                                                ELSE could[c][x]]]
    BY DEF GetView
  <2>2. \A x \in wanted[c] :
          (IF found[c][x] # NoToken THEN found[c][x] ELSE table[x]) \in could[c][x]
    BY <1>1 DEF IndexInv, LookInv
  <2>3. /\ answer'.op = "get" /\ DOMAIN answer'.value = wanted[c]
        /\ \A x \in wanted[c] :
             answer'.value[x] = IF found[c][x] # NoToken THEN found[c][x]
                                ELSE IF x \in missed THEN NoToken ELSE table[x]
        /\ \A x \in Txids : answer'.could[x] = IF x \in missed THEN could[c][x] \cup {NoToken}
                                                              ELSE could[c][x]
    BY <2>1
  <2>4. wanted[c] \subseteq Txids
    BY DEF IndexInv, IndexType
  <2>5. \A x \in wanted[c] : answer'.value[x] \in answer'.could[x]
    BY <2>2, <2>3, <2>4
  <2> QED BY <2>3, <2>5 DEF AnswerInv, GetFresh, FlushCovers
<1> QED BY <1>4, <1>5, <1>6, <1>7, <1>8 DEF IndexInv

(* A process that opens the directory begins with what is on disk.         *)
LEMMA CrashKeeps ==
  ASSUME IndexInv, CrashAndReopen, Observe
  PROVE  IndexInv'
<1>1. /\ table' = IF kind = "mem" THEN Nothing ELSE table
      /\ buf' = << >> /\ blurred' = {} /\ last' = table'
      /\ pc' = [c \in Clients |-> "idle"]
      /\ batch' = [c \in Clients |-> << >>]
      /\ wanted' = [c \in Clients |-> {}]
      /\ found' = [c \in Clients |-> Nothing]
      /\ due' = [c \in Clients |-> {}]
  BY DEF CrashAndReopen
<1>2. Nothing \in [Txids -> Answers]
  BY DEF Nothing, Answers
<1>3. last' \in [Txids -> Answers] /\ table' = last'
  BY <1>1, <1>2 DEF IndexInv, IndexType
<1>4. IndexType'
  <2>1. could' \in [Clients -> [Txids -> SUBSET Answers]]
    BY <1>3, CouldGrows DEF IndexInv
  <2> QED BY <1>1, <1>2, <1>3, <2>1, LookupEmpty DEF IndexType, Steps
<1>5. ShapeInv'
  BY <1>1, LookupEmpty DEF ShapeInv
<1>6. WhereInv' /\ DueInv' /\ LookInv'
  <2>1. TxidsOf(buf') = {} /\ \A c \in Clients : TxidsOf(batch'[c]) = {} /\ wanted'[c] = {} /\ due'[c] = {}
    BY <1>1, LookupEmpty
  <2> QED BY <1>3, <2>1 DEF WhereInv, DueInv, LookInv
<1> QED BY <1>4, <1>5, <1>6 DEF IndexInv

(* The first state has nothing anywhere.                                   *)
LEMMA IndexInit == Init => IndexInv /\ AnswerInv
<1> SUFFICES ASSUME Init PROVE IndexInv /\ AnswerInv
  OBVIOUS
<1>1. Nothing \in [Txids -> Answers]
  BY DEF Nothing, Answers
<1>2. IndexType
  BY <1>1, LookupEmpty DEF Init, IndexType, Steps
<1>3. TxidsOf(buf) = {} /\ \A c \in Clients : TxidsOf(batch[c]) = {} /\ wanted[c] = {} /\ due[c] = {}
  BY LookupEmpty DEF Init
<1>4. ShapeInv
  BY LookupEmpty DEF Init, ShapeInv
<1>5. WhereInv /\ DueInv /\ LookInv
  BY <1>3 DEF Init, WhereInv, DueInv, LookInv
<1>6. AnswerInv
  BY DEF Init, AnswerInv, GetFresh, FlushCovers
<1> QED BY <1>2, <1>4, <1>5, <1>6 DEF IndexInv

(* Every step keeps the invariant and gives only right answers.            *)
LEMMA IndexStep == IndexInv /\ AnswerInv /\ [Next]_vars => IndexInv' /\ AnswerInv'
<1> SUFFICES ASSUME IndexInv, AnswerInv, [Next]_vars PROVE IndexInv' /\ AnswerInv'
  OBVIOUS
<1>1. NoReply => AnswerInv'
  BY DEF NoReply, AnswerInv, GetFresh, FlushCovers
<1>2. ASSUME NEW c \in Clients, Set(c), Observe PROVE IndexInv' /\ AnswerInv'
  BY <1>1, <1>2, SetKeeps DEF Set
<1>3. ASSUME NEW c \in Clients, BufferedSet(c), Observe PROVE IndexInv' /\ AnswerInv'
  BY <1>1, <1>3, BufferedSetKeeps DEF BufferedSet
<1>4. ASSUME NEW c \in Clients, Flush(c), Observe PROVE IndexInv' /\ AnswerInv'
  BY <1>1, <1>4, FlushKeeps DEF Flush
<1>5. ASSUME NEW c \in Clients, SetBatch(c), Observe PROVE IndexInv' /\ AnswerInv'
  BY <1>1, <1>5, SetBatchKeeps DEF SetBatch
<1>6. ASSUME NEW c \in Clients, SetBatchFails(c), Observe PROVE IndexInv' /\ AnswerInv'
  BY <1>1, <1>6, SetBatchFailsKeeps DEF SetBatchFails
<1>7. ASSUME NEW c \in Clients, BatchReturns(c), Observe PROVE IndexInv' /\ AnswerInv'
  BY <1>7, BatchReturnsKeeps
<1>8. ASSUME NEW c \in Clients, Get(c), Observe PROVE IndexInv' /\ AnswerInv'
  BY <1>1, <1>8, GetKeeps DEF Get
<1>9. ASSUME NEW c \in Clients, GetView(c), Observe PROVE IndexInv' /\ AnswerInv'
  BY <1>9, GetViewKeeps
<1>10. ASSUME CrashAndReopen, Observe PROVE IndexInv' /\ AnswerInv'
  BY <1>1, <1>10, CrashKeeps DEF CrashAndReopen
<1>11. CASE UNCHANGED vars
  BY <1>11 DEF vars, indexVars, callVars, histVars, countVars, IndexInv, IndexType, ShapeInv, WhereInv,
               DueInv, LookInv, InFlight, Writing, AnswerInv, GetFresh, FlushCovers
<1> QED BY <1>2, <1>3, <1>4, <1>5, <1>6, <1>7, <1>8, <1>9, <1>10, <1>11 DEF Next

-----------------------------------------------------------------------------
(***************************************************************************)
(* The theorems.                                                           *)
(***************************************************************************)

(* The invariant holds, whatever goroutines, failures and kills do.        *)
THEOREM IndexInvHolds == Spec => [](IndexInv /\ AnswerInv)
BY IndexInit, IndexStep, PTL DEF Spec

(* A batch never brings an older token back: out of sight of the batches,  *)
(* a reader sees what was last set.                                        *)
THEOREM NewestVisibleHolds == Spec => []NewestVisible
<1>1. IndexInv => NewestVisible
  BY DEF IndexInv, WhereInv, NewestVisible, Visible
<1> QED BY <1>1, IndexInvHolds, PTL

(* Get and BatchGet answer with a token the txid had during the call,      *)
(* unless the txid was on its way to disk.                                 *)
THEOREM GetFreshHolds == Spec => []GetFresh
<1>1. AnswerInv => GetFresh
  BY DEF AnswerInv
<1> QED BY <1>1, IndexInvHolds, PTL

(* When Flush returns, what was set before it is on disk, or in a batch    *)
(* that another goroutine took before.                                     *)
THEOREM FlushCoversHolds == Spec => []FlushCovers
<1>1. AnswerInv => FlushCovers
  BY DEF AnswerInv
<1> QED BY <1>1, IndexInvHolds, PTL
=============================================================================
