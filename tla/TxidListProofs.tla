--------------------------- MODULE TxidListProofs ---------------------------
(***************************************************************************)
(* Proofs about the list of txids: for any number of goroutines, entries   *)
(* and hashes, any buffer size, and any number of writes that fail and of  *)
(* kills of the process.                                                   *)
(***************************************************************************)
EXTENDS TxidList, FiniteSetTheorems, SequenceTheorems, TLAPS

(* The next key after the first n.                                         *)
LEMMA NextKey ==
  ASSUME NEW n \in Nat
  PROVE  0..(n - 1) \cup {n} = 0..((n + 1) - 1)
OBVIOUS

(* A call in step s, and nobody else, has moved.                           *)
Moved(c, s) ==
  /\ pc'[c] = s
  /\ \A d \in Clients : d # c => pc'[d] = pc[d] /\ arg'[d] = arg[d]

(* Begin moves its client, and keeps the types.                            *)
LEMMA BeginMoves ==
  ASSUME TypeOK, NEW c \in Clients, NEW s \in Steps, NEW a \in ArgType, Begin(c, s, a)
  PROVE  /\ pc' \in [Clients -> Steps] /\ arg' \in [Clients -> ArgType]
         /\ Moved(c, s) /\ arg'[c] = a
BY DEF TypeOK, Begin, Moved

(* So do Goto, which keeps the argument, and Return.                       *)
LEMMA GotoMoves ==
  ASSUME TypeOK, NEW c \in Clients, NEW s \in Steps, Goto(c, s)
  PROVE  /\ pc' \in [Clients -> Steps] /\ arg' \in [Clients -> ArgType]
         /\ Moved(c, s) /\ arg' = arg
BY DEF TypeOK, Goto, Moved

(* A call that returns is idle again and forgets its argument.             *)
LEMMA ReturnMoves ==
  ASSUME TypeOK, NEW c \in Clients, Return(c)
  PROVE  /\ pc' \in [Clients -> Steps] /\ arg' \in [Clients -> ArgType] /\ Moved(c, "idle")
<1>1. NoArg \in ArgType
  BY DEF NoArg, EntryArg, ArgType
<1> QED BY <1>1, BeginMoves DEF Return, Steps

(* A write changes one key, and leaves finitely many of them.              *)
LEMMA PutKeys ==
  ASSUME TypeOK, NEW i \in Nat, NEW h \in Hashes, Put(i, h)
  PROVE  /\ Keys' = Keys \cup {i} /\ IsFiniteSet(Keys')
         /\ \A k \in Keys' : disk'[k] = IF k = i THEN h ELSE disk[k]
         /\ Keys' \subseteq Nat /\ \A k \in Keys' : disk'[k] \in Hashes
<1>1. Keys' = Keys \cup {i} /\ \A k \in Keys' : disk'[k] = IF k = i THEN h ELSE disk[k]
  BY DEF Put, Keys
<1>2. IsFiniteSet(Keys')
  BY <1>1, FS_AddElement DEF TypeOK
<1> QED BY <1>1, <1>2 DEF TypeOK

-----------------------------------------------------------------------------
(***************************************************************************)
(* Steps that only read.                                                   *)
(***************************************************************************)

(* A step that leaves the list and the mutex alone, but a read may fail.   *)
ReadOnly ==
  /\ UNCHANGED <<listVars, lockVars, racy, crashes>>
  /\ failures' = failures \/ failures' = failures + 1

(* Such a step of c, when it takes c to no step that relies on the list or *)
(* the mutex, keeps the invariant.                                         *)
LEMMA ReadingStep ==
  ASSUME ListInv, NEW c \in Clients, NEW s \in Steps \ {"put", "count", "flush", "sliceFlush"},
         ReadOnly,
         pc' \in [Clients -> Steps], arg' \in [Clients -> ArgType], Moved(c, s),
         pc[c] \notin {"put", "count", "flush", "sliceFlush"},
         s = "update" => InRange(arg'[c].index),
         s \in {"setCheck", "update"} => arg'[c].hash \in Hashes
  PROVE  ListInv'
<1> USE DEF ListInv, listVars, lockVars, ReadOnly, Moved
<1>1. TypeOK'
  BY DEF TypeOK, Keys
<1>2. \A d \in Clients : /\ pc'[d] \in {"put", "count"} <=> pc[d] \in {"put", "count"}
                         /\ pc'[d] = "count" <=> pc[d] = "count"
                         /\ Flushing(d)' <=> Flushing(d)
                         /\ pc[d] \in {"put", "count"} => arg'[d] = arg[d]
  BY DEF Flushing
<1>3. OneFlusher'
  BY <1>2 DEF OneFlusher
<1>4. Appending' = Appending
  BY <1>2 DEF Appending
<1>5. \A d \in Clients : /\ pc'[d] \in {"put", "setCheck", "update"} => arg'[d].hash \in Hashes
                         /\ pc'[d] = "put" => arg'[d].index >= 0
                         /\ pc'[d] = "update" => InRange(arg'[d].index)
  BY DEF LockInv
<1>6. LockInv'
  <2>1. \A d \in Clients : (pc'[d] = "update" => InRange(arg[d].index)')
    BY <1>5 DEF InRange
  <2>2. \A d \in Appending : arg'[d] = arg[d]
    BY <1>2 DEF Appending
  <2> QED BY <1>4, <1>5, <2>1, <2>2 DEF LockInv
<1>7. DiskInv'
  <2>1. Counting' <=> Counting
    BY <1>2 DEF Counting
  <2>2. failures' = 0 => failures = 0
    BY DEF TypeOK
  <2> QED BY <2>1, <2>2 DEF DiskInv, Keys
<1> QED BY <1>1, <1>3, <1>6, <1>7

(* Get, the index check of Set and Slice read only.                        *)
LEMMA ReadCases ==
  ASSUME ListInv, NEW c \in Clients,
         \/ BufferedGet(c) \/ RawGet(c) \/ GetCheck(c) \/ GetView(c)
         \/ RawSet(c) \/ SetCheck(c) \/ SliceClamp(c) \/ SliceScan(c)
  PROVE  ListInv'
<1> DEFINE Calm == Steps \ {"put", "count", "flush", "sliceFlush"}
<1> TypeOK
  BY DEF ListInv
<1>1. ASSUME NEW s \in Calm, NEW a \in ArgType, Begin(c, s, a), s # "update",
             s = "setCheck" => a.hash \in Hashes,
             ReadOnly,
             pc[c] \notin {"put", "count", "flush", "sliceFlush"}
      PROVE  ListInv'
  <2>1. /\ pc' \in [Clients -> Steps] /\ arg' \in [Clients -> ArgType] /\ Moved(c, s)
        /\ arg'[c] = a
    BY <1>1, BeginMoves
  <2> QED BY <1>1, <2>1, ReadingStep
<1>2. ASSUME NEW s \in Calm, Goto(c, s), s # "setCheck",
             s = "update" => InRange(arg[c].index) /\ arg[c].hash \in Hashes,
             ReadOnly,
             pc[c] \notin {"put", "count", "flush", "sliceFlush"}
      PROVE  ListInv'
  <2>1. pc' \in [Clients -> Steps] /\ arg' \in [Clients -> ArgType] /\ Moved(c, s) /\ arg' = arg
    BY <1>2, GotoMoves
  <2> QED BY <1>2, <2>1, ReadingStep
<1>3. NoArg \in ArgType
  BY DEF NoArg, EntryArg, ArgType
<1>4. ASSUME Return(c), ReadOnly,
             pc[c] \notin {"put", "count", "flush", "sliceFlush"}
      PROVE  ListInv'
  BY <1>1, <1>3, <1>4 DEF Return, Steps
<1>5. ASSUME ReadOnly, UNCHANGED callVars, Idle(c) PROVE ListInv'
  <2>1. pc' \in [Clients -> Steps] /\ arg' \in [Clients -> ArgType] /\ Moved(c, "idle")
    BY <1>5 DEF callVars, TypeOK, Moved, Idle
  <2> QED BY <1>5, <2>1, ReadingStep DEF Steps, Idle
<1>0. UNCHANGED <<listVars, lockVars, faultVars>> => ReadOnly
  BY DEF ReadOnly, faultVars
<1>6. \A i \in Int, h \in Hashes \cup {NoHash} : EntryArg(i, h) \in ArgType
  BY DEF EntryArg, ArgType
<1>7. \A from, to \in Int : WindowArg(<<from, to>>, 0) \in ArgType
  BY DEF WindowArg, ArgType
<1>8. {"getCheck", "view", "setCheck", "update", "scan"} \subseteq Calm
  BY DEF Steps
<1> HIDE DEF Calm
<1>9. CASE BufferedGet(c)
  <2>1. PICK i \in -1..MaxLen :
          UNCHANGED callVars \/ Begin(c, "getCheck", EntryArg(i, NoHash))
    BY <1>9 DEF BufferedGet
  <2>2. i \in Int /\ Idle(c) /\ UNCHANGED <<listVars, lockVars, faultVars>>
    BY <1>9, ListAssumption DEF BufferedGet
  <2> QED BY <1>0, <1>1, <1>5, <1>6, <1>8, <2>1, <2>2 DEF Idle
<1>10. CASE RawGet(c)
  <2>1. PICK i \in -1..MaxLen : Begin(c, "getCheck", EntryArg(i, NoHash))
    BY <1>10 DEF RawGet
  <2>2. i \in Int /\ Idle(c) /\ UNCHANGED <<listVars, lockVars, faultVars>>
    BY <1>10, ListAssumption DEF RawGet
  <2> QED BY <1>0, <1>1, <1>6, <1>8, <2>1, <2>2 DEF Idle
<1>11. CASE GetCheck(c)
  <2>1. Goto(c, "view") \/ Return(c)
    BY <1>11 DEF GetCheck
  <2>2. pc[c] = "getCheck" /\ UNCHANGED <<listVars, lockVars, faultVars>>
    BY <1>11 DEF GetCheck
  <2> QED BY <1>0, <1>2, <1>4, <1>8, <2>1, <2>2
<1>12. CASE GetView(c)
  BY <1>4, <1>12 DEF GetView, ReadOnly, Fails
<1>13. CASE RawSet(c)
  <2>1. PICK i \in -1..MaxLen, h \in Hashes :
          Begin(c, "setCheck", EntryArg(i, h))
    BY <1>13 DEF RawSet
  <2>2. i \in Int /\ Idle(c) /\ UNCHANGED <<listVars, lockVars, faultVars>>
    BY <1>13, ListAssumption DEF RawSet
  <2>3. EntryArg(i, h).hash = h /\ EntryArg(i, h) \in ArgType
    BY <1>6, <2>2 DEF EntryArg
  <2> QED BY <1>0, <1>1, <1>8, <2>1, <2>2, <2>3 DEF Idle
<1>14. CASE SetCheck(c)
  <2>1. (InRange(arg[c].index) /\ Goto(c, "update")) \/ Return(c)
    BY <1>14 DEF SetCheck
  <2>2. pc[c] = "setCheck" /\ UNCHANGED <<listVars, lockVars, faultVars>>
    BY <1>14 DEF SetCheck
  <2>3. arg[c].hash \in Hashes
    BY <2>2 DEF ListInv, LockInv
  <2> QED BY <1>0, <1>2, <1>4, <1>8, <2>1, <2>2, <2>3
<1>15. CASE SliceClamp(c)
  <2> DEFINE from == IF arg[c].window[1] < 0 THEN 0 ELSE arg[c].window[1]
             to == IF arg[c].window[2] > len THEN len ELSE arg[c].window[2]
  <2>1. pc[c] = "length" /\ UNCHANGED <<listVars, lockVars, faultVars>>
        /\ (Return(c) \/ Begin(c, "scan", WindowArg(<<from, to>>, 0)))
    BY <1>15 DEF SliceClamp
  <2>2. from \in Int /\ to \in Int
    BY DEF TypeOK, ArgType
  <2> QED BY <1>0, <1>1, <1>4, <1>7, <1>8, <2>1, <2>2
<1>16. CASE SliceScan(c)
  BY <1>0, <1>4, <1>16 DEF SliceScan
<1> QED BY <1>9, <1>10, <1>11, <1>12, <1>13, <1>14, <1>15, <1>16

-----------------------------------------------------------------------------
(***************************************************************************)
(* TxidList.Append.                                                        *)
(***************************************************************************)

(* Nobody who appends to a TxidList, or to none, holds the mutex.          *)
LEMMA AppendingRaw ==
  ASSUME ListInv, NEW c \in Clients, pc[c] \in {"put", "count"}
  PROVE  /\ kind = "raw" /\ buf = << >> /\ holder = NoClient /\ written = 0
         /\ \A d \in Clients : ~Flushing(d)
         /\ ~racy => \A d \in Clients : pc[d] \in {"put", "count"} => d = c
         /\ ~racy => arg[c].index = len
<1>1. c \in Appending
  BY DEF Appending
<1>2. kind = "raw" /\ buf = << >> /\ holder = NoClient /\ written = 0
  BY <1>1 DEF ListInv, LockInv
<1>3. \A d \in Clients : ~Flushing(d)
  BY <1>2, ListAssumption DEF ListInv, OneFlusher
<1>4. ~racy => (\A d \in Appending : d = c) /\ arg[c].index = len
  BY <1>1 DEF ListInv, LockInv
<1> QED BY <1>2, <1>3, <1>4 DEF Appending

(* An Append that overlaps another is marked; alone it has the length.     *)
LEMMA AppendLoadInv ==
  ASSUME ListInv, NEW c \in Clients, AppendLoad(c)
  PROVE  ListInv'
<1> TypeOK
  BY DEF ListInv
<1>1. PICK h \in Hashes : Begin(c, "put", EntryArg(len, h))
  BY DEF AppendLoad
<1>2. EntryArg(len, h) \in ArgType
  BY DEF TypeOK, EntryArg, ArgType
<1>3. /\ pc' \in [Clients -> Steps] /\ arg' \in [Clients -> ArgType]
      /\ Moved(c, "put") /\ arg'[c] = EntryArg(len, h)
  BY <1>1, <1>2, BeginMoves DEF Steps
<1>4. /\ UNCHANGED <<disk, len, buf, bufSize, kind, holder, written, failures, crashes>>
      /\ pc[c] = "idle" /\ kind = "raw" /\ racy' = (racy \/ Appending # {})
  BY DEF AppendLoad, listVars, lockVars, Idle
<1>5. TypeOK'
  BY <1>3, <1>4 DEF TypeOK, Keys
<1>6. OneFlusher'
  <2>1. \A d \in Clients : Flushing(d)' <=> Flushing(d)
    BY <1>3, <1>4 DEF Flushing, Moved
  <2> QED BY <1>4, <2>1 DEF ListInv, OneFlusher
<1>7. Appending' = Appending \cup {c}
  BY <1>3, <1>4 DEF Appending, Moved
<1>8. LockInv'
  <2>1. \A d \in Clients : (pc'[d] = "update" => InRange(arg[d].index)')
    BY <1>3, <1>4 DEF ListInv, LockInv, InRange, Moved
  <2>4. \A d \in Clients : /\ pc'[d] \in {"put", "setCheck", "update"} => arg'[d].hash \in Hashes
                           /\ pc'[d] = "put" => arg'[d].index >= 0
    BY <1>3, <1>4 DEF ListInv, LockInv, Moved, EntryArg, TypeOK
  <2>2. ~racy' => Appending' = {c}
    BY <1>4, <1>7
  <2>3. arg'[c].index = len'
    BY <1>3, <1>4 DEF EntryArg
  <2>5. \A d \in Appending' : arg'[d].index = len' \/ racy'
    BY <2>2, <2>3
  <2> QED BY <1>4, <2>1, <2>2, <2>4, <2>5 DEF ListInv, LockInv
<1>9. DiskInv'
  <2>1. Counting' <=> Counting
    BY <1>3, <1>4 DEF Counting, Moved
  <2> QED BY <1>4, <2>1 DEF ListInv, DiskInv, Keys
<1> QED BY <1>5, <1>6, <1>8, <1>9 DEF ListInv

(* Alone, it writes the key after the last one.                            *)
LEMMA AppendPutInv ==
  ASSUME ListInv, NEW c \in Clients, AppendPut(c)
  PROVE  ListInv'
<1> TypeOK
  BY DEF ListInv
<1>1. /\ UNCHANGED <<len, buf, bufSize, kind, holder, written, racy, crashes>> /\ pc[c] = "put"
  BY DEF AppendPut, lockVars
<1>2. /\ kind = "raw" /\ buf = << >> /\ holder = NoClient /\ written = 0
      /\ \A d \in Clients : ~Flushing(d)
      /\ ~racy => \A d \in Clients : pc[d] \in {"put", "count"} => d = c
      /\ ~racy => arg[c].index = len
  BY <1>1, AppendingRaw
<1>3. arg[c].index \in Nat /\ arg[c].hash \in Hashes
  BY <1>1 DEF ListInv, LockInv, TypeOK, ArgType
<1>4. PICK s \in {"idle", "count"} :
        /\ pc' \in [Clients -> Steps] /\ arg' \in [Clients -> ArgType] /\ Moved(c, s)
        /\ \/ s = "count" /\ Put(arg[c].index, arg[c].hash) /\ failures' = failures /\ arg' = arg
           \/ s = "idle" /\ UNCHANGED disk /\ failures' = failures + 1
  <2>1. CASE Put(arg[c].index, arg[c].hash) /\ Goto(c, "count") /\ UNCHANGED failures
    <3>1. pc' \in [Clients -> Steps] /\ arg' \in [Clients -> ArgType] /\ Moved(c, "count") /\ arg' = arg
      BY <2>1, GotoMoves DEF Steps
    <3> QED BY <2>1, <3>1
  <2>2. CASE Fails /\ Return(c) /\ UNCHANGED disk
    <3>1. pc' \in [Clients -> Steps] /\ arg' \in [Clients -> ArgType] /\ Moved(c, "idle")
      BY <2>2, ReturnMoves
    <3> QED BY <2>2, <3>1 DEF Fails
  <2> QED BY <2>1, <2>2 DEF AppendPut
<1>5. /\ Keys' \subseteq Nat /\ IsFiniteSet(Keys') /\ \A k \in Keys' : disk'[k] \in Hashes
      /\ s = "count" => Keys' = Keys \cup {arg[c].index}
      /\ s = "idle" => Keys' = Keys
  <2>1. CASE s = "count"
    BY <1>3, <1>4, <2>1, PutKeys
  <2>2. CASE s = "idle"
    BY <1>4, <2>2 DEF TypeOK, Keys
  <2> QED BY <2>1, <2>2
<1>6. TypeOK'
  BY <1>1, <1>4, <1>5 DEF TypeOK
<1>7. OneFlusher'
  <2>1. \A d \in Clients : ~Flushing(d)'
    BY <1>2, <1>4 DEF Flushing, Moved
  <2> QED BY <1>1, <1>2, <2>1, ListAssumption DEF OneFlusher
<1>8. \A d \in Appending' : d \in Appending /\ arg'[d] = arg[d]
  BY <1>1, <1>4 DEF Appending, Moved
<1>9. LockInv'
  <2>1. \A d \in Clients : /\ pc'[d] \in {"put", "setCheck", "update"} => arg'[d].hash \in Hashes
                           /\ pc'[d] = "put" => arg'[d].index >= 0
                           /\ (pc'[d] = "update" => InRange(arg[d].index)')
    BY <1>1, <1>4 DEF ListInv, LockInv, InRange, Moved
  <2> QED BY <1>1, <1>2, <1>8, <2>1 DEF ListInv, LockInv
<1>10. DiskInv'
  <2> SUFFICES ASSUME ~racy PROVE DiskInv'
    BY <1>1 DEF DiskInv
  <2>1. ~Counting /\ (Counting' <=> s = "count")
    BY <1>1, <1>2, <1>4 DEF Counting, Moved
  <2>2. Keys = 0..(len - 1)
    BY <1>2, <2>1 DEF ListInv, DiskInv, TypeOK
  <2>3. CASE s = "count"
    <3>1. Keys' = 0..((len + 1) - 1)
      <4>1. Keys' = Keys \cup {len} /\ len \in Nat
        BY <1>2, <1>5, <2>3 DEF TypeOK
      <4> QED BY <2>2, <4>1, NextKey
    <3>2. Counting' /\ len' = len /\ Len(buf') = 0 /\ written' = 0 /\ kind' = "raw" /\ len \in Nat
      BY <1>1, <1>2, <2>1, <2>3 DEF TypeOK
    <3>3. len + 1 \in (len' + written')..(len' + Len(buf') + IF Counting' THEN 1 ELSE 0)
      BY <3>2
    <3>4. len + 1 = len' + IF Counting' THEN 1 ELSE 0
      BY <3>2
    <3> QED BY <3>1, <3>2, <3>3, <3>4 DEF DiskInv
  <2>4. CASE s = "idle"
    BY <1>1, <1>2, <1>5, <2>1, <2>2, <2>4 DEF DiskInv, TypeOK
  <2> QED BY <2>3, <2>4
<1> QED BY <1>6, <1>7, <1>9, <1>10 DEF ListInv

(* Once it is counted, the length has caught up with the keys.             *)
LEMMA AppendCountInv ==
  ASSUME ListInv, NEW c \in Clients, AppendCount(c)
  PROVE  ListInv'
<1> TypeOK
  BY DEF ListInv
<1>1. /\ UNCHANGED <<disk, buf, bufSize, kind, holder, written, racy, failures, crashes>>
      /\ pc[c] = "count" /\ len' = len + 1
  BY DEF AppendCount, lockVars, faultVars
<1>2. /\ kind = "raw" /\ buf = << >> /\ holder = NoClient /\ written = 0
      /\ \A d \in Clients : ~Flushing(d)
      /\ ~racy => \A d \in Clients : pc[d] \in {"put", "count"} => d = c
  BY <1>1, AppendingRaw
<1>3. pc' \in [Clients -> Steps] /\ arg' \in [Clients -> ArgType] /\ Moved(c, "idle")
  BY ReturnMoves DEF AppendCount
<1>4. TypeOK'
  BY <1>1, <1>3 DEF TypeOK, Keys
<1>5. OneFlusher'
  <2>1. \A d \in Clients : ~Flushing(d)'
    BY <1>2, <1>3 DEF Flushing, Moved
  <2> QED BY <1>1, <1>2, <2>1, ListAssumption DEF OneFlusher
<1>6. ~racy' => Appending' = {} /\ ~Counting'
  BY <1>1, <1>2, <1>3 DEF Appending, Counting, Moved
<1>7. LockInv'
  <2>1. \A d \in Clients : /\ pc'[d] \in {"put", "setCheck", "update"} => arg'[d].hash \in Hashes
                           /\ pc'[d] = "put" => arg'[d].index >= 0
    BY <1>1, <1>3 DEF ListInv, LockInv, Moved
  <2>2. ASSUME NEW d \in Clients, pc'[d] = "update" PROVE InRange(arg[d].index)'
    <3>1. pc[d] = "update" /\ arg'[d] = arg[d] /\ arg[d].index \in Int
      BY <1>3, <2>2 DEF Moved, TypeOK, ArgType
    <3>2. InRange(arg[d].index)
      BY <3>1 DEF ListInv, LockInv
    <3> QED BY <1>1, <3>1, <3>2 DEF InRange, TypeOK
  <2> QED BY <1>1, <1>2, <1>6, <2>1, <2>2 DEF ListInv, LockInv
<1>8. DiskInv'
  <2> SUFFICES ASSUME ~racy PROVE DiskInv'
    BY <1>1 DEF DiskInv
  <2>1. Counting
    BY <1>1 DEF Counting
  <2>2. Keys' = 0..(len' - 1)
    BY <1>1, <1>2, <2>1 DEF ListInv, DiskInv, Keys, TypeOK
  <2> QED BY <1>1, <1>2, <1>6, <2>2 DEF DiskInv, TypeOK
<1> QED BY <1>4, <1>5, <1>7, <1>8 DEF ListInv

-----------------------------------------------------------------------------
(***************************************************************************)
(* BufferedTxidList: the mutex and the batch.                              *)
(***************************************************************************)

(* Nobody appends to the list under a buffer but the one who flushes.      *)
LEMMA BufferedOnly ==
  ASSUME ListInv, kind = "buffered"
  PROVE  Appending = {} /\ ~Counting /\ \A d \in Clients : pc[d] \notin {"put", "count"}
BY DEF ListInv, LockInv, Appending, Counting

(* Whoever flushes holds the mutex, alone, over a list with a buffer.      *)
LEMMA FlusherAlone ==
  ASSUME ListInv, NEW c \in Clients, Flushing(c)
  PROVE  /\ holder = c /\ holder # NoClient /\ kind = "buffered"
         /\ \A d \in Clients : d # c => ~Flushing(d)
         /\ written \in Nat /\ written <= Len(buf) /\ Len(buf) \in Nat /\ len \in Nat
<1>1. holder = c /\ holder # NoClient /\ \A d \in Clients : d # c => ~Flushing(d)
  BY ListAssumption DEF ListInv, OneFlusher
<1>2. kind = "buffered"
  BY <1>1, ListAssumption DEF ListInv, LockInv, TypeOK
<1> QED BY <1>1, <1>2 DEF ListInv, LockInv, TypeOK

(* Where the calls stand after a step of c to s that appends nothing to a  *)
(* TxidList and shortens nothing.                                          *)
LEMMA CallsAfter ==
  ASSUME ListInv, NEW c \in Clients, NEW s \in Steps \ {"put", "count", "update"},
         pc' \in [Clients -> Steps], Moved(c, s),
         pc[c] \notin {"put", "count"}, len' \in Nat, len' >= len,
         s = "setCheck" => arg'[c].hash \in Hashes
  PROVE  /\ Appending' = Appending /\ (Counting' <=> Counting)
         /\ \A d \in Appending : arg'[d] = arg[d]
         /\ \A d \in Clients :
              /\ pc'[d] \in {"put", "setCheck", "update"} => arg'[d].hash \in Hashes
              /\ pc'[d] = "put" => arg'[d].index >= 0
              /\ pc'[d] = "update" => InRange(arg[d].index)'
         /\ \A d \in Clients : d # c => (Flushing(d)' <=> Flushing(d))
<1>1. Appending' = Appending /\ (Counting' <=> Counting)
  BY DEF Appending, Counting, Moved
<1>2. \A d \in Appending : arg'[d] = arg[d]
  BY DEF Appending, Moved
<1>3. ASSUME NEW d \in Clients
      PROVE  /\ pc'[d] \in {"put", "setCheck", "update"} => arg'[d].hash \in Hashes
             /\ pc'[d] = "put" => arg'[d].index >= 0
  BY DEF ListInv, LockInv, Moved
<1>4. ASSUME NEW d \in Clients, pc'[d] = "update" PROVE InRange(arg[d].index)'
  <2>1. pc[d] = "update" /\ arg'[d] = arg[d] /\ arg[d].index \in Int
    BY <1>4 DEF Moved, ListInv, TypeOK, ArgType
  <2>2. InRange(arg[d].index)
    BY <2>1 DEF ListInv, LockInv
  <2> QED BY <2>1, <2>2 DEF InRange, ListInv, TypeOK
<1>5. \A d \in Clients : d # c => (Flushing(d)' <=> Flushing(d))
  BY DEF Flushing, Moved
<1> QED BY <1>1, <1>2, <1>3, <1>4, <1>5

(* A step of the mutex: taking it, to flush, or with an entry added.       *)
LEMMA LockStep ==
  ASSUME ListInv, NEW c \in Clients, NEW s \in {"idle", "flush", "sliceFlush", "length"},
         UNCHANGED <<disk, len, bufSize, kind, written, faultVars>>,
         pc' \in [Clients -> Steps], arg' \in [Clients -> ArgType], Moved(c, s), Idle(c),
         buf' \in Seq(Hashes), Len(buf') >= Len(buf), \A i \in 1..Len(buf) : buf'[i] = buf[i],
         kind = "raw" => buf' = << >>,
         IF s \in {"flush", "sliceFlush"}
           THEN kind = "buffered" /\ holder = NoClient /\ holder' = c
           ELSE holder' = holder
  PROVE  ListInv'
<1> USE DEF faultVars
<1>1. /\ len \in Nat /\ Len(buf) \in Nat /\ Len(buf') \in Nat /\ written \in Nat
      /\ written <= Len(buf)
  BY DEF ListInv, TypeOK, LockInv
<1>2. TypeOK'
  BY DEF ListInv, TypeOK, Keys
<1>3. /\ Appending' = Appending /\ (Counting' <=> Counting)
      /\ \A d \in Appending : arg'[d] = arg[d]
      /\ \A d \in Clients :
           /\ pc'[d] \in {"put", "setCheck", "update"} => arg'[d].hash \in Hashes
           /\ pc'[d] = "put" => arg'[d].index >= 0
           /\ pc'[d] = "update" => InRange(arg[d].index)'
      /\ \A d \in Clients : d # c => (Flushing(d)' <=> Flushing(d))
  BY <1>1, CallsAfter DEF Steps, Idle
<1>4. OneFlusher'
  <2>1. ~Flushing(c) /\ (Flushing(c)' <=> s \in {"flush", "sliceFlush"})
    BY DEF Flushing, Moved, Idle
  <2> QED BY <1>3, <2>1, ListAssumption DEF ListInv, OneFlusher
<1>5. LockInv'
  BY <1>1, <1>3, ListAssumption DEF ListInv, LockInv
<1>6. DiskInv'
  <2> SUFFICES ASSUME ~racy PROVE DiskInv'
    BY DEF DiskInv
  <2>1. PICK k \in (len + written)..(len + Len(buf) + IF Counting THEN 1 ELSE 0) :
          /\ Keys = 0..(k - 1)
          /\ kind = "raw" => k = len + IF Counting THEN 1 ELSE 0
          /\ kind = "buffered" /\ failures = 0 =>
               k = len + written /\ \A i \in 1..written : disk[len + i - 1] = buf[i]
    BY DEF ListInv, DiskInv
  <2>2. k \in (len' + written')..(len' + Len(buf') + IF Counting' THEN 1 ELSE 0)
    BY <1>1, <1>3, <2>1
  <2>3. \A i \in 1..written : buf'[i] = buf[i]
    BY <1>1
  <2> QED BY <1>3, <2>1, <2>2, <2>3 DEF DiskInv, Keys
<1> QED BY <1>2, <1>4, <1>5, <1>6 DEF ListInv

(* Append to the buffer, Flush and Slice take the mutex.                   *)
LEMMA LockCases ==
  ASSUME ListInv, NEW c \in Clients, BufferedAppend(c) \/ Flush(c) \/ Slice(c)
  PROVE  ListInv'
<1> TypeOK
  BY DEF ListInv
<1>1. CASE BufferedAppend(c)
  <2>1. PICK h \in Hashes : buf' = Append(buf, h)
    BY <1>1 DEF BufferedAppend
  <2>2. /\ buf' \in Seq(Hashes) /\ Len(buf') >= Len(buf)
        /\ \A i \in 1..Len(buf) : buf'[i] = buf[i]
    BY <2>1, AppendProperties DEF TypeOK
  <2>3. /\ UNCHANGED <<disk, len, bufSize, kind, written, faultVars>> /\ Idle(c)
        /\ kind = "buffered" /\ holder = NoClient
    BY <1>1 DEF BufferedAppend
  <2>4. CASE holder' = c /\ Goto(c, "flush")
    <3>1. pc' \in [Clients -> Steps] /\ arg' \in [Clients -> ArgType] /\ Moved(c, "flush")
      BY <2>4, GotoMoves DEF Steps
    <3> QED BY <2>2, <2>3, <2>4, <3>1, LockStep
  <2>5. CASE UNCHANGED <<holder, callVars>>
    <3>1. pc' \in [Clients -> Steps] /\ arg' \in [Clients -> ArgType] /\ Moved(c, "idle")
      BY <2>3, <2>5 DEF callVars, TypeOK, Moved, Idle
    <3> QED BY <2>2, <2>3, <2>5, <3>1, LockStep
  <2> QED BY <1>1, <2>4, <2>5 DEF BufferedAppend
<1>2. CASE Flush(c)
  <2>1. pc' \in [Clients -> Steps] /\ arg' \in [Clients -> ArgType] /\ Moved(c, "flush")
    BY <1>2, GotoMoves DEF Flush, Steps
  <2> QED BY <1>2, <2>1, LockStep DEF Flush, listVars, TypeOK
<1>3. CASE Slice(c)
  <2>1. PICK w \in Windows : Begin(c, IF buf # << >> THEN "sliceFlush" ELSE "length", SliceArg(w))
    BY <1>3 DEF Slice
  <2>2. SliceArg(w) \in ArgType
    <3>1. w \in Int \X Int /\ len + Len(buf) \in Nat
      BY ListAssumption DEF TypeOK
    <3> QED BY <3>1 DEF SliceArg, WindowArg, ArgType
  <2>3. /\ UNCHANGED <<disk, len, buf, bufSize, kind, written, faultVars>> /\ Idle(c)
        /\ holder' = IF buf # << >> THEN c ELSE holder
        /\ kind = "buffered" => holder = NoClient
    BY <1>3 DEF Slice, listVars
  <2>4. CASE buf # << >>
    <3>1. kind = "buffered"
      BY <2>4, ListAssumption DEF ListInv, LockInv, TypeOK
    <3>2. pc' \in [Clients -> Steps] /\ arg' \in [Clients -> ArgType] /\ Moved(c, "sliceFlush")
      BY <2>1, <2>2, <2>4, BeginMoves DEF Steps
    <3>3. buf' = buf /\ buf \in Seq(Hashes) /\ holder' = c /\ Len(buf') >= Len(buf)
      BY <2>3, <2>4 DEF TypeOK
    <3>4. kind # "raw"
      BY <3>1
    <3> QED BY <2>3, <3>1, <3>2, <3>3, <3>4, LockStep
  <2>5. CASE buf = << >>
    <3>1. pc' \in [Clients -> Steps] /\ arg' \in [Clients -> ArgType] /\ Moved(c, "length")
      BY <2>1, <2>2, <2>5, BeginMoves DEF Steps
    <3>2. buf' = buf /\ buf \in Seq(Hashes) /\ holder' = holder /\ Len(buf') >= Len(buf)
      BY <2>3, <2>5 DEF TypeOK
    <3> QED BY <2>3, <2>5, <3>1, <3>2, LockStep
  <2> QED BY <2>4, <2>5
<1> QED BY <1>1, <1>2, <1>3

(* The next entry of the batch is written: it is the next key, or one that *)
(* a batch that failed has left there.                                     *)
LEMMA FlushWriteInv ==
  ASSUME ListInv, NEW c \in Clients, FlushWrite(c)
  PROVE  ListInv'
<1>1. /\ UNCHANGED <<len, buf, bufSize, kind, holder, pc, arg, racy, failures, crashes>>
      /\ Flushing(c) /\ written < Len(buf) /\ Put(len + written, buf[written + 1])
      /\ written' = written + 1
  BY DEF FlushWrite, callVars, faultVars
<1>2. /\ holder = c /\ holder # NoClient /\ kind = "buffered"
      /\ written \in Nat /\ Len(buf) \in Nat /\ len \in Nat
  BY <1>1, FlusherAlone
<1>3. buf[written + 1] \in Hashes
  BY <1>1, <1>2 DEF ListInv, TypeOK
<1>4. /\ Keys' = Keys \cup {len + written} /\ IsFiniteSet(Keys')
      /\ \A k \in Keys' : disk'[k] = IF k = len + written THEN buf[written + 1] ELSE disk[k]
      /\ Keys' \subseteq Nat /\ \A k \in Keys' : disk'[k] \in Hashes
  BY <1>1, <1>2, <1>3, PutKeys DEF ListInv
<1>5. TypeOK'
  BY <1>1, <1>2, <1>4 DEF ListInv, TypeOK
<1>6. OneFlusher'
  BY <1>1 DEF ListInv, OneFlusher, Flushing
<1>7. LockInv'
  <2>1. Appending' = Appending
    BY <1>1 DEF Appending
  <2>2. \A d \in Clients : InRange(arg[d].index)' <=> InRange(arg[d].index)
    BY <1>1 DEF InRange
  <2> QED BY <1>1, <1>2, <2>1, <2>2 DEF ListInv, LockInv
<1>8. DiskInv'
  <2> SUFFICES ASSUME ~racy PROVE DiskInv'
    BY <1>1 DEF DiskInv
  <2>1. ~Counting /\ ~Counting'
    BY <1>1, <1>2, BufferedOnly DEF Counting
  <2>2. PICK k \in (len + written)..(len + Len(buf)) :
          /\ Keys = 0..(k - 1)
          /\ failures = 0 => k = len + written /\ \A i \in 1..written : disk[len + i - 1] = buf[i]
    BY <1>2, <2>1 DEF ListInv, DiskInv
  <2>3. CASE k = len + written
    <3>1. Keys' = 0..((k + 1) - 1) /\ k + 1 \in (len' + written')..(len' + Len(buf'))
      BY <1>1, <1>2, <1>4, <2>2, <2>3, NextKey
    <3>2. ASSUME failures = 0, NEW i \in 1..written' PROVE disk'[len + i - 1] = buf[i]
      <4>1. len + i - 1 \in Keys'
        BY <1>1, <1>2, <2>3, <3>1
      <4>2. len + i - 1 = len + written <=> i = written + 1
        BY <1>2
      <4> QED BY <1>1, <1>2, <1>4, <2>2, <3>2, <4>1, <4>2
    <3> QED BY <1>1, <1>2, <2>1, <2>3, <3>1, <3>2 DEF DiskInv
  <2>4. CASE k # len + written
    <3>1. Keys' = 0..(k - 1) /\ k \in (len' + written')..(len' + Len(buf'))
      BY <1>1, <1>2, <1>4, <2>2, <2>4
    <3>2. failures # 0
      BY <2>2, <2>4
    <3> QED BY <1>1, <1>2, <2>1, <3>1, <3>2 DEF DiskInv
  <2> QED BY <2>3, <2>4
<1> QED BY <1>5, <1>6, <1>7, <1>8 DEF ListInv

(* What a flush leaves behind: the mutex is free, and nobody writes.       *)
LEMMA FlushEnds ==
  ASSUME ListInv, NEW c \in Clients, Flushing(c), NEW s \in {"idle", "length"},
         pc' \in [Clients -> Steps], Moved(c, s), len' \in Nat, len' >= len,
         holder' = NoClient, written' = 0, kind' = kind, racy' = racy, Len(buf') \in Nat
  PROVE  OneFlusher' /\ LockInv' /\ ~Counting'
<1>1. /\ holder = c /\ holder # NoClient /\ kind = "buffered"
      /\ \A d \in Clients : d # c => ~Flushing(d)
  BY FlusherAlone
<1>2. Appending = {} /\ ~Counting /\ \A d \in Clients : pc[d] \notin {"put", "count"}
  BY <1>1, BufferedOnly
<1>3. /\ Appending' = Appending /\ (Counting' <=> Counting)
      /\ \A d \in Clients :
           /\ pc'[d] \in {"put", "setCheck", "update"} => arg'[d].hash \in Hashes
           /\ pc'[d] = "put" => arg'[d].index >= 0
           /\ pc'[d] = "update" => InRange(arg[d].index)'
      /\ \A d \in Clients : d # c => (Flushing(d)' <=> Flushing(d))
  BY <1>2, CallsAfter DEF Steps
<1>4. OneFlusher'
  <2>1. ~Flushing(c)'
    BY DEF Flushing, Moved
  <2> QED BY <1>1, <1>3, <2>1, ListAssumption DEF OneFlusher
<1>5. LockInv'
  BY <1>1, <1>2, <1>3 DEF LockInv
<1> QED BY <1>2, <1>3, <1>4, <1>5

(* A batch that is written is counted: the length catches up.              *)
LEMMA FlushCommitInv ==
  ASSUME ListInv, NEW c \in Clients, FlushCommit(c)
  PROVE  ListInv'
<1> TypeOK
  BY DEF ListInv
<1>1. /\ UNCHANGED <<disk, bufSize, kind, racy, failures, crashes>>
      /\ Flushing(c) /\ written = Len(buf) /\ len' = len + Len(buf) /\ buf' = << >>
      /\ written' = 0 /\ holder' = NoClient
  BY DEF FlushCommit, faultVars
<1>2. kind = "buffered" /\ written \in Nat /\ Len(buf) \in Nat /\ len \in Nat
  BY <1>1, FlusherAlone
<1>3. PICK s \in {"idle", "length"} :
        pc' \in [Clients -> Steps] /\ arg' \in [Clients -> ArgType] /\ Moved(c, s)
  <2>1. Return(c) \/ Goto(c, "length")
    BY DEF FlushCommit, Flushed
  <2> QED BY <2>1, ReturnMoves, GotoMoves DEF Steps
<1>4. len' \in Nat /\ len' >= len /\ Len(buf') = 0
  BY <1>1, <1>2
<1>5. OneFlusher' /\ LockInv' /\ ~Counting'
  BY <1>1, <1>3, <1>4, FlushEnds
<1>6. TypeOK'
  BY <1>1, <1>3, <1>4 DEF TypeOK, Keys
<1>7. DiskInv'
  <2> SUFFICES ASSUME ~racy PROVE DiskInv'
    BY <1>1 DEF DiskInv
  <2>1. ~Counting
    BY <1>2, BufferedOnly
  <2>2. Keys' = 0..(len' - 1)
    BY <1>1, <1>2, <2>1 DEF ListInv, DiskInv, Keys
  <2>3. len' \in (len' + written')..(len' + Len(buf')) /\ len' = len' + written'
    BY <1>1, <1>4
  <2> QED BY <1>1, <1>2, <1>5, <2>2, <2>3 DEF DiskInv
<1> QED BY <1>5, <1>6, <1>7 DEF ListInv

(* A batch that fails stays in the buffer, whatever of it was written.     *)
LEMMA FlushFailInv ==
  ASSUME ListInv, NEW c \in Clients, FlushFail(c)
  PROVE  ListInv'
<1> TypeOK
  BY DEF ListInv
<1>1. /\ UNCHANGED <<disk, len, buf, bufSize, kind, racy, crashes>>
      /\ Flushing(c) /\ written' = 0 /\ holder' = NoClient /\ failures' = failures + 1
  BY DEF FlushFail, Fails, listVars
<1>2. /\ kind = "buffered" /\ written \in Nat /\ Len(buf) \in Nat /\ len \in Nat
      /\ failures \in Nat
  BY <1>1, FlusherAlone DEF TypeOK
<1>3. PICK s \in {"idle", "length"} :
        pc' \in [Clients -> Steps] /\ arg' \in [Clients -> ArgType] /\ Moved(c, s)
  <2>1. Return(c) \/ Begin(c, "length", [arg[c] EXCEPT !.total = 0])
    BY DEF FlushFail
  <2>2. [arg[c] EXCEPT !.total = 0] \in ArgType
    <3>1. arg[c] \in ArgType
      BY DEF TypeOK
    <3> QED BY <3>1 DEF ArgType
  <2> QED BY <2>1, <2>2, ReturnMoves, BeginMoves DEF Steps
<1>4. OneFlusher' /\ LockInv' /\ ~Counting'
  BY <1>1, <1>2, <1>3, FlushEnds
<1>5. TypeOK'
  BY <1>1, <1>2, <1>3 DEF TypeOK, Keys
<1>6. DiskInv'
  <2> SUFFICES ASSUME ~racy PROVE DiskInv'
    BY <1>1 DEF DiskInv
  <2>1. PICK k \in (len + written)..(len + Len(buf)) : Keys = 0..(k - 1)
    <3>1. ~Counting
      BY <1>2, BufferedOnly
    <3> QED BY <1>2, <3>1 DEF ListInv, DiskInv
  <2>2. k \in (len' + written')..(len' + Len(buf')) /\ Keys' = 0..(k - 1) /\ failures' # 0
    BY <1>1, <1>2, <2>1 DEF Keys
  <2>3. kind' = "buffered" /\ ~Counting'
    BY <1>1, <1>2, <1>4
  <2>4. k \in (len' + written')..(len' + Len(buf') + IF Counting' THEN 1 ELSE 0)
    BY <1>1, <1>2, <2>2, <2>3
  <2> QED BY <2>2, <2>3, <2>4 DEF DiskInv
<1> QED BY <1>4, <1>5, <1>6 DEF ListInv

-----------------------------------------------------------------------------
(***************************************************************************)
(* Set, and a new process.                                                 *)
(***************************************************************************)

(* An entry of the buffer is overwritten while nobody flushes.             *)
LEMMA BufferedSetInv ==
  ASSUME ListInv, NEW c \in Clients, BufferedSet(c)
  PROVE  ListInv'
<1> TypeOK
  BY DEF ListInv
<1>1. PICK i \in -1..MaxLen, h \in Hashes :
        IF InBuffer(i)
          THEN buf' = [buf EXCEPT ![i - len + 1] = h] /\ UNCHANGED callVars
          ELSE Begin(c, "setCheck", EntryArg(i, h)) /\ UNCHANGED buf
  BY DEF BufferedSet
<1>2. /\ UNCHANGED <<disk, len, bufSize, kind, holder, written, racy, failures, crashes>>
      /\ kind = "buffered" /\ Idle(c) /\ holder = NoClient /\ i \in Int
  BY ListAssumption DEF BufferedSet, lockVars, faultVars
<1>3. CASE InBuffer(i)
  <2>1. buf' \in Seq(Hashes) /\ Len(buf') = Len(buf)
    BY <1>1, <1>3 DEF TypeOK
  <2>2. UNCHANGED <<pc, arg>>
    BY <1>1, <1>3 DEF callVars
  <2>3. TypeOK'
    BY <1>2, <2>1, <2>2 DEF TypeOK, Keys
  <2>4. OneFlusher'
    BY <1>2, <2>2 DEF ListInv, OneFlusher, Flushing
  <2>5. LockInv'
    <3>1. Appending' = Appending
      BY <2>2 DEF Appending
    <3>2. \A d \in Clients : InRange(arg[d].index)' <=> InRange(arg[d].index)
      BY <1>2, <2>2 DEF InRange
    <3> QED BY <1>2, <2>1, <2>2, <3>1, <3>2 DEF ListInv, LockInv
  <2>6. DiskInv'
    <3>1. written = 0 /\ written' = 0
      BY <1>2 DEF ListInv, LockInv
    <3>2. Counting' <=> Counting
      BY <2>2 DEF Counting
    <3> QED BY <1>2, <2>1, <3>1, <3>2 DEF ListInv, DiskInv, Keys
  <2> QED BY <2>3, <2>4, <2>5, <2>6 DEF ListInv
<1>4. CASE ~InBuffer(i)
  <2>1. EntryArg(i, h) \in ArgType /\ EntryArg(i, h).hash = h
    BY <1>2 DEF EntryArg, ArgType
  <2>2. /\ pc' \in [Clients -> Steps] /\ arg' \in [Clients -> ArgType]
        /\ Moved(c, "setCheck") /\ arg'[c] = EntryArg(i, h)
    BY <1>1, <1>4, <2>1, BeginMoves DEF Steps
  <2>3. ReadOnly
    BY <1>1, <1>2, <1>4 DEF listVars, lockVars, faultVars, ReadOnly
  <2> QED BY <1>2, <2>1, <2>2, <2>3, ReadingStep DEF Idle, Steps
<1> QED BY <1>3, <1>4

(* An update writes a key that exists, below the length.                   *)
LEMMA SetUpdateInv ==
  ASSUME ListInv, NEW c \in Clients, SetUpdate(c)
  PROVE  ListInv'
<1> TypeOK
  BY DEF ListInv
<1> DEFINE i == arg[c].index
           h == arg[c].hash
<1>1. /\ UNCHANGED <<len, buf, bufSize, kind, holder, written, racy, crashes>>
      /\ pc[c] = "update"
      /\ failures' \in Nat /\ (failures' = 0 => failures = 0)
      /\ (Put(i, h) \/ UNCHANGED disk)
  BY DEF SetUpdate, Fails, lockVars, TypeOK
<1>2. i \in Nat /\ i < len /\ h \in Hashes /\ len \in Nat
  BY <1>1 DEF ListInv, LockInv, InRange, TypeOK, ArgType
<1>3. pc' \in [Clients -> Steps] /\ arg' \in [Clients -> ArgType] /\ Moved(c, "idle")
  BY ReturnMoves DEF SetUpdate
<1>4. /\ Keys' \subseteq Nat /\ IsFiniteSet(Keys') /\ \A k \in Keys' : disk'[k] \in Hashes
      /\ Keys' = Keys \/ Keys' = Keys \cup {i}
      /\ \A k \in Keys' : k >= len => disk'[k] = disk[k]
  <2>1. CASE Put(i, h)
    BY <1>2, <2>1, PutKeys
  <2>2. CASE UNCHANGED disk
    BY <2>2 DEF TypeOK, Keys
  <2> QED BY <1>1, <2>1, <2>2
<1>5. TypeOK'
  BY <1>1, <1>3, <1>4 DEF TypeOK
<1>6. /\ Appending' = Appending /\ (Counting' <=> Counting)
      /\ \A d \in Appending : arg'[d] = arg[d]
      /\ \A d \in Clients :
           /\ pc'[d] \in {"put", "setCheck", "update"} => arg'[d].hash \in Hashes
           /\ pc'[d] = "put" => arg'[d].index >= 0
           /\ pc'[d] = "update" => InRange(arg[d].index)'
      /\ \A d \in Clients : d # c => (Flushing(d)' <=> Flushing(d))
  BY <1>1, <1>2, <1>3, CallsAfter DEF Steps
<1>7. OneFlusher'
  <2>1. ~Flushing(c) /\ ~Flushing(c)'
    BY <1>1, <1>3 DEF Flushing, Moved
  <2> QED BY <1>1, <1>6, <2>1 DEF ListInv, OneFlusher
<1>8. LockInv'
  BY <1>1, <1>6 DEF ListInv, LockInv
<1>9. DiskInv'
  <2> SUFFICES ASSUME ~racy PROVE DiskInv'
    BY <1>1 DEF DiskInv
  <2>1. PICK k \in (len + written)..(len + Len(buf) + IF Counting THEN 1 ELSE 0) :
          /\ Keys = 0..(k - 1)
          /\ kind = "raw" => k = len + IF Counting THEN 1 ELSE 0
          /\ kind = "buffered" /\ failures = 0 =>
               k = len + written /\ \A j \in 1..written : disk[len + j - 1] = buf[j]
    BY DEF ListInv, DiskInv
  <2>2. k \in Int /\ k >= len + written /\ written \in Nat
    BY <2>1 DEF TypeOK
  <2>3. Keys' = 0..(k - 1)
    <3>1. i \in Keys
      BY <1>2, <2>1, <2>2
    <3> QED BY <1>4, <2>1, <3>1
  <2>4. \A j \in 1..written : disk'[len + j - 1] = disk[len + j - 1]
    BY <1>2, <1>4, <2>2, <2>3
  <2>5. k \in (len' + written')..(len' + Len(buf') + IF Counting' THEN 1 ELSE 0)
    BY <1>1, <1>6, <2>1
  <2> QED BY <1>1, <1>6, <2>1, <2>3, <2>4, <2>5 DEF DiskInv
<1> QED BY <1>5, <1>7, <1>8, <1>9 DEF ListInv

(* Counting the keys 0..k-1 gives k.                                       *)
LEMMA CountKeys ==
  ASSUME NEW k \in Nat
  PROVE  IsFiniteSet(0..(k - 1)) /\ Cardinality(0..(k - 1)) = k
BY FS_Interval

(* The length a new process counts is the number of keys, without a gap.   *)
LEMMA CrashInv ==
  ASSUME ListInv, CrashAndReopen
  PROVE  ListInv'
<1> TypeOK
  BY DEF ListInv
<1>1. /\ UNCHANGED <<disk, racy, failures>> /\ kind' \in Kinds /\ buf' = << >>
      /\ len' = Cardinality(Keys) /\ holder' = NoClient /\ written' = 0
      /\ crashes' = crashes + 1
      /\ pc' = [c \in Clients |-> "idle"] /\ arg' = [c \in Clients |-> NoArg]
  BY DEF CrashAndReopen, Reopen, InitLen, Keys
<1>2. bufSize' \in Nat
  BY ListAssumption DEF CrashAndReopen, Reopen, BufSize
<1>3. len' \in Nat
  BY <1>1, FS_CardinalityType DEF TypeOK
<1>4. NoArg \in ArgType
  BY DEF NoArg, EntryArg, ArgType
<1>5. TypeOK'
  BY <1>1, <1>2, <1>3, <1>4 DEF TypeOK, Keys, Steps
<1>6. \A d \in Clients : pc'[d] = "idle"
  BY <1>1
<1>7. OneFlusher'
  BY <1>1, <1>6, ListAssumption DEF OneFlusher, Flushing
<1>8. Appending' = {} /\ ~Counting'
  BY <1>6 DEF Appending, Counting
<1>9. LockInv'
  BY <1>1, <1>6, <1>8 DEF LockInv
<1>10. DiskInv'
  <2> SUFFICES ASSUME ~racy PROVE DiskInv'
    BY <1>1 DEF DiskInv
  <2>1. PICK k \in (len + written)..(len + Len(buf) + IF Counting THEN 1 ELSE 0) :
          Keys = 0..(k - 1)
    BY DEF ListInv, DiskInv
  <2>2. k \in Nat
    BY <2>1 DEF TypeOK
  <2>3. len' = k
    BY <1>1, <2>1, <2>2, CountKeys
  <2>4. Keys' = 0..(len' - 1) /\ len' \in (len' + written')..(len' + Len(buf'))
    BY <1>1, <1>3, <2>1, <2>3 DEF Keys
  <2> QED BY <1>1, <1>3, <1>8, <2>4 DEF DiskInv
<1> QED BY <1>5, <1>7, <1>9, <1>10 DEF ListInv

-----------------------------------------------------------------------------
(* An empty list has no keys and no calls.                                 *)
LEMMA InitInv == Init => ListInv
<1> SUFFICES ASSUME Init PROVE ListInv
  OBVIOUS
<1>1. Keys = {} /\ IsFiniteSet(Keys) /\ len = 0
  BY FS_EmptySet DEF Init, Keys, InitLen
<1>2. bufSize \in Nat
  BY ListAssumption DEF Init, BufSize
<1>3. NoArg \in ArgType
  BY DEF NoArg, EntryArg, ArgType
<1>4. TypeOK
  <2>1. /\ pc \in [Clients -> Steps] /\ arg \in [Clients -> ArgType]
        /\ kind \in Kinds /\ len \in Nat /\ written \in Nat
        /\ failures \in Nat /\ crashes \in Nat
    BY <1>1, <1>3 DEF Init, Steps
  <2>3. racy \in BOOLEAN
    BY DEF Init
  <2>4. Keys \subseteq Nat /\ \A k \in Keys : disk[k] \in Hashes
    BY <1>1
  <2>2. buf \in Seq(Hashes) /\ holder \in Clients \cup {NoClient}
    BY DEF Init
  <2> QED BY <1>1, <1>2, <2>1, <2>2, <2>3, <2>4 DEF TypeOK
<1>5. \A d \in Clients : pc[d] = "idle"
  BY DEF Init
<1>6. OneFlusher
  BY <1>5, ListAssumption DEF Init, OneFlusher, Flushing
<1>7. Appending = {} /\ ~Counting
  BY <1>5 DEF Appending, Counting
<1>8. LockInv
  BY <1>5, <1>7 DEF Init, LockInv
<1>9. DiskInv
  <2>1. Keys = 0..(0 - 1)
    BY <1>1
  <2>2. 0 \in (len + written)..(len + Len(buf))
    BY <1>1 DEF Init
  <2> QED BY <1>1, <1>7, <2>1, <2>2 DEF Init, DiskInv
<1> QED BY <1>4, <1>6, <1>8, <1>9 DEF ListInv

(* Every step keeps the invariant.                                         *)
LEMMA StepInv == ListInv /\ [Next]_vars => ListInv'
<1> SUFFICES ASSUME ListInv, [Next]_vars PROVE ListInv'
  OBVIOUS
<1>1. ASSUME NEW c \in Clients, Call(c) \/ InternalStep(c) PROVE ListInv'
  BY <1>1, ReadCases, AppendLoadInv, AppendPutInv, AppendCountInv, LockCases, FlushWriteInv,
     FlushCommitInv, FlushFailInv, BufferedSetInv, SetUpdateInv DEF Call, InternalStep
<1>2. CASE UNCHANGED vars
  <2> USE <1>2 DEF vars, listVars, lockVars, callVars, faultVars
  <2>1. TypeOK' /\ OneFlusher'
    BY DEF ListInv, TypeOK, OneFlusher, Flushing, Keys
  <2>2. LockInv' /\ DiskInv'
    BY DEF ListInv, LockInv, DiskInv, Appending, Counting, InRange, Keys
  <2> QED BY <2>1, <2>2 DEF ListInv
<1> QED BY <1>1, <1>2, CrashInv DEF Next

(* The mutex, the batch on its way and the keys on disk agree with the     *)
(* length and the buffer at every moment, whatever fails and whenever the  *)
(* process is killed.                                                      *)
THEOREM ListInvHolds == Spec => []ListInv
BY InitInv, StepInv, PTL DEF Spec

(* Unless two Appends to a TxidList overlapped, the keys on disk have no   *)
(* gap and reach at least to the length: initLen never counts too few.     *)
THEOREM KeysContiguousHolds == Spec => []KeysContiguous
<1>1. ListInv => KeysContiguous
  <2> SUFFICES ASSUME ListInv, ~racy
               PROVE  \E k \in len..(len + Len(buf) + IF Appending = {} THEN 0 ELSE 1) :
                        Keys = 0..(k - 1)
    BY DEF KeysContiguous
  <2>1. PICK k \in (len + written)..(len + Len(buf) + IF Counting THEN 1 ELSE 0) :
          Keys = 0..(k - 1)
    BY DEF ListInv, DiskInv
  <2>2. Counting => Appending # {}
    BY DEF Counting, Appending
  <2>3. k \in len..(len + Len(buf) + IF Appending = {} THEN 0 ELSE 1)
    BY <2>1, <2>2 DEF ListInv, TypeOK
  <2> QED BY <2>1, <2>3
<1> QED BY <1>1, ListInvHolds, PTL

(* While no write has failed, the keys beyond the length hold what the     *)
(* buffer holds: a kill in the middle of a batch brings back no older      *)
(* value.                                                                  *)
THEOREM TailFreshHolds == Spec => []TailFresh
<1>1. ListInv => TailFresh
  <2> SUFFICES ASSUME ListInv, ~racy, failures = 0, kind = "buffered",
                      NEW k \in Keys, k >= len
               PROVE  disk[k] = buf[k - len + 1]
    BY DEF TailFresh
  <2>1. PICK n \in Int : /\ n = len + written /\ Keys = 0..(n - 1)
                         /\ \A i \in 1..written : disk[len + i - 1] = buf[i]
    BY DEF ListInv, DiskInv
  <2>2. k \in Nat /\ len \in Nat /\ written \in Nat
    BY DEF ListInv, TypeOK
  <2>3. k - len + 1 \in 1..written /\ len + (k - len + 1) - 1 = k
    BY <2>1, <2>2
  <2> QED BY <2>1, <2>3
<1> QED BY <1>1, ListInvHolds, PTL

(***************************************************************************)
(* Proofs that Get and Slice of the list of txids answer with what was     *)
(* there, though they read the buffer, the length and the keys at          *)
(* different moments and other goroutines write in between; and that the   *)
(* lists implement one sequence, the one of TxidSeq.                       *)
(***************************************************************************)

(* What each call relies on between its reads.  The length only grows, so  *)
(* an index that was in range stays so, and one that was not was, at the   *)
(* start of the call, an index of no entry.                                *)
CallInv ==
  \A c \in Clients :
    /\ pc[c] \in {"getCheck", "view"} => EntryAt(arg[c].index) \in seen[c]
    /\ pc[c] = "getCheck" => InRange(arg[c].index) \/ NoHash \in seen[c]
    /\ pc[c] = "view" => InRange(arg[c].index)
    /\ pc[c] = "sliceFlush" => arg[c].total <= len + Len(buf)
    /\ pc[c] = "length" => arg[c].total <= len
    /\ pc[c] = "scan" => arg[c].window[1] >= 0 /\ arg[c].window[2] <= len

AnswerInv == GetLinearizable /\ (answer.op = "slice" /\ ~racy =>
       answer.entries = [k \in answer.from..(answer.to - 1) |-> EntryAt(k)])

(* The others stay where they are, and the list only grows.                *)
Grows(c) ==
  /\ \A d \in Clients : d # c => pc'[d] = pc[d] /\ arg'[d] = arg[d]
  /\ len' >= len /\ len' + Len(buf') >= len + Len(buf)

(* The steps of c that begin or continue a Get or a Slice, and what they   *)
(* have seen to it.                                                        *)
Reads(c) ==
  /\ pc'[c] = "getCheck" =>
       Idle(c) /\ UNCHANGED listVars /\ ~InBuffer(arg'[c].index)
  /\ pc'[c] = "view" =>
       pc[c] = "getCheck" /\ arg'[c] = arg[c] /\ InRange(arg[c].index) /\ UNCHANGED listVars
  /\ pc'[c] = "sliceFlush" => arg'[c].total <= len' + Len(buf')
  /\ pc'[c] = "length" => arg'[c].total <= len'
  /\ pc'[c] = "scan" => UNCHANGED len /\ arg'[c].window[1] >= 0 /\ arg'[c].window[2] <= len

(* A TxidList has an empty buffer.                                         *)
LEMMA RawBuffer == ASSUME ListInv, kind = "raw" PROVE \A i \in Int : ~InBuffer(i)
<1>1. Len(buf) = 0 /\ len \in Nat
  BY DEF ListInv, LockInv, TypeOK
<1> QED BY <1>1 DEF InBuffer

(* The calls that begin: none but Append lengthens the list.               *)
LEMMA CallReads ==
  ASSUME ListInv, NEW c \in Clients, Call(c)
  PROVE  Grows(c) /\ Reads(c)
<1> TypeOK
  BY DEF ListInv
<1>0. len \in Nat /\ Len(buf) \in Nat /\ Idle(c)
  BY DEF TypeOK, Call, AppendLoad, BufferedAppend, Flush, BufferedGet, RawGet, BufferedSet,
         RawSet, Slice
<1>1. CASE AppendLoad(c)
  BY <1>0, <1>1 DEF AppendLoad, Begin, Grows, Reads, listVars, TypeOK
<1>2. CASE BufferedAppend(c)
  <2>1. Len(buf') = Len(buf) + 1
    BY <1>2, AppendProperties DEF BufferedAppend, TypeOK
  <2>2. pc'[c] \in {"idle", "flush"} /\ \A d \in Clients : d # c => pc'[d] = pc[d] /\ arg'[d] = arg[d]
    BY <1>0, <1>2 DEF BufferedAppend, Goto, callVars, TypeOK, Idle
  <2> QED BY <1>0, <1>2, <2>1, <2>2 DEF BufferedAppend, Grows, Reads
<1>3. CASE Flush(c)
  BY <1>0, <1>3 DEF Flush, Goto, Grows, Reads, listVars, TypeOK
<1>4. CASE BufferedGet(c) \/ RawGet(c)
  <2>1. PICK i \in -1..MaxLen :
          \/ UNCHANGED callVars
          \/ ~InBuffer(i) /\ Begin(c, "getCheck", EntryArg(i, NoHash))
    <3>1. CASE BufferedGet(c)
      BY <3>1 DEF BufferedGet
    <3>2. CASE RawGet(c)
      <4>1. PICK i \in -1..MaxLen : Begin(c, "getCheck", EntryArg(i, NoHash))
        BY <3>2 DEF RawGet
      <4>2. ~InBuffer(i)
        BY <3>2, RawBuffer, ListAssumption DEF RawGet
      <4> QED BY <4>1, <4>2
    <3> QED BY <1>4, <3>1, <3>2
  <2>2. UNCHANGED listVars
    BY <1>4 DEF BufferedGet, RawGet
  <2>3. CASE UNCHANGED callVars
    BY <1>0, <2>2, <2>3 DEF callVars, Grows, Reads, listVars, Idle
  <2>4. CASE ~InBuffer(i) /\ Begin(c, "getCheck", EntryArg(i, NoHash))
    <3>1. /\ pc'[c] = "getCheck" /\ arg'[c].index = i
          /\ \A d \in Clients : d # c => pc'[d] = pc[d] /\ arg'[d] = arg[d]
      BY <2>4 DEF Begin, EntryArg, TypeOK
    <3> QED BY <1>0, <2>2, <2>4, <3>1 DEF Grows, Reads, listVars
  <2> QED BY <2>1, <2>3, <2>4
<1>5. CASE BufferedSet(c) \/ RawSet(c)
  <2>1. len' = len /\ Len(buf') = Len(buf)
    BY <1>5 DEF BufferedSet, RawSet, listVars, TypeOK
  <2>2. /\ pc'[c] \in {"idle", "setCheck"}
        /\ \A d \in Clients : d # c => pc'[d] = pc[d] /\ arg'[d] = arg[d]
    BY <1>0, <1>5 DEF BufferedSet, RawSet, Begin, callVars, TypeOK, Idle
  <2> QED BY <1>0, <2>1, <2>2 DEF Grows, Reads
<1>6. CASE Slice(c)
  <2>1. PICK w \in Windows : Begin(c, IF buf # << >> THEN "sliceFlush" ELSE "length", SliceArg(w))
    BY <1>6 DEF Slice
  <2>2. /\ pc'[c] = IF buf # << >> THEN "sliceFlush" ELSE "length"
        /\ arg'[c].total = len + Len(buf)
        /\ \A d \in Clients : d # c => pc'[d] = pc[d] /\ arg'[d] = arg[d]
    BY <2>1 DEF Begin, SliceArg, WindowArg, TypeOK
  <2>3. buf = << >> => Len(buf) = 0
    OBVIOUS
  <2> QED BY <1>0, <1>6, <2>2, <2>3 DEF Slice, Grows, Reads, listVars
<1> QED BY <1>1, <1>2, <1>3, <1>4, <1>5, <1>6 DEF Call

(* The steps within a call.                                                *)
LEMMA InternalReads ==
  ASSUME ListInv, CallInv, NEW c \in Clients, InternalStep(c)
  PROVE  Grows(c) /\ Reads(c)
<1> TypeOK
  BY DEF ListInv
<1>0. len \in Nat /\ Len(buf) \in Nat
  BY DEF TypeOK
<1>1. CASE AppendPut(c)
  BY <1>0, <1>1 DEF AppendPut, Goto, Return, Begin, Grows, Reads, TypeOK
<1>2. CASE AppendCount(c)
  BY <1>0, <1>2 DEF AppendCount, Return, Begin, Grows, Reads, TypeOK
<1>3. CASE FlushWrite(c)
  BY <1>0, <1>3 DEF FlushWrite, Flushing, callVars, CallInv, Grows, Reads
<1>4. CASE FlushCommit(c)
  <2>1. len' = len + Len(buf) /\ Len(buf') = 0
    BY <1>4 DEF FlushCommit
  <2>2. /\ pc'[c] \in {"idle", "length"}
        /\ pc'[c] = "length" => pc[c] = "sliceFlush" /\ arg'[c] = arg[c]
        /\ \A d \in Clients : d # c => pc'[d] = pc[d] /\ arg'[d] = arg[d]
    BY <1>4 DEF FlushCommit, Flushed, Flushing, Return, Goto, Begin, TypeOK
  <2> QED BY <1>0, <2>1, <2>2 DEF CallInv, Grows, Reads
<1>5. CASE FlushFail(c)
  <2>1. /\ \/ pc'[c] = "idle"
           \/ pc'[c] = "length" /\ arg'[c].total = 0
        /\ \A d \in Clients : d # c => pc'[d] = pc[d] /\ arg'[d] = arg[d]
    <3>1. CASE Return(c)
      BY <3>1 DEF Return, Begin, TypeOK
    <3>2. CASE Begin(c, "length", [arg[c] EXCEPT !.total = 0])
      <4>1. arg[c] \in ArgType
        BY DEF TypeOK
      <4>2. [arg[c] EXCEPT !.total = 0].total = 0
        BY <4>1 DEF ArgType
      <4> QED BY <3>2, <4>2 DEF Begin, TypeOK
    <3> QED BY <1>5, <3>1, <3>2 DEF FlushFail
  <2> QED BY <1>0, <1>5, <2>1 DEF FlushFail, listVars, Grows, Reads
<1>6. CASE GetCheck(c)
  BY <1>0, <1>6 DEF GetCheck, Goto, Return, Begin, Grows, Reads, listVars, TypeOK
<1>7. CASE GetView(c) \/ SliceScan(c)
  BY <1>0, <1>7 DEF GetView, SliceScan, Return, Begin, Grows, Reads, listVars, TypeOK
<1>8. CASE SetCheck(c) \/ SetUpdate(c)
  BY <1>0, <1>8 DEF SetCheck, SetUpdate, Goto, Return, Begin, Grows, Reads, listVars, TypeOK
<1>9. CASE SliceClamp(c)
  <2> DEFINE from == IF arg[c].window[1] < 0 THEN 0 ELSE arg[c].window[1]
             to == IF arg[c].window[2] > len THEN len ELSE arg[c].window[2]
  <2>1. UNCHANGED listVars /\ (Return(c) \/ Begin(c, "scan", WindowArg(<<from, to>>, 0)))
    BY <1>9 DEF SliceClamp
  <2>2. from >= 0 /\ to <= len
    BY <1>0 DEF TypeOK, ArgType
  <2>3. /\ \/ pc'[c] = "idle"
           \/ pc'[c] = "scan" /\ arg'[c].window[1] = from /\ arg'[c].window[2] = to
        /\ \A d \in Clients : d # c => pc'[d] = pc[d] /\ arg'[d] = arg[d]
    <3>1. CASE Return(c)
      BY <3>1 DEF Return, Begin, TypeOK
    <3>2. CASE Begin(c, "scan", WindowArg(<<from, to>>, 0))
      <4>1. WindowArg(<<from, to>>, 0).window = <<from, to>>
        BY DEF WindowArg
      <4> HIDE DEF from, to
      <4> QED BY <3>2, <4>1 DEF Begin, TypeOK
    <3> QED BY <2>1, <3>1, <3>2
  <2> QED BY <1>0, <2>1, <2>2, <2>3 DEF Grows, Reads, listVars
<1> QED BY <1>1, <1>2, <1>3, <1>4, <1>5, <1>6, <1>7, <1>8, <1>9 DEF InternalStep

-----------------------------------------------------------------------------
(* What c relies on stays true when another client moves, and holds of c   *)
(* itself after its step; Observe has added what is there now.             *)
LEMMA CallInvStep ==
  ASSUME ListInv, CallInv, NEW c \in Clients, Grows(c), Reads(c), ListInv', Observe
  PROVE  CallInv'
<1> TypeOK /\ TypeOK'
  BY DEF ListInv
<1>0. len \in Nat /\ Len(buf) \in Nat /\ len' \in Nat /\ Len(buf') \in Nat
  BY DEF TypeOK
<1> SUFFICES ASSUME NEW d \in Clients
             PROVE  /\ pc'[d] \in {"getCheck", "view"} => EntryAt(arg[d].index)' \in seen'[d]
                    /\ pc'[d] = "getCheck" => InRange(arg[d].index)' \/ NoHash \in seen'[d]
                    /\ pc'[d] = "view" => InRange(arg[d].index)'
                    /\ pc'[d] = "sliceFlush" => arg'[d].total <= len' + Len(buf')
                    /\ pc'[d] = "length" => arg'[d].total <= len'
                    /\ pc'[d] = "scan" => arg'[d].window[1] >= 0 /\ arg'[d].window[2] <= len'
  BY DEF CallInv
<1>1. arg[d] \in ArgType /\ arg'[d] \in ArgType
  BY DEF TypeOK
<1>2. arg[d].index \in Int /\ arg'[d].index \in Int /\ arg[d].total \in Nat
      /\ arg[d].window[2] \in Int /\ arg'[d].window[2] \in Int
  BY <1>1 DEF ArgType
<1>3. pc'[d] \in {"getCheck", "view"} =>
        seen'[d] = (IF Idle(d) THEN {} ELSE seen[d]) \cup {EntryAt(arg[d].index)'}
  BY DEF Observe
<1>4. CASE d # c
  <2>1. pc'[d] = pc[d] /\ arg'[d] = arg[d]
    BY <1>4 DEF Grows
  <2>2. InRange(arg[d].index) => InRange(arg[d].index)'
    BY <1>0, <1>2, <2>1 DEF InRange, Grows
  <2>3. pc[d] \in {"getCheck", "view"} => ~Idle(d)
    BY DEF Idle
  <2>4. len' >= len /\ len' + Len(buf') >= len + Len(buf)
    BY DEF Grows
  <2>5. /\ pc'[d] = "sliceFlush" => arg'[d].total <= len' + Len(buf')
        /\ pc'[d] = "length" => arg'[d].total <= len'
        /\ pc'[d] = "scan" => arg'[d].window[1] >= 0 /\ arg'[d].window[2] <= len'
    BY <1>0, <1>2, <2>1, <2>4 DEF CallInv
  <2>6. /\ pc'[d] = "getCheck" => InRange(arg[d].index)' \/ NoHash \in seen'[d]
        /\ pc'[d] = "view" => InRange(arg[d].index)'
    BY <1>3, <2>1, <2>2, <2>3 DEF CallInv
  <2> QED BY <1>3, <2>5, <2>6
<1>5. CASE d = c
  <2>1. ASSUME pc'[c] = "getCheck" PROVE InRange(arg[c].index)' \/ NoHash \in seen'[c]
    <3>1. UNCHANGED listVars /\ ~InBuffer(arg'[c].index)
      BY <2>1 DEF Reads
    <3>2. ~InRange(arg[c].index)' => EntryAt(arg[c].index)' = NoHash
      BY <3>1 DEF EntryAt, InRange, InBuffer, listVars, Keys
    <3> QED BY <1>3, <1>5, <2>1, <3>2
  <2>2. ASSUME pc'[c] = "view" PROVE InRange(arg[c].index)'
    BY <2>2 DEF Reads, InRange, listVars
  <2> QED BY <1>0, <1>3, <1>5, <2>1, <2>2 DEF Reads
<1> QED BY <1>4, <1>5

(* A Get that answers has seen its answer; a Slice that answers has read   *)
(* keys that are all there.                                                *)
LEMMA AnswerStep ==
  ASSUME ListInv, CallInv, NEW c \in Clients, Call(c) \/ InternalStep(c)
  PROVE  AnswerInv'
<1> TypeOK
  BY DEF ListInv
<1>0. len \in Nat /\ Len(buf) \in Nat
  BY DEF TypeOK
<1>1. CASE NoReply
  BY <1>1 DEF NoReply, NoAnswer, AnswerInv, GetLinearizable
<1>2. CASE BufferedGet(c)
  <2>1. CASE NoReply
    BY <1>1, <2>1
  <2>2. CASE ~NoReply
    <3>1. PICK i \in -1..MaxLen :
            /\ InBuffer(i)
            /\ answer' = [op |-> "get", value |-> buf[i - len + 1], could |-> {EntryAt(i)}]
      BY <1>2, <2>2 DEF BufferedGet
    <3>2. EntryAt(i) = buf[i - len + 1]
      BY <3>1 DEF EntryAt
    <3> QED BY <3>1, <3>2 DEF AnswerInv, GetLinearizable
  <2> QED BY <2>1, <2>2
<1>3. CASE GetCheck(c)
  <2>1. CASE InRange(arg[c].index)
    BY <1>3, <2>1 DEF GetCheck, NoAnswer, AnswerInv, GetLinearizable
  <2>2. CASE ~InRange(arg[c].index)
    <3>1. answer' = [op |-> "get", value |-> NoHash, could |-> seen[c]] /\ NoHash \in seen[c]
      BY <1>3, <2>2 DEF GetCheck, CallInv
    <3> QED BY <3>1 DEF AnswerInv, GetLinearizable
  <2> QED BY <2>1, <2>2
<1>4. CASE GetView(c)
  <2> DEFINE i == arg[c].index
  <2>1. InRange(i) /\ EntryAt(i) \in seen[c] /\ i \in Int
    BY <1>4 DEF GetView, CallInv, TypeOK, ArgType
  <2>2. EntryAt(i) = IF i \in Keys THEN disk[i] ELSE NoHash
    BY <1>0, <2>1 DEF EntryAt, InBuffer, InRange
  <2>3. \/ answer' = [op |-> "get", value |-> IF i \in Keys THEN disk[i] ELSE NoHash, could |-> seen[c]]
        \/ answer' = [op |-> "get", value |-> NoHash, could |-> seen[c] \cup {NoHash}]
    BY <1>4 DEF GetView
  <2> QED BY <2>1, <2>2, <2>3 DEF AnswerInv, GetLinearizable
<1>5. CASE SliceScan(c)
  <2> DEFINE from == arg[c].window[1]
             to   == arg[c].window[2]
             inside == {k \in Keys : k >= from /\ k < to}
  <2>1. from \in Int /\ to \in Int /\ from >= 0 /\ to <= len
    BY <1>5 DEF SliceScan, CallInv, TypeOK, ArgType
  <2>2. /\ answer' = [op |-> "slice", entries |-> [k \in inside |-> disk[k]],
                      from |-> from, to |-> to]
        /\ UNCHANGED <<disk, len, buf, racy>>
    BY <1>5 DEF SliceScan, listVars, faultVars
  <2>3. ASSUME ~racy PROVE inside = from..(to - 1) /\ \A k \in inside : EntryAt(k)' = disk[k]
    <3>1. PICK n \in Int : n >= len /\ Keys = 0..(n - 1)
      <4>1. PICK n \in (len + written)..(len + Len(buf) + IF Counting THEN 1 ELSE 0) :
              Keys = 0..(n - 1)
        BY <2>3 DEF ListInv, DiskInv
      <4>2. n \in Int /\ n >= len
        BY <4>1 DEF TypeOK
      <4> QED BY <4>1, <4>2
    <3>2. inside = from..(to - 1)
      BY <1>0, <2>1, <3>1
    <3>3. \A k \in inside : k >= 0 /\ k < len /\ k \in Keys /\ k \in Int
      BY <1>0, <2>1, <3>1, <3>2
    <3>4. \A k \in inside : EntryAt(k)' = disk[k]
      BY <1>0, <2>2, <3>3 DEF EntryAt, InBuffer, InRange, Keys
    <3> QED BY <3>2, <3>4
  <2> HIDE DEF from, to, inside
  <2>4. ~racy => [k \in inside |-> disk[k]] = [k \in from..(to - 1) |-> EntryAt(k)']
    BY <2>3
  <2>5. answer'.op = "slice" /\ answer'.from = from /\ answer'.to = to
        /\ answer'.entries = [k \in inside |-> disk[k]]
    BY <2>2
  <2> QED BY <2>2, <2>4, <2>5 DEF AnswerInv, GetLinearizable
<1> QED BY <1>1, <1>2, <1>3, <1>4, <1>5
        DEF Call, InternalStep, AppendLoad, BufferedAppend, Flush, RawGet, BufferedSet, RawSet,
            Slice, AppendPut, AppendCount, FlushWrite, FlushCommit, FlushFail, SetCheck,
            SetUpdate, SliceClamp

(* Nobody is within a call at the start, and after a kill.                 *)
LEMMA ReadsInductive ==
  /\ Init => CallInv /\ AnswerInv
  /\ ListInv /\ ListInv' /\ CallInv /\ AnswerInv /\ [Next]_vars => (CallInv /\ AnswerInv)'
<1>1. Init => CallInv /\ AnswerInv
  BY DEF Init, CallInv, AnswerInv, NoAnswer, GetLinearizable
<1>2. ASSUME ListInv, ListInv', CallInv, AnswerInv, NEW c \in Clients,
             Call(c) \/ InternalStep(c), Observe
      PROVE  CallInv' /\ AnswerInv'
  BY <1>2, CallReads, InternalReads, CallInvStep, AnswerStep
<1>3. ASSUME CrashAndReopen PROVE CallInv' /\ AnswerInv'
  <2>1. \A d \in Clients : pc'[d] = "idle"
    BY <1>3 DEF CrashAndReopen
  <2>2. answer'.op = "none"
    BY <1>3 DEF CrashAndReopen, NoReply, NoAnswer
  <2> QED BY <2>1, <2>2 DEF CallInv, AnswerInv, GetLinearizable
<1>4. ASSUME CallInv, AnswerInv, UNCHANGED vars PROVE CallInv' /\ AnswerInv'
  BY <1>4 DEF vars, listVars, lockVars, callVars, faultVars, CallInv, AnswerInv, GetLinearizable,
              EntryAt, InBuffer, InRange, Keys
<1> QED BY <1>1, <1>2, <1>3, <1>4 DEF Next

(* The invariant the two theorems rest on.                                 *)
LEMMA ReadsInvariant == Spec => [](CallInv /\ AnswerInv)
BY ReadsInductive, ListInvHolds, PTL DEF Spec

(* Get answers with a value the entry had at some moment of the call, for  *)
(* any goroutines that append, set and flush meanwhile.                    *)
THEOREM GetLinearizableHolds == Spec => []GetLinearizable
<1>1. CallInv /\ AnswerInv => GetLinearizable
  BY DEF AnswerInv
<1> QED BY <1>1, ReadsInvariant, PTL

(* Slice answers with every entry of its window as it is, and the length   *)
(* it reads covers all that the list held when it began.                   *)
THEOREM SliceWholeHolds == Spec => []SliceWhole
<1>1. CallInv /\ AnswerInv => SliceWhole
  <2> SUFFICES ASSUME CallInv, AnswerInv PROVE SliceWhole
    OBVIOUS
  <2>1. \A c \in Clients : pc[c] = "length" => len >= arg[c].total
    BY DEF CallInv
  <2> QED BY <2>1 DEF AnswerInv, SliceWhole
<1> QED BY <1>1, ReadsInvariant, PTL

-----------------------------------------------------------------------------
(***************************************************************************)
(* The list implements one sequence (TxidSeq).                             *)
(***************************************************************************)

(* What a flush has written so far is the front of the buffer, also after  *)
(* a flush that failed.                                                    *)
BatchInv == \A j \in 1..written : len + j - 1 \in Keys /\ disk[len + j - 1] = buf[j]

(* The sequence the list stands for: the keys up to the length, then the   *)
(* buffer.                                                                 *)
ListedIs ==
  /\ Listed \in Seq(Hashes) /\ Len(Listed) = len + Len(buf)
  /\ \A i \in 1..len : i - 1 \in Keys /\ Listed[i] = disk[i - 1]
  /\ \A j \in 1..Len(buf) : Listed[len + j] = buf[j]

(* Writing one key leaves the others as they are.                          *)
LEMMA PutOne ==
  ASSUME ListInv, NEW i \in Nat, NEW h \in Hashes, Put(i, h)
  PROVE  /\ Keys' = Keys \cup {i} /\ disk'[i] = h
         /\ \A k \in Keys : k # i => disk'[k] = disk[k]
BY PutKeys DEF ListInv

(* The batch begins empty, grows entry by entry, and is gone when the      *)
(* mutex is released.                                                      *)
LEMMA BatchStep == ListInv /\ ListInv' /\ BatchInv /\ [Next]_vars => BatchInv'
<1> SUFFICES ASSUME ListInv, ListInv', BatchInv, [Next]_vars PROVE BatchInv'
  OBVIOUS
<1> TypeOK /\ TypeOK'
  BY DEF ListInv
<1>0. /\ len \in Nat /\ written \in Nat /\ written <= Len(buf) /\ Len(buf) \in Nat
  BY DEF ListInv, TypeOK, LockInv
<1>1. written' = 0 => BatchInv'
  BY DEF BatchInv
<1>2. kind = "raw" \/ holder = NoClient => written = 0
  BY DEF ListInv, LockInv
<1>3. UNCHANGED <<disk, len, buf, written>> => BatchInv'
  BY DEF BatchInv, Keys
<1>4. ASSUME NEW c \in Clients, Call(c) PROVE BatchInv'
  <2>1. CASE BufferedAppend(c)
    BY <1>1, <1>2, <2>1 DEF BufferedAppend
  <2>2. CASE BufferedSet(c)
    BY <1>1, <1>2, <2>2 DEF BufferedSet, lockVars
  <2>3. CASE AppendLoad(c) \/ Flush(c) \/ BufferedGet(c) \/ RawGet(c) \/ RawSet(c) \/ Slice(c)
    BY <1>3, <2>3 DEF AppendLoad, Flush, BufferedGet, RawGet, RawSet, Slice, listVars, lockVars
  <2> QED BY <1>4, <2>1, <2>2, <2>3 DEF Call
<1>5. ASSUME NEW c \in Clients, InternalStep(c) PROVE BatchInv'
  <2>1. CASE AppendPut(c) \/ AppendCount(c)
    <3>1. kind = "raw"
      BY <2>1, AppendingRaw DEF AppendPut, AppendCount
    <3> QED BY <1>1, <1>2, <2>1, <3>1 DEF AppendPut, AppendCount, lockVars
  <2>2. CASE FlushWrite(c)
    <3>1. /\ written < Len(buf) /\ Put(len + written, buf[written + 1])
          /\ written' = written + 1 /\ UNCHANGED <<len, buf>>
      BY <2>2 DEF FlushWrite
    <3>2. len + written \in Nat /\ buf[written + 1] \in Hashes
      BY <1>0, <3>1 DEF TypeOK
    <3>3. /\ Keys' = Keys \cup {len + written} /\ disk'[len + written] = buf[written + 1]
          /\ \A k \in Keys : k # len + written => disk'[k] = disk[k]
      BY <3>1, <3>2, PutOne
    <3>4. ASSUME NEW j \in 1..(written + 1)
          PROVE  len + j - 1 \in Keys' /\ disk'[len + j - 1] = buf[j]
      <4>1. CASE j = written + 1
        BY <1>0, <3>3, <4>1
      <4>2. CASE j # written + 1
        <5>1. j \in 1..written /\ len + j - 1 # len + written
          BY <1>0, <4>2
        <5> QED BY <3>3, <5>1 DEF BatchInv
      <4> QED BY <4>1, <4>2
    <3> QED BY <3>1, <3>4 DEF BatchInv
  <2>3. CASE FlushCommit(c) \/ FlushFail(c)
    BY <1>1, <2>3 DEF FlushCommit, FlushFail
  <2>4. CASE GetCheck(c) \/ GetView(c) \/ SetCheck(c) \/ SliceClamp(c) \/ SliceScan(c)
    BY <1>3, <2>4 DEF GetCheck, GetView, SetCheck, SliceClamp, SliceScan, listVars, lockVars
  <2>5. CASE SetUpdate(c)
    <3>1. /\ UNCHANGED <<len, buf, written>>
          /\ Put(arg[c].index, arg[c].hash) \/ UNCHANGED disk
      BY <2>5 DEF SetUpdate, lockVars
    <3>2. arg[c].index \in Nat /\ arg[c].index < len /\ arg[c].hash \in Hashes
      BY <2>5 DEF SetUpdate, ListInv, LockInv, InRange, TypeOK, ArgType
    <3>3. CASE UNCHANGED disk
      BY <1>3, <3>1, <3>3
    <3>4. CASE Put(arg[c].index, arg[c].hash)
      <4>1. Keys \subseteq Keys' /\ \A k \in Keys : k # arg[c].index => disk'[k] = disk[k]
        BY <3>2, <3>4, PutOne
      <4>2. \A j \in 1..written : len + j - 1 # arg[c].index
        BY <1>0, <3>2
      <4> QED BY <3>1, <4>1, <4>2 DEF BatchInv
    <3> QED BY <3>1, <3>3, <3>4
  <2> QED BY <1>5, <2>1, <2>2, <2>3, <2>4, <2>5 DEF InternalStep
<1>6. CASE CrashAndReopen
  BY <1>1, <1>6 DEF CrashAndReopen
<1>7. CASE UNCHANGED vars
  BY <1>3, <1>7 DEF vars, listVars, lockVars
<1> QED BY <1>4, <1>5, <1>6, <1>7 DEF Next

(* Unless two Appends overlapped, every index below the length has a key.  *)
LEMMA ListedRight == ListInv /\ ~racy => ListedIs
<1> SUFFICES ASSUME ListInv, ~racy PROVE ListedIs
  OBVIOUS
<1>1. len \in Nat /\ Len(buf) \in Nat /\ written \in Nat /\ buf \in Seq(Hashes)
  BY DEF ListInv, TypeOK
<1>2. PICK k \in (len + written)..(len + Len(buf) + IF Counting THEN 1 ELSE 0) : Keys = 0..(k - 1)
  BY DEF ListInv, DiskInv
<1>3. \A i \in 0..(len - 1) : i \in Keys /\ disk[i] \in Hashes
  BY <1>1, <1>2 DEF ListInv, TypeOK
<1>4. ASSUME NEW i \in 1..len PROVE EntryAt(i - 1) = disk[i - 1] /\ disk[i - 1] \in Hashes
  <2>1. i - 1 \in 0..(len - 1) /\ ~InBuffer(i - 1) /\ InRange(i - 1)
    BY <1>1 DEF InBuffer, InRange
  <2> QED BY <1>3, <2>1 DEF EntryAt
<1>5. ASSUME NEW j \in 1..Len(buf) PROVE EntryAt(len + j - 1) = buf[j] /\ buf[j] \in Hashes
  <2>1. InBuffer(len + j - 1) /\ (len + j - 1) - len + 1 = j
    BY <1>1 DEF InBuffer
  <2> QED BY <1>1, <2>1 DEF EntryAt
<1> DEFINE n == len + Len(buf)
<1>6. n \in Nat
  BY <1>1
<1>7. \A i \in 1..n : EntryAt(i - 1) \in Hashes
  <2> SUFFICES ASSUME NEW i \in 1..n PROVE EntryAt(i - 1) \in Hashes
    OBVIOUS
  <2>1. CASE i <= len
    BY <1>1, <1>4, <2>1
  <2>2. CASE i > len
    <3>1. i - len \in 1..Len(buf) /\ len + (i - len) - 1 = i - 1
      BY <1>1, <2>2
    <3> QED BY <1>5, <3>1
  <2> QED BY <1>1, <2>1, <2>2
<1>8. Listed = [i \in 1..n |-> EntryAt(i - 1)]
  BY DEF Listed
<1> HIDE DEF n
<1>9. Listed \in Seq(Hashes) /\ Len(Listed) = n
  BY <1>6, <1>7, <1>8
<1>10. \A i \in 1..n : Listed[i] = EntryAt(i - 1)
  BY <1>8
<1>11. \A i \in 1..len : i - 1 \in Keys /\ Listed[i] = disk[i - 1]
  BY <1>1, <1>3, <1>4, <1>10 DEF n
<1>12. \A j \in 1..Len(buf) : Listed[len + j] = buf[j]
  <2> SUFFICES ASSUME NEW j \in 1..Len(buf) PROVE Listed[len + j] = buf[j]
    OBVIOUS
  <2>1. len + j \in 1..n /\ (len + j) - 1 = len + j - 1
    BY <1>1 DEF n
  <2> QED BY <1>5, <1>10, <2>1
<1> QED BY <1>9, <1>11, <1>12 DEF ListedIs, n

(* The same after a step.                                                  *)
LEMMA ListedRightNext == (ListInv /\ ~racy)' => ListedIs'
BY ListedRight, PTL

(* A step after which every entry is where it was is a stutter, or counts  *)
(* what was written.                                                       *)
LEMMA SameList ==
  ASSUME ListedIs, ListedIs', len \in Nat, len' \in Nat, Len(buf) \in Nat, Len(buf') \in Nat,
         len' + Len(buf') = len + Len(buf),
         \A i \in 1..(len + Len(buf)) : Listed'[i] = Listed[i]
  PROVE  Listed' = Listed
BY SeqEqual DEF ListedIs

(* A step that leaves the keys below the length and the buffer as they     *)
(* are leaves the list as it is.                                           *)
LEMMA QuietStep ==
  ASSUME ListInv, ListedIs, ListedIs', len' = len, buf' = buf,
         \A k \in 0..(len - 1) : disk'[k] = disk[k]
  PROVE  Listed' = Listed
<1>1. len \in Nat /\ Len(buf) \in Nat
  BY DEF ListInv, TypeOK
<1>2. ASSUME NEW i \in 1..(len + Len(buf)) PROVE Listed'[i] = Listed[i]
  <2>1. CASE i <= len
    <3>1. i \in 1..len /\ i - 1 \in 0..(len - 1)
      BY <1>1, <2>1
    <3>2. Listed[i] = disk[i - 1]
      BY <3>1 DEF ListedIs
    <3>3. Listed'[i] = disk'[i - 1]
      BY <3>1 DEF ListedIs
    <3>4. disk'[i - 1] = disk[i - 1]
      BY <3>1
    <3> QED BY <3>2, <3>3, <3>4
  <2>2. CASE i > len
    <3>1. i - len \in 1..Len(buf) /\ len + (i - len) = i
      BY <1>1, <2>2
    <3>2. Listed[len + (i - len)] = buf[i - len] /\ Listed'[len + (i - len)] = buf[i - len]
      BY <3>1 DEF ListedIs
    <3> QED BY <3>1, <3>2
  <2> QED BY <1>1, <2>1, <2>2
<1> QED BY <1>1, <1>2, SameList

(* The copy on disk is what the keys hold; it has what was counted and     *)
(* what was written of the batch, and no more than the list but for the    *)
(* one entry of an Append to a TxidList.                                   *)
StoredIs ==
  /\ Stored \in Seq(Hashes) /\ Keys = 0..(Len(Stored) - 1)
  /\ Len(Stored) \in (len + written)..(len + Len(buf) + IF Counting THEN 1 ELSE 0)
  /\ kind = "raw" => Len(Stored) = len + IF Counting THEN 1 ELSE 0
  /\ \A i \in 1..Len(Stored) : Stored[i] = disk[i - 1]

(* Unless two Appends overlapped, the keys are such a copy.                *)
LEMMA StoredRight == ListInv /\ ~racy => StoredIs
<1> SUFFICES ASSUME ListInv, ~racy PROVE StoredIs
  OBVIOUS
<1>1. len \in Nat /\ Len(buf) \in Nat /\ written \in Nat
  BY DEF ListInv, TypeOK
<1>2. PICK k \in (len + written)..(len + Len(buf) + IF Counting THEN 1 ELSE 0) :
        Keys = 0..(k - 1) /\ (kind = "raw" => k = len + IF Counting THEN 1 ELSE 0)
  BY DEF ListInv, DiskInv
<1>3. k \in Nat
  BY <1>1, <1>2
<1>4. InitLen(disk) = k
  BY <1>2, <1>3, CountKeys DEF InitLen, Keys
<1>5. \A i \in 1..k : i - 1 \in Keys /\ disk[i - 1] \in Hashes
  BY <1>2, <1>3 DEF ListInv, TypeOK
<1>6. Stored = [i \in 1..k |-> IF i - 1 \in Keys THEN disk[i - 1] ELSE NoHash]
  BY <1>4 DEF Stored
<1>7. Stored \in Seq(Hashes) /\ Len(Stored) = k /\ \A i \in 1..k : Stored[i] = disk[i - 1]
  BY <1>3, <1>5, <1>6
<1> QED BY <1>2, <1>7 DEF StoredIs

(* The same after a step.                                                  *)
LEMMA StoredRightNext == (ListInv /\ ~racy)' => StoredIs'
BY StoredRight, PTL

(* A step that writes nothing leaves the copy as it is.                    *)
LEMMA SameCopy == disk' = disk => Stored' = Stored
BY DEF Stored, InitLen, Keys

(* How many keys there are is known from their set.                        *)
LEMMA SameCount ==
  ASSUME NEW m \in Nat, NEW n \in Nat, 0..(m - 1) = 0..(n - 1)
  PROVE  m = n
BY CountKeys

(* One entry more at the end.                                              *)
LEMMA Longer ==
  ASSUME NEW s \in Seq(Hashes), NEW t \in Seq(Hashes), NEW h \in Hashes, Len(t) = Len(s) + 1,
         \A i \in 1..Len(s) : t[i] = s[i], t[Len(s) + 1] = h
  PROVE  t = Append(s, h)
<1> DEFINE more == Append(s, h)
<1>1. /\ more \in Seq(Hashes) /\ Len(more) = Len(s) + 1
      /\ \A i \in 1..Len(s) : more[i] = s[i]
      /\ more[Len(s) + 1] = h
  BY AppendProperties
<1> HIDE DEF more
<1>2. ASSUME NEW i \in 1..Len(t) PROVE t[i] = more[i]
  <2>1. CASE i = Len(s) + 1
    BY <1>1, <2>1
  <2>2. CASE i # Len(s) + 1
    <3>1. i \in 1..Len(s)
      BY <2>2
    <3> QED BY <1>1, <3>1
  <2> QED BY <2>1, <2>2
<1> QED BY <1>1, <1>2, SeqEqual DEF more

(* One entry changed.                                                      *)
LEMMA Changed ==
  ASSUME NEW s \in Seq(Hashes), NEW t \in Seq(Hashes), NEW i \in 1..Len(s), NEW h \in Hashes,
         Len(t) = Len(s), \A j \in 1..Len(s) : t[j] = IF j = i THEN h ELSE s[j]
  PROVE  t = [s EXCEPT ![i] = h]
<1> DEFINE new == [s EXCEPT ![i] = h]
<1>1. /\ new \in Seq(Hashes) /\ Len(new) = Len(s)
      /\ \A j \in 1..Len(s) : new[j] = IF j = i THEN h ELSE s[j]
  BY ExceptSeq
<1> HIDE DEF new
<1> QED BY <1>1, SeqEqual DEF new

(* A TxidList stores the entry before it is listed ...                     *)
LEMMA PutIsStore ==
  ASSUME ListInv, StoredIs, StoredIs', ListedIs, ListedIs', NEW c \in Clients, AppendPut(c), ~racy
  PROVE  L!SeqNext \/ UNCHANGED L!seqVars
<1> DEFINE h == arg[c].hash
<1>1. /\ pc[c] = "put" /\ len' = len /\ buf' = buf /\ kind' = kind /\ crashes' = crashes
  BY DEF AppendPut
<1>2. /\ kind = "raw" /\ buf = << >> /\ arg[c].index = len /\ len \in Nat /\ h \in Hashes
      /\ \A d \in Clients : pc[d] \in {"put", "count"} => d = c
  BY <1>1, AppendingRaw DEF ListInv, LockInv, TypeOK
<1>3. Len(Listed) = len /\ Len(Stored) = len /\ Keys = 0..(len - 1)
  <2>1. ~Counting
    BY <1>1, <1>2 DEF Counting
  <2> QED BY <1>2, <2>1 DEF StoredIs, ListedIs
<1>4. CASE disk' = disk
  <2>1. Listed' = Listed
    BY <1>1, <1>4, QuietStep
  <2> QED BY <1>1, <1>4, <2>1, SameCopy DEF L!seqVars
<1>5. CASE Put(len, h) /\ Goto(c, "count")
  <2>1. Keys' = Keys \cup {len} /\ disk'[len] = h /\ \A k \in Keys : k # len => disk'[k] = disk[k]
    BY <1>2, <1>5, PutOne
  <2>2. \A k \in 0..(len - 1) : disk'[k] = disk[k]
    BY <1>2, <1>3, <2>1
  <2>3. Listed' = Listed
    BY <1>1, <2>2, QuietStep
  <2>4. Len(Stored') = len + 1
    <3>1. Counting'
      BY <1>5 DEF Counting, Goto, ListInv, TypeOK
    <3> QED BY <1>1, <1>2, <3>1 DEF StoredIs
  <2>5. \A i \in 1..len : Stored'[i] = Stored[i]
    <3> SUFFICES ASSUME NEW i \in 1..len PROVE Stored'[i] = Stored[i]
      OBVIOUS
    <3>1. i - 1 \in 0..(len - 1) /\ i \in 1..Len(Stored) /\ i \in 1..Len(Stored')
      BY <1>2, <1>3, <2>4
    <3> QED BY <2>2, <3>1 DEF StoredIs
  <2>6. Stored'[len + 1] = h
    <3>1. len + 1 \in 1..Len(Stored') /\ (len + 1) - 1 = len
      BY <1>2, <2>4
    <3> QED BY <2>1, <3>1 DEF StoredIs
  <2> HIDE DEF h
  <2>7. Stored' = Append(Stored, h)
    BY <1>2, <1>3, <2>4, <2>5, <2>6, Longer DEF StoredIs
  <2>8. L!StoreEntry(h)
    BY <1>1, <1>3, <2>3, <2>7 DEF L!StoreEntry
  <2> QED BY <1>2, <2>8 DEF L!SeqNext
<1> QED BY <1>1, <1>2, <1>4, <1>5 DEF AppendPut

(* ... and lists it when it is counted.                                    *)
LEMMA CountIsAdd ==
  ASSUME ListInv, StoredIs, ListedIs, ListedIs', NEW c \in Clients, AppendCount(c)
  PROVE  L!SeqNext
<1>1. /\ len \in Nat /\ len' = len + 1 /\ buf' = buf /\ disk' = disk /\ pc[c] = "count"
      /\ kind = "raw" /\ buf = << >> /\ crashes' = crashes
  BY AppendingRaw DEF AppendCount, ListInv, TypeOK, faultVars
<1>2. Len(Stored) = len + 1 /\ Stored \in Seq(Hashes)
  BY <1>1 DEF Counting, StoredIs
<1>3. Len(Listed) = len /\ Len(Listed') = len + 1 /\ Listed' \in Seq(Hashes)
  BY <1>1 DEF ListedIs
<1>4. \A i \in 1..(len + 1) : Listed'[i] = Stored[i]
  BY <1>1, <1>2 DEF ListedIs, StoredIs
<1>5. Listed' = Stored
  BY <1>2, <1>3, <1>4, SeqEqual
<1>6. Stored' = Stored
  BY <1>1, SameCopy
<1> QED BY <1>1, <1>2, <1>3, <1>5, <1>6 DEF L!SeqNext, L!AddStored

(* A buffered one lists the entry when the buffer has it.                  *)
LEMMA BufferIsAdd ==
  ASSUME ListInv, ListedIs, ListedIs', NEW c \in Clients, BufferedAppend(c)
  PROVE  L!SeqNext
<1>1. PICK h \in Hashes : buf' = Append(buf, h)
  BY DEF BufferedAppend
<1>2. /\ len' = len /\ disk' = disk /\ crashes' = crashes
      /\ len \in Nat /\ buf \in Seq(Hashes) /\ Len(buf) \in Nat
  BY DEF BufferedAppend, faultVars, ListInv, TypeOK
<1>3. /\ Len(buf') = Len(buf) + 1 /\ buf'[Len(buf) + 1] = h
      /\ \A j \in 1..Len(buf) : buf'[j] = buf[j]
  BY <1>1, <1>2, AppendProperties
<1>4. Len(Listed) = len + Len(buf) /\ Len(Listed') = len + Len(buf) + 1
  BY <1>1, <1>2, <1>3 DEF ListedIs
<1>5. ASSUME NEW i \in 1..(len + Len(buf)) PROVE Listed'[i] = Listed[i]
  <2>1. CASE i <= len
    BY <1>1, <1>2, <2>1 DEF ListedIs
  <2>2. CASE i > len
    <3>1. i - len \in 1..Len(buf) /\ i - len \in 1..Len(buf') /\ len + (i - len) = i
      BY <1>2, <1>3, <2>2
    <3>2. Listed[len + (i - len)] = buf[i - len] /\ Listed'[len + (i - len)] = buf'[i - len]
      BY <1>2, <3>1 DEF ListedIs
    <3> QED BY <1>3, <3>1, <3>2
  <2> QED BY <1>2, <2>1, <2>2
<1>6. Listed'[len + Len(buf) + 1] = h
  <2>1. Len(buf) + 1 \in 1..Len(buf') /\ len + (Len(buf) + 1) = len + Len(buf) + 1
    BY <1>2, <1>3
  <2>2. Listed'[len + (Len(buf) + 1)] = buf'[Len(buf) + 1]
    BY <1>2, <2>1 DEF ListedIs
  <2> QED BY <1>3, <2>1, <2>2
<1>7. Listed' = Append(Listed, h)
  BY <1>4, <1>5, <1>6, Longer DEF ListedIs
<1>8. Stored' = Stored
  BY <1>2, SameCopy
<1> QED BY <1>2, <1>7, <1>8 DEF L!SeqNext, L!AddEntry

(* A batch copies the entries of the list that are not counted yet, each   *)
(* to its place, the first time or again.                                  *)
LEMMA WriteIsStore ==
  ASSUME ListInv, StoredIs, StoredIs', ListedIs, ListedIs', NEW c \in Clients, FlushWrite(c)
  PROVE  L!SeqNext
<1> DEFINE i == len + written + 1
           h == buf[written + 1]
<1>1. /\ written < Len(buf) /\ Put(len + written, h) /\ len' = len /\ buf' = buf
      /\ crashes' = crashes
  BY DEF FlushWrite, faultVars
<1>2. len \in Nat /\ written \in Nat /\ Len(buf) \in Nat /\ h \in Hashes
  BY <1>1 DEF ListInv, TypeOK
<1>3. /\ Keys' = Keys \cup {len + written} /\ disk'[len + written] = h
      /\ \A k \in Keys : k # len + written => disk'[k] = disk[k]
  <2> HIDE DEF h
  <2>1. len + written \in Nat
    BY <1>2
  <2> QED BY <1>1, <1>2, <2>1, PutOne
<1>4. /\ Stored \in Seq(Hashes) /\ Stored' \in Seq(Hashes)
      /\ Len(Stored) \in Nat /\ Len(Stored') \in Nat
      /\ Len(Stored) >= len + written
      /\ Keys = 0..(Len(Stored) - 1) /\ Keys' = 0..(Len(Stored') - 1)
  BY <1>2 DEF StoredIs
<1>5. Listed' = Listed
  <2>1. \A k \in 0..(len - 1) : disk'[k] = disk[k]
    BY <1>2, <1>3, <1>4
  <2> QED BY <1>1, <2>1, QuietStep
<1>6. /\ i \in DOMAIN Listed /\ Listed[i] = h /\ i > len /\ i <= Len(Listed) /\ i - 1 = len + written
  <2>1. written + 1 \in 1..Len(buf) /\ len + (written + 1) = i
    BY <1>1, <1>2
  <2>2. Listed[len + (written + 1)] = h /\ Len(Listed) = len + Len(buf) /\ Listed \in Seq(Hashes)
    BY <2>1 DEF ListedIs
  <2>3. i \in 1..Len(Listed)
    BY <1>1, <1>2, <2>2
  <2> QED BY <1>2, <2>1, <2>2, <2>3
<1> HIDE DEF i, h
<1>7. \A j \in 1..Len(Stored') : Stored'[j] = IF j = i THEN h ELSE Stored[j]
  <2> SUFFICES ASSUME NEW j \in 1..Len(Stored')
               PROVE  Stored'[j] = IF j = i THEN h ELSE Stored[j]
    OBVIOUS
  <2>1. Stored'[j] = disk'[j - 1] /\ j - 1 \in Keys'
    BY <1>4 DEF StoredIs
  <2>2. CASE j = i
    BY <1>3, <1>6, <2>1, <2>2
  <2>3. CASE j # i
    <3>1. j - 1 # len + written
      BY <1>2, <2>3 DEF i
    <3>2. j - 1 \in Keys /\ disk'[j - 1] = disk[j - 1]
      BY <1>3, <2>1, <3>1
    <3>3. j \in 1..Len(Stored)
      BY <1>4, <3>2
    <3> QED BY <2>1, <2>3, <3>2, <3>3 DEF StoredIs
  <2> QED BY <2>2, <2>3
<1>8. \/ i = Len(Stored) + 1 /\ Stored' = Append(Stored, h)
      \/ i <= Len(Stored)    /\ Stored' = [Stored EXCEPT ![i] = h]
  <2>1. CASE Len(Stored) = len + written
    <3>1. Keys' = 0..((Len(Stored) + 1) - 1)
      BY <1>3, <1>4, <2>1, NextKey
    <3>2. Len(Stored') = Len(Stored) + 1 /\ i = Len(Stored) + 1
      BY <1>2, <1>4, <2>1, <3>1, SameCount DEF i
    <3>3. Stored'[Len(Stored) + 1] = h /\ \A j \in 1..Len(Stored) : Stored'[j] = Stored[j]
      BY <1>4, <1>7, <3>2
    <3> QED BY <1>2, <1>4, <3>2, <3>3, Longer
  <2>2. CASE Len(Stored) # len + written
    <3>1. i \in 1..Len(Stored) /\ len + written \in Keys
      BY <1>2, <1>4, <2>2 DEF i
    <3>2. Len(Stored') = Len(Stored)
      BY <1>3, <1>4, <3>1, SameCount
    <3>3. Stored' = [Stored EXCEPT ![i] = h]
      BY <1>2, <1>4, <1>7, <3>1, <3>2, Changed
    <3> QED BY <3>1, <3>3
  <2> QED BY <2>1, <2>2
<1>9. L!Store(i)
  BY <1>1, <1>5, <1>6, <1>8 DEF L!Store
<1> QED BY <1>6, <1>9 DEF L!SeqNext

(* A Set overwrites one entry: in the buffer ...                           *)
LEMMA BufferedSetStep ==
  ASSUME ListInv, ListedIs, ListedIs', NEW c \in Clients, BufferedSet(c)
  PROVE  L!SeqNext \/ UNCHANGED L!seqVars
<1>1. PICK i \in -1..MaxLen, h \in Hashes :
        IF InBuffer(i) THEN buf' = [buf EXCEPT ![i - len + 1] = h] ELSE buf' = buf
  BY DEF BufferedSet
<1>2. len \in Nat /\ buf \in Seq(Hashes) /\ Len(buf) \in Nat /\ i \in Int
  BY ListAssumption DEF ListInv, TypeOK
<1>3. len' = len /\ disk' = disk /\ crashes' = crashes /\ Stored' = Stored
  BY SameCopy DEF BufferedSet, faultVars
<1>4. CASE ~InBuffer(i)
  <2>1. Listed' = Listed
    BY <1>1, <1>3, <1>4, QuietStep
  <2> QED BY <1>3, <2>1 DEF L!seqVars
<1>5. CASE InBuffer(i)
  <2>1. i - len + 1 \in 1..Len(buf) /\ i + 1 = len + (i - len + 1)
    BY <1>2, <1>5 DEF InBuffer
  <2>2. /\ Len(buf') = Len(buf)
        /\ \A j \in 1..Len(buf) : buf'[j] = IF j = i - len + 1 THEN h ELSE buf[j]
    BY <1>1, <1>2, <1>5, <2>1, ExceptSeq
  <2>3. Len(Listed) = len + Len(buf) /\ Len(Listed') = len + Len(buf)
    BY <1>3, <2>2 DEF ListedIs
  <2>4. ASSUME NEW k \in 1..(len + Len(buf)) PROVE Listed'[k] = IF k = i + 1 THEN h ELSE Listed[k]
    <3>1. CASE k <= len
      <4>1. k \in 1..len /\ k # i + 1
        BY <1>2, <2>1, <3>1
      <4> QED BY <1>3, <4>1 DEF ListedIs
    <3>2. CASE k > len
      <4>1. k - len \in 1..Len(buf) /\ len + (k - len) = k /\ (k = i + 1 <=> k - len = i - len + 1)
        BY <1>2, <3>2
      <4>2. Listed[len + (k - len)] = buf[k - len] /\ Listed'[len + (k - len)] = buf'[k - len]
        BY <1>3, <2>2, <4>1 DEF ListedIs
      <4> QED BY <2>2, <4>1, <4>2
    <3> QED BY <1>2, <3>1, <3>2
  <2>5. i + 1 \in 1..Len(Listed) /\ ~(i + 1 <= len)
    BY <1>2, <2>1, <2>3
  <2>6. Listed' = [Listed EXCEPT ![i + 1] = h]
    <3>1. PICK n \in 1..Len(Listed) : n = i + 1
      BY <2>5
    <3>2. Listed \in Seq(Hashes) /\ Listed' \in Seq(Hashes) /\ Len(Listed') = Len(Listed)
      BY <2>3 DEF ListedIs
    <3>3. h \in Hashes /\ \A j \in 1..Len(Listed) : Listed'[j] = IF j = n THEN h ELSE Listed[j]
      BY <1>2, <2>3, <2>4, <3>1
    <3>4. Listed' = [Listed EXCEPT ![n] = h]
      BY <3>2, <3>3, Changed
    <3> QED BY <3>1, <3>4
  <2>7. L!Overwrite(i + 1, h)
    BY <1>3, <2>5, <2>6 DEF L!Overwrite, ListedIs
  <2> QED BY <2>5, <2>7 DEF L!SeqNext, ListedIs
<1> QED BY <1>4, <1>5

(* ... or on disk; if the write fails, none.                               *)
LEMMA SetUpdateStep ==
  ASSUME ListInv, StoredIs, StoredIs', ListedIs, ListedIs', NEW c \in Clients, SetUpdate(c)
  PROVE  L!SeqNext \/ UNCHANGED L!seqVars
<1> DEFINE i == arg[c].index
           h == arg[c].hash
<1>1. len' = len /\ buf' = buf /\ crashes' = crashes /\ (Put(i, h) \/ disk' = disk)
  BY DEF SetUpdate
<1>2. i \in Nat /\ i < len /\ h \in Hashes /\ len \in Nat /\ Len(buf) \in Nat /\ written \in Nat
  BY DEF SetUpdate, ListInv, LockInv, InRange, TypeOK, ArgType
<1>3. CASE disk' = disk
  <2>1. Listed' = Listed
    BY <1>1, <1>3, QuietStep
  <2> QED BY <1>1, <1>3, <2>1, SameCopy DEF L!seqVars
<1>4. CASE Put(i, h)
  <2>1. Keys' = Keys \cup {i} /\ disk'[i] = h /\ \A k \in Keys : k # i => disk'[k] = disk[k]
    BY <1>2, <1>4, PutOne
  <2>2. Len(Listed) = len + Len(buf) /\ Len(Listed') = len + Len(buf)
    BY <1>1 DEF ListedIs
  <2>3. ASSUME NEW k \in 1..(len + Len(buf)) PROVE Listed'[k] = IF k = i + 1 THEN h ELSE Listed[k]
    <3>1. CASE k <= len
      <4>1. k \in 1..len /\ (k = i + 1 <=> k - 1 = i)
        BY <1>2, <3>1
      <4>2. k - 1 \in Keys /\ Listed[k] = disk[k - 1] /\ Listed'[k] = disk'[k - 1]
        BY <1>1, <4>1 DEF ListedIs
      <4> QED BY <2>1, <4>1, <4>2
    <3>2. CASE k > len
      <4>1. k - len \in 1..Len(buf) /\ len + (k - len) = k /\ k # i + 1
        BY <1>2, <3>2
      <4>2. Listed[len + (k - len)] = buf[k - len] /\ Listed'[len + (k - len)] = buf[k - len]
        BY <1>1, <4>1 DEF ListedIs
      <4> QED BY <4>1, <4>2
    <3> QED BY <1>2, <3>1, <3>2
  <2>4. i + 1 \in 1..Len(Listed) /\ i + 1 <= len
    BY <1>2, <2>2
  <2> HIDE DEF i, h
  <2>5. Listed' = [Listed EXCEPT ![i + 1] = h]
    <3>1. PICK n \in 1..Len(Listed) : n = i + 1
      BY <2>4
    <3>2. Listed \in Seq(Hashes) /\ Listed' \in Seq(Hashes) /\ Len(Listed') = Len(Listed)
      BY <2>2 DEF ListedIs
    <3>3. h \in Hashes /\ \A j \in 1..Len(Listed) : Listed'[j] = IF j = n THEN h ELSE Listed[j]
      BY <1>2, <2>2, <2>3, <3>1
    <3>4. Listed' = [Listed EXCEPT ![n] = h]
      BY <3>2, <3>3, Changed
    <3> QED BY <3>1, <3>4
  <2>6. /\ Stored \in Seq(Hashes) /\ Stored' \in Seq(Hashes)
        /\ Len(Stored) \in Nat /\ Len(Stored') \in Nat /\ Len(Stored) >= len
        /\ Keys = 0..(Len(Stored) - 1) /\ Keys' = 0..(Len(Stored') - 1)
    BY <1>2 DEF StoredIs
  <2>7. i + 1 \in 1..Len(Stored) /\ i \in Keys
    BY <1>2, <2>6
  <2>8. Len(Stored') = Len(Stored)
    BY <2>1, <2>6, <2>7, SameCount
  <2>9. \A j \in 1..Len(Stored) : Stored'[j] = IF j = i + 1 THEN h ELSE Stored[j]
    <3> SUFFICES ASSUME NEW j \in 1..Len(Stored)
                 PROVE  Stored'[j] = IF j = i + 1 THEN h ELSE Stored[j]
      OBVIOUS
    <3>1. j - 1 \in Keys /\ (j = i + 1 <=> j - 1 = i)
      BY <1>2, <2>6
    <3>2. Stored[j] = disk[j - 1] /\ Stored'[j] = disk'[j - 1]
      BY <2>8 DEF StoredIs
    <3> QED BY <2>1, <3>1, <3>2
  <2>10. Stored' = [Stored EXCEPT ![i + 1] = h]
    <3>1. PICK n \in 1..Len(Stored) : n = i + 1
      BY <2>7
    <3>2. h \in Hashes /\ \A j \in 1..Len(Stored) : Stored'[j] = IF j = n THEN h ELSE Stored[j]
      BY <1>2, <2>9, <3>1
    <3>3. Stored' = [Stored EXCEPT ![n] = h]
      BY <2>6, <2>8, <3>2, Changed
    <3> QED BY <3>1, <3>3
  <2>11. L!Overwrite(i + 1, h)
    BY <1>1, <2>4, <2>5, <2>10 DEF L!Overwrite, ListedIs
  <2> QED BY <1>2, <2>4, <2>11 DEF L!SeqNext, ListedIs
<1> QED BY <1>1, <1>3, <1>4

(* A batch that is counted is the whole list, copied: it is hardened.      *)
LEMMA CommitIsHarden ==
  ASSUME ListInv, BatchInv, StoredIs, ListedIs, ListedIs', NEW c \in Clients, FlushCommit(c)
  PROVE  L!SeqNext
<1>1. /\ len \in Nat /\ Len(buf) \in Nat /\ written = Len(buf) /\ crashes' = crashes
      /\ disk' = disk /\ len' = len + Len(buf) /\ buf' = << >> /\ Len(buf') = 0
  BY DEF FlushCommit, faultVars, ListInv, TypeOK
<1>2. ~Counting
  <2>1. holder = c /\ c # NoClient
    BY ListAssumption DEF FlushCommit, ListInv, OneFlusher
  <2> QED BY <2>1, AppendingRaw DEF Counting
<1>3. Len(Listed) = len + Len(buf) /\ Len(Stored) = len + Len(buf)
  BY <1>1, <1>2 DEF ListedIs, StoredIs
<1>4. ASSUME NEW k \in 1..(len + Len(buf)) PROVE Listed[k] = disk[k - 1]
  <2>1. CASE k <= len
    BY <1>1, <2>1 DEF ListedIs
  <2>2. CASE k > len
    <3>1. k - len \in 1..Len(buf) /\ len + (k - len) = k /\ len + (k - len) - 1 = k - 1
      BY <1>1, <2>2
    <3>2. Listed[len + (k - len)] = buf[k - len] /\ disk[len + (k - len) - 1] = buf[k - len]
      BY <1>1, <3>1 DEF ListedIs, BatchInv
    <3> QED BY <3>1, <3>2
  <2> QED BY <1>1, <2>1, <2>2
<1>5. Listed = Stored
  BY <1>3, <1>4, SeqEqual DEF ListedIs, StoredIs
<1>6. \A k \in 1..(len + Len(buf)) : Listed'[k] = Listed[k]
  BY <1>1, <1>4 DEF ListedIs
<1>7. len' \in Nat /\ Len(buf') \in Nat /\ len' + Len(buf') = len + Len(buf)
  BY <1>1
<1>8. Listed' = Listed
  BY <1>1, <1>6, <1>7, SameList
<1>9. Stored' = Stored
  BY <1>1, SameCopy
<1> QED BY <1>1, <1>3, <1>5, <1>8, <1>9 DEF L!SeqNext, L!Harden

(* A kill leaves what was counted, and of the rest what was copied.        *)
LEMMA CrashIsCrash ==
  ASSUME ListInv, StoredIs, ListedIs, ListedIs', CrashAndReopen
  PROVE  L!SeqNext
<1>1. /\ len \in Nat /\ Len(buf) \in Nat /\ written \in Nat /\ crashes' = crashes + 1
      /\ disk' = disk /\ len' = Cardinality(Keys) /\ buf' = << >> /\ Len(buf') = 0
  BY DEF CrashAndReopen, Reopen, InitLen, Keys, ListInv, TypeOK
<1>2. /\ Stored \in Seq(Hashes) /\ Len(Stored) \in Nat /\ Len(Stored) >= len
      /\ Keys = 0..(Len(Stored) - 1)
  BY <1>1 DEF StoredIs
<1>3. len' = Len(Stored)
  BY <1>1, <1>2, CountKeys
<1>4. Len(Listed') = Len(Stored) /\ \A i \in 1..Len(Stored) : Listed'[i] = Stored[i]
  BY <1>1, <1>2, <1>3 DEF ListedIs, StoredIs
<1>5. Listed' = Stored
  BY <1>2, <1>4, SeqEqual DEF ListedIs
<1>6. \A i \in 1..len : Listed'[i] = Listed[i]
  <2> SUFFICES ASSUME NEW i \in 1..len PROVE Listed'[i] = Listed[i]
    OBVIOUS
  <2>1. i \in 1..len'
    BY <1>1, <1>2, <1>3
  <2> QED BY <1>1, <2>1 DEF ListedIs
<1>7. Stored' = Stored
  BY <1>1, SameCopy
<1> QED BY <1>1, <1>3, <1>5, <1>6, <1>7 DEF L!SeqNext, L!CrashAndOpen

(* Every step is one of the sequence's, or a stutter, as long as no two    *)
(* Appends to a TxidList have overlapped.                                  *)
LEMMA SeqStep ==
  ListInv /\ ListInv' /\ BatchInv /\ [Next]_vars => [racy' \/ L!SeqNext]_(L!seqVars)
<1> SUFFICES ASSUME ListInv, ListInv', BatchInv, [Next]_vars, ~racy'
             PROVE  L!SeqNext \/ UNCHANGED L!seqVars
  OBVIOUS
<1>1. ~racy
  BY DEF Next, Call, InternalStep, AppendLoad, BufferedAppend, Flush, BufferedGet, RawGet, BufferedSet,
         RawSet, Slice, AppendPut, AppendCount, FlushWrite, FlushCommit, FlushFail, GetCheck, GetView,
         SetCheck, SetUpdate, SliceClamp, SliceScan, CrashAndReopen, vars, faultVars
<1>2. ListedIs /\ ListedIs' /\ StoredIs /\ StoredIs'
  BY <1>1, ListedRight, ListedRightNext, StoredRight, StoredRightNext
<1>3. UNCHANGED <<disk, len, buf, crashes>> => UNCHANGED L!seqVars
  <2> SUFFICES ASSUME UNCHANGED <<disk, len, buf, crashes>> PROVE UNCHANGED L!seqVars
    OBVIOUS
  <2>1. Listed' = Listed
    BY <1>2, QuietStep
  <2> QED BY <2>1, SameCopy DEF L!seqVars
<1>4. ASSUME NEW c \in Clients, Call(c) PROVE L!SeqNext \/ UNCHANGED L!seqVars
  <2>1. CASE AppendLoad(c) \/ Flush(c) \/ BufferedGet(c) \/ RawGet(c) \/ RawSet(c) \/ Slice(c)
    BY <1>3, <2>1 DEF AppendLoad, Flush, BufferedGet, RawGet, RawSet, Slice, listVars, faultVars
  <2> QED BY <1>2, <1>4, <2>1, BufferIsAdd, BufferedSetStep DEF Call
<1>5. ASSUME NEW c \in Clients, InternalStep(c) PROVE L!SeqNext \/ UNCHANGED L!seqVars
  <2>1. CASE FlushFail(c) \/ GetCheck(c) \/ GetView(c) \/ SetCheck(c) \/ SliceClamp(c) \/ SliceScan(c)
    BY <1>3, <2>1
       DEF FlushFail, GetCheck, GetView, SetCheck, SliceClamp, SliceScan, listVars, faultVars
  <2> QED BY <1>1, <1>2, <1>5, <2>1, PutIsStore, WriteIsStore, CountIsAdd, CommitIsHarden,
             SetUpdateStep
          DEF InternalStep
<1>6. CASE CrashAndReopen
  BY <1>2, <1>6, CrashIsCrash
<1>7. CASE UNCHANGED vars
  BY <1>3, <1>7 DEF vars, listVars, faultVars
<1> QED BY <1>4, <1>5, <1>6, <1>7 DEF Next

(* As long as no two Appends to a TxidList overlap, the two lists          *)
(* implement one sequence with a copy on disk, whatever fails: no entry is *)
(* moved, lost or changed but by a Set, except that a kill takes away what *)
(* was not on disk, and brings back what was there.                        *)
THEOREM ImplementsSeqHolds == Spec => ImplementsSeq
<1>1. Init => L!SeqInit /\ BatchInv
  <2> SUFFICES ASSUME Init PROVE L!SeqInit /\ BatchInv
    OBVIOUS
  <2>1. len = 0 /\ Len(buf) = 0 /\ written = 0 /\ InitLen(disk) = 0 /\ crashes = 0
    BY FS_EmptySet DEF Init, InitLen
  <2>2. Listed = << >> /\ Stored = << >>
    BY <2>1 DEF Listed, Stored
  <2> QED BY <2>1, <2>2 DEF L!SeqInit, BatchInv
<1>2. Spec => []BatchInv
  BY <1>1, ListInvHolds, BatchStep, PTL DEF Spec
<1>3. Spec => [][racy' \/ L!SeqNext]_(L!seqVars)
  BY <1>2, ListInvHolds, SeqStep, PTL DEF Spec
<1> QED BY <1>1, <1>3, PTL DEF Spec, ImplementsSeq
=============================================================================
