------------------------------ MODULE TxidList ------------------------------
(***************************************************************************)
(* The list of txids kept on disk (internal/diskstore/txid_list.go), used  *)
(* by several goroutines: TxidList, which writes every entry in a          *)
(* transaction of its own, and BufferedTxidList, which collects entries    *)
(* under a mutex and writes them in batches, over a TxidList.              *)
(*                                                                         *)
(* A batch reaches the disk in one or more transactions: a failure or a    *)
(* kill may leave any prefix of it written.                                *)
(***************************************************************************)
EXTENDS Integers, Sequences, FiniteSets

CONSTANTS
  Clients,      \* goroutines that use the list
  NoClient,
  Hashes,
  NoHash,
  Kinds,        \* "raw" for a TxidList, "buffered" for a BufferedTxidList
  BufSizes,     \* values of the argument bufSize
  Windows,      \* <<start, end>>: arguments of Slice
  MaxLen,       \* bound: entries
  MaxFailures,  \* bound: writes and reads that fail
  MaxCrashes    \* bound: kills of the process

ASSUME ListAssumption ==
  /\ NoClient \notin Clients /\ NoHash \notin Hashes
  /\ Kinds \subseteq {"raw", "buffered"}
  /\ BufSizes \subseteq Int
  /\ Windows \subseteq Int \X Int
  /\ MaxLen \in Nat /\ MaxFailures \in Nat /\ MaxCrashes \in Nat

NoAnswer == [op |-> "none"]

VARIABLES
  kind,
  bufSize,
  disk,      \* the entries on disk, by index
  len,       \* TxidList.len
  buf,       \* BufferedTxidList.buf
  holder,    \* who holds BufferedTxidList.mu across steps
  written,   \* entries of buf the holder has written
  pc,        \* where client c is in its call
  arg,       \* arg[c]: what c was given, and what it has loaded
  seen,      \* history: what the entry c's Get asks for was since it began
  answer,    \* the answer given in the last step
  racy,      \* history: two Appends to a TxidList have overlapped
  failures,
  crashes

listVars  == <<disk, len, buf, bufSize, kind>>
lockVars  == <<holder, written>>
callVars  == <<pc, arg>>
faultVars == <<racy, failures, crashes>>
vars      == <<listVars, lockVars, callVars, seen, answer, faultVars>>

(* makeKey and compareKeys order keys by index, big-endian.                *)
Keys == DOMAIN disk

Put(i, h) == disk' = [k \in Keys \cup {i} |-> IF k = i THEN h ELSE disk[k]]

(* initLen                                                                 *)
InitLen(d) == Cardinality(DOMAIN d)

BufSize(n) == IF n <= 0 THEN 1000 ELSE n

InBuffer(i) == i >= len /\ i < len + Len(buf)

InRange(i) == i >= 0 /\ i < len

(* The entry at index i as a caller sees it; NoHash where there is none.   *)
EntryAt(i) ==
  IF InBuffer(i) THEN buf[i - len + 1]
  ELSE IF InRange(i) /\ i \in Keys THEN disk[i]
  ELSE NoHash

Idle(c) == pc[c] = "idle"

EntryArg(i, h) == [index |-> i, hash |-> h, window |-> <<0, 0>>, total |-> 0]

(* total is history: the entries a Slice has to see.                       *)
WindowArg(w, n) == [index |-> 0, hash |-> NoHash, window |-> w, total |-> n]

NoArg == EntryArg(0, NoHash)

Begin(c, step, a) == pc' = [pc EXCEPT ![c] = step] /\ arg' = [arg EXCEPT ![c] = a]
Goto(c, step)     == pc' = [pc EXCEPT ![c] = step] /\ UNCHANGED arg
Return(c)         == Begin(c, "idle", NoArg)

NoReply == answer' = NoAnswer

Fails == failures < MaxFailures /\ failures' = failures + 1

Appending == {c \in Clients : pc[c] \in {"put", "count"}}

Room == len + Len(buf) + Cardinality(Appending) < MaxLen

Init ==
  /\ kind \in Kinds
  /\ \E n \in BufSizes : bufSize = BufSize(n)
  /\ disk = << >>
  /\ len = InitLen(disk)
  /\ buf = << >>
  /\ holder = NoClient
  /\ written = 0
  /\ pc = [c \in Clients |-> "idle"]
  /\ arg = [c \in Clients |-> NoArg]
  /\ seen = [c \in Clients |-> {}]
  /\ answer = NoAnswer
  /\ racy = FALSE
  /\ failures = 0
  /\ crashes = 0

-----------------------------------------------------------------------------
(* TxidList.Append: the length is loaded, ...                              *)
AppendLoad(c) ==
  /\ kind = "raw" /\ Idle(c) /\ Room
  /\ \E h \in Hashes : Begin(c, "put", EntryArg(len, h))
  /\ racy' = (racy \/ Appending # {})
  /\ NoReply
  /\ UNCHANGED <<listVars, lockVars, failures, crashes>>

(* ... the entry is written under that index, ...                          *)
AppendPut(c) ==
  /\ pc[c] = "put"
  /\ \/ Put(arg[c].index, arg[c].hash) /\ Goto(c, "count") /\ UNCHANGED failures
     \/ Fails /\ Return(c) /\ UNCHANGED disk
  /\ NoReply
  /\ UNCHANGED <<len, buf, bufSize, kind, lockVars, racy, crashes>>

(* ... and one is added to the length.                                     *)
AppendCount(c) ==
  /\ pc[c] = "count"
  /\ len' = len + 1
  /\ Return(c)
  /\ NoReply
  /\ UNCHANGED <<disk, buf, bufSize, kind, lockVars, faultVars>>

-----------------------------------------------------------------------------
(* A mutant of BufferedAppend: the mutex is released before the flush.     *)
BufferedAppend_EarlyUnlock(c) ==
  /\ kind = "buffered" /\ Idle(c) /\ Room
  /\ holder = NoClient
  /\ \E h \in Hashes : buf' = Append(buf, h)
  /\ IF Len(buf') >= bufSize THEN Goto(c, "flush") ELSE UNCHANGED callVars
  /\ NoReply
  /\ UNCHANGED <<disk, len, bufSize, kind, lockVars, faultVars>>

(* BufferedTxidList.Append: the mutex is kept when the buffer is full.     *)
BufferedAppend(c) ==
  /\ kind = "buffered" /\ Idle(c) /\ Room
  /\ holder = NoClient
  /\ \E h \in Hashes : buf' = Append(buf, h)
  /\ IF Len(buf') >= bufSize
       THEN holder' = c /\ Goto(c, "flush")
       ELSE UNCHANGED <<holder, callVars>>
  /\ NoReply
  /\ UNCHANGED <<disk, len, bufSize, kind, written, faultVars>>

Flush(c) ==
  /\ kind = "buffered" /\ Idle(c) /\ buf # << >>
  /\ holder = NoClient
  /\ holder' = c
  /\ Goto(c, "flush")
  /\ NoReply
  /\ UNCHANGED <<listVars, written, faultVars>>

Flushing(c) == pc[c] \in {"flush", "sliceFlush"}

(* A mutant of FlushWrite: one value slice is shared by all entries of the *)
(* batch, so each of them is written as the last.                          *)
FlushWrite_SharedValue(c) ==
  /\ Flushing(c)
  /\ written < Len(buf)
  /\ Put(len + written, buf[Len(buf)])
  /\ written' = written + 1
  /\ NoReply
  /\ UNCHANGED <<len, buf, bufSize, kind, holder, callVars, faultVars>>

(* A mutant of FlushWrite: the batch is begun anew after every entry.      *)
FlushWrite_Anew(c) ==
  /\ Flushing(c)
  /\ written < Len(buf)
  /\ Put(len + written, buf[written + 1])
  /\ written' = 0
  /\ NoReply
  /\ UNCHANGED <<len, buf, bufSize, kind, holder, callVars, faultVars>>

(* flushLocked: the batch is written from the length on, ...               *)
FlushWrite(c) ==
  /\ Flushing(c)
  /\ written < Len(buf)
  /\ Put(len + written, buf[written + 1])
  /\ written' = written + 1
  /\ NoReply
  /\ UNCHANGED <<len, buf, bufSize, kind, holder, callVars, faultVars>>

Flushed(c) == IF pc[c] = "flush" THEN Return(c) ELSE Goto(c, "length")

(* ... then counted, and the buffer is emptied.                            *)
FlushCommit(c) ==
  /\ Flushing(c)
  /\ written = Len(buf)
  /\ len' = len + Len(buf)
  /\ buf' = << >>
  /\ written' = 0
  /\ holder' = NoClient
  /\ Flushed(c)
  /\ NoReply
  /\ UNCHANGED <<disk, bufSize, kind, faultVars>>

(* A mutant of FlushFail: the buffer is emptied all the same.              *)
FlushFail_Emptied(c) ==
  /\ Flushing(c)
  /\ Fails
  /\ buf' = << >>
  /\ written' = 0
  /\ holder' = NoClient
  /\ IF pc[c] = "flush" THEN Return(c) ELSE Begin(c, "length", [arg[c] EXCEPT !.total = 0])
  /\ NoReply
  /\ UNCHANGED <<disk, len, bufSize, kind, racy, crashes>>

(* A batch that fails stays in the buffer; Append and Flush return the     *)
(* error, Slice ignores it.                                                *)
FlushFail(c) ==
  /\ Flushing(c)
  /\ Fails
  /\ written' = 0
  /\ holder' = NoClient
  /\ IF pc[c] = "flush" THEN Return(c) ELSE Begin(c, "length", [arg[c] EXCEPT !.total = 0])
  /\ NoReply
  /\ UNCHANGED <<listVars, racy, crashes>>

-----------------------------------------------------------------------------
(* A mutant of BufferedGet: the buffer is not looked at.                   *)
BufferedGet_NoBuffer(c) ==
  /\ kind = "buffered" /\ Idle(c)
  /\ holder = NoClient
  /\ \E i \in -1..MaxLen : Begin(c, "getCheck", EntryArg(i, NoHash))
  /\ NoReply
  /\ UNCHANGED <<listVars, lockVars, faultVars>>

(* BufferedTxidList.Get answers from the buffer under the mutex, or goes   *)
(* on to TxidList.Get without it.                                          *)
BufferedGet(c) ==
  /\ kind = "buffered" /\ Idle(c)
  /\ holder = NoClient
  /\ \E i \in -1..MaxLen :
       IF InBuffer(i)
         THEN /\ answer' = [op |-> "get", value |-> buf[i - len + 1], could |-> {EntryAt(i)}]
              /\ UNCHANGED callVars
         ELSE NoReply /\ Begin(c, "getCheck", EntryArg(i, NoHash))
  /\ UNCHANGED <<listVars, lockVars, faultVars>>

RawGet(c) ==
  /\ kind = "raw" /\ Idle(c)
  /\ \E i \in -1..MaxLen : Begin(c, "getCheck", EntryArg(i, NoHash))
  /\ NoReply
  /\ UNCHANGED <<listVars, lockVars, faultVars>>

(* TxidList.Get: the length is checked, ...                                *)
GetCheck(c) ==
  /\ pc[c] = "getCheck"
  /\ IF InRange(arg[c].index)
       THEN Goto(c, "view") /\ answer' = NoAnswer
       ELSE /\ Return(c)
            /\ answer' = [op |-> "get", value |-> NoHash, could |-> seen[c]]
  /\ UNCHANGED <<listVars, lockVars, faultVars>>

(* ... then the key is read; one that is missing is an error and a miss,   *)
(* and so is a read that fails.                                            *)
GetView(c) ==
  /\ pc[c] = "view"
  /\ \/ /\ answer' = [op    |-> "get",
                      value |-> IF arg[c].index \in Keys THEN disk[arg[c].index] ELSE NoHash,
                      could |-> seen[c]]
        /\ UNCHANGED failures
     \/ /\ Fails
        /\ answer' = [op |-> "get", value |-> NoHash, could |-> seen[c] \cup {NoHash}]
  /\ Return(c)
  /\ UNCHANGED <<listVars, lockVars, racy, crashes>>

-----------------------------------------------------------------------------
BufferedSet(c) ==
  /\ kind = "buffered" /\ Idle(c)
  /\ holder = NoClient
  /\ \E i \in -1..MaxLen, h \in Hashes :
       IF InBuffer(i)
         THEN buf' = [buf EXCEPT ![i - len + 1] = h] /\ UNCHANGED callVars
         ELSE Begin(c, "setCheck", EntryArg(i, h)) /\ UNCHANGED buf
  /\ NoReply
  /\ UNCHANGED <<disk, len, bufSize, kind, lockVars, faultVars>>

RawSet(c) ==
  /\ kind = "raw" /\ Idle(c)
  /\ \E i \in -1..MaxLen, h \in Hashes :
       Begin(c, "setCheck", EntryArg(i, h))
  /\ NoReply
  /\ UNCHANGED <<listVars, lockVars, faultVars>>

(* A mutant of SetCheck: an index one past the end passes.                 *)
SetCheck_PastEnd(c) ==
  /\ pc[c] = "setCheck"
  /\ IF arg[c].index >= 0 /\ arg[c].index <= len THEN Goto(c, "update") ELSE Return(c)
  /\ NoReply
  /\ UNCHANGED <<listVars, lockVars, faultVars>>

(* TxidList.Set: an index out of range is an error.                        *)
SetCheck(c) ==
  /\ pc[c] = "setCheck"
  /\ IF InRange(arg[c].index) THEN Goto(c, "update") ELSE Return(c)
  /\ NoReply
  /\ UNCHANGED <<listVars, lockVars, faultVars>>

SetUpdate(c) ==
  /\ pc[c] = "update"
  /\ \/ Put(arg[c].index, arg[c].hash) /\ UNCHANGED failures
     \/ Fails /\ UNCHANGED disk
  /\ Return(c)
  /\ NoReply
  /\ UNCHANGED <<len, buf, bufSize, kind, lockVars, racy, crashes>>

-----------------------------------------------------------------------------
SliceArg(w) == WindowArg(w, len + Len(buf))

Slice(c) ==
  /\ Idle(c)
  /\ kind = "buffered" => holder = NoClient
  /\ \E w \in Windows : Begin(c, IF buf # << >> THEN "sliceFlush" ELSE "length", SliceArg(w))
  /\ holder' = IF buf # << >> THEN c ELSE holder
  /\ NoReply
  /\ UNCHANGED <<listVars, written, faultVars>>

(* A mutant of SliceClamp: the end of the window is not clamped.           *)
SliceClamp_OpenEnd(c) ==
  /\ pc[c] = "length"
  /\ LET from == IF arg[c].window[1] < 0 THEN 0 ELSE arg[c].window[1]
         to   == arg[c].window[2]
     IN IF from >= to THEN Return(c)
        ELSE Begin(c, "scan", WindowArg(<<from, to>>, 0))
  /\ NoReply
  /\ UNCHANGED <<listVars, lockVars, faultVars>>

(* TxidList.Slice clamps the window to the length; an empty one is nil.    *)
SliceClamp(c) ==
  /\ pc[c] = "length"
  /\ LET from == IF arg[c].window[1] < 0 THEN 0 ELSE arg[c].window[1]
         to   == IF arg[c].window[2] > len THEN len ELSE arg[c].window[2]
     IN IF from >= to THEN Return(c)
        ELSE Begin(c, "scan", WindowArg(<<from, to>>, 0))
  /\ NoReply
  /\ UNCHANGED <<listVars, lockVars, faultVars>>

(* The keys of the window that exist, in order, in one transaction.        *)
SliceScan(c) ==
  /\ pc[c] = "scan"
  /\ LET inside == {k \in Keys : k >= arg[c].window[1] /\ k < arg[c].window[2]}
     IN answer' = [op      |-> "slice",
                   entries |-> [k \in inside |-> disk[k]],
                   from    |-> arg[c].window[1],
                   to      |-> arg[c].window[2]]
  /\ Return(c)
  /\ UNCHANGED <<listVars, lockVars, faultVars>>

-----------------------------------------------------------------------------
(* NewTxidList, NewBufferedTxidList                                        *)
Reopen ==
  /\ kind' \in Kinds
  /\ \E n \in BufSizes : bufSize' = BufSize(n)
  /\ len' = InitLen(disk)
  /\ buf' = << >>
  /\ UNCHANGED disk

(* The process is killed; what is on disk stays, and a new process opens   *)
(* it.                                                                     *)
CrashAndReopen ==
  /\ crashes < MaxCrashes
  /\ crashes' = crashes + 1
  /\ Reopen
  /\ holder' = NoClient
  /\ written' = 0
  /\ pc' = [c \in Clients |-> "idle"]
  /\ arg' = [c \in Clients |-> NoArg]
  /\ NoReply
  /\ UNCHANGED <<racy, failures>>

InternalStep(c) ==
  \/ AppendPut(c) \/ AppendCount(c)
  \/ FlushWrite(c) \/ FlushCommit(c) \/ FlushFail(c)
  \/ GetCheck(c) \/ GetView(c)
  \/ SetCheck(c) \/ SetUpdate(c)
  \/ SliceClamp(c) \/ SliceScan(c)

Call(c) ==
  \/ AppendLoad(c) \/ BufferedAppend(c) \/ Flush(c)
  \/ BufferedGet(c) \/ RawGet(c)
  \/ BufferedSet(c) \/ RawSet(c)
  \/ Slice(c)

(* seen[c] collects every value of the entry a Get of c asks for.          *)
Observe ==
  seen' = [c \in Clients |->
             IF pc'[c] \in {"getCheck", "view"}
             THEN (IF Idle(c) THEN {} ELSE seen[c]) \cup {EntryAt(arg[c].index)'}
             ELSE {}]

Next ==
  /\ \/ \E c \in Clients : Call(c) \/ InternalStep(c)
     \/ CrashAndReopen
  /\ Observe

(* A call that has begun goes on: the Go scheduler runs every goroutine.   *)
Spec == Init /\ [][Next]_vars /\ \A c \in Clients : WF_vars(InternalStep(c) /\ Observe)

-----------------------------------------------------------------------------
Steps ==
  {"idle", "put", "count", "flush", "sliceFlush", "getCheck", "view", "setCheck", "update",
   "length", "scan"}

ArgType == [index : Int, hash : Hashes \cup {NoHash}, window : Int \X Int, total : Nat]

TypeOK ==
  /\ kind \in Kinds
  /\ bufSize \in Nat
  /\ Keys \subseteq Nat /\ IsFiniteSet(Keys) /\ \A k \in Keys : disk[k] \in Hashes
  /\ len \in Nat
  /\ buf \in Seq(Hashes)
  /\ holder \in Clients \cup {NoClient}
  /\ written \in Nat
  /\ pc \in [Clients -> Steps]
  /\ arg \in [Clients -> ArgType]
  /\ racy \in BOOLEAN
  /\ failures \in Nat /\ crashes \in Nat

(* Unless two Appends to a TxidList overlapped, the keys on disk are       *)
(* 0..k-1 without a gap, and k is the length, or more by the one Append or *)
(* the part of a batch that is on its way: the length a new process counts *)
(* (initLen) is never short of an entry that was acknowledged, and never   *)
(* makes an Append overwrite one.                                          *)
KeysContiguous ==
  ~racy =>
    \E k \in len..(len + Len(buf) + IF Appending = {} THEN 0 ELSE 1) : Keys = 0..(k - 1)

(* The mutex is held by the one client that flushes, and by nobody else:   *)
(* no two goroutines ever write one batch.                                 *)
OneFlusher ==
  \A c \in Clients : Flushing(c) <=> holder = c

(* What each step relies on.  A TxidList has no buffer and no mutex; the   *)
(* batch being written is a part of the buffer; a write has its hash and   *)
(* an update has checked its index; an Append that overlaps no other       *)
(* writes at the length.                                                   *)
LockInv ==
  /\ kind = "raw" => buf = << >> /\ holder = NoClient
  /\ Appending # {} => kind = "raw"
  /\ written <= Len(buf)
  /\ holder = NoClient => written = 0
  /\ \A c \in Clients :
       /\ pc[c] \in {"put", "setCheck", "update"} => arg[c].hash \in Hashes
       /\ pc[c] = "put" => arg[c].index >= 0
       /\ pc[c] = "update" => InRange(arg[c].index)
  /\ ~racy => \A c, d \in Appending : c = d /\ arg[c].index = len

Counting == \E c \in Clients : pc[c] = "count"

(* The keys on disk are 0..k-1; without a failure k is known exactly, and  *)
(* with it what lies beyond the length.                                    *)
DiskInv ==
  ~racy =>
    \E k \in (len + written)..(len + Len(buf) + IF Counting THEN 1 ELSE 0) :
      /\ Keys = 0..(k - 1)
      /\ kind = "raw" => k = len + IF Counting THEN 1 ELSE 0
      /\ kind = "buffered" /\ failures = 0 =>
           k = len + written /\ \A i \in 1..written : disk[len + i - 1] = buf[i]

(* At every moment the mutex, the batch on its way and the keys on disk    *)
(* agree with the length and the buffer.  It is inductive.                 *)
ListInv == TypeOK /\ OneFlusher /\ LockInv /\ DiskInv

(* While no write has failed, what a batch has left on disk beyond the     *)
(* length is what the buffer holds: a crash recovers a prefix of the list, *)
(* not an older value of an entry that was overwritten since.              *)
TailFresh ==
  ~racy /\ failures = 0 /\ kind = "buffered" =>
    \A k \in Keys : k >= len => disk[k] = buf[k - len + 1]

(* Get answers with a value the entry had at some moment of the call,      *)
(* though the buffer, the length and the key are read at three moments;    *)
(* it misses an entry that was there throughout only if its read failed.   *)
GetLinearizable == answer.op = "get" => answer.value \in answer.could

(* Slice gives the entries of its window, every one and as they are when   *)
(* it scans, though the length was read before; and the length it reads    *)
(* covers all that was in the list when it began, buffered or not, unless  *)
(* the flush failed.                                                       *)
SliceWhole ==
  /\ answer.op = "slice" /\ ~racy =>
       answer.entries = [k \in answer.from..(answer.to - 1) |-> EntryAt(k)]
  /\ \A c \in Clients : pc[c] = "length" => len >= arg[c].total

Listed == [i \in 1..(len + Len(buf)) |-> EntryAt(i - 1)]

Stored == [i \in 1..InitLen(disk) |-> IF i - 1 \in Keys THEN disk[i - 1] ELSE NoHash]

L == INSTANCE TxidSeq WITH list <- Listed, stored <- Stored, durable <- len, opens <- crashes

(* As long as no two Appends to a TxidList overlap, the code implements    *)
(* one sequence with a copy on disk, also when batches fail half-way and   *)
(* are written again: an entry keeps its place, it is changed by a Set     *)
(* only, a batch copies what is listed and is counted when all of it is    *)
(* there, and only a kill takes entries away, those that are not on disk.  *)
ImplementsSeq == L!SeqInit /\ [][racy' \/ L!SeqNext]_(L!seqVars)

(* Every call returns, whether its batch is written or fails, and with it  *)
(* the mutex is released.                                                  *)
EveryCallReturns == \A c \in Clients : ~Idle(c) ~> Idle(c)
=============================================================================
