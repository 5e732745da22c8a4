------------------------------ MODULE TxidIndex -----------------------------
(***************************************************************************)
(* The index from txid to token, used by several goroutines: in memory     *)
(* (stump.TxIDIndex and MemTxIDIndex), on disk with one transaction per    *)
(* Set (DiskTxIDIndex), and on disk behind a buffer (BufferedTxIDIndex).   *)
(*                                                                         *)
(* The buffered index takes its full buffer under the mutex and writes it  *)
(* with the mutex released.  A batch is written pair by pair: a failure or *)
(* a kill may leave any prefix of it.                                      *)
(***************************************************************************)
EXTENDS Integers, Sequences, FiniteSets

CONSTANTS
  Clients,
  Txids,
  Tokens,
  NoToken,      \* no token: what Get answers with false, BatchGet with ""
  Kinds,        \* "mem", "disk", "buffered"
  BufSizes,     \* values of the argument bufSize
  MaxSets,      \* bound: calls of Set
  MaxFailures,  \* bound: writes and reads that fail
  MaxCrashes    \* bound: kills of the process

ASSUME IndexAssumption ==
  /\ NoToken \notin Tokens
  /\ Kinds \subseteq {"mem", "disk", "buffered"}
  /\ BufSizes \subseteq Int
  /\ MaxSets \in Nat /\ MaxFailures \in Nat /\ MaxCrashes \in Nat

VARIABLES
  kind,
  bufSize,
  table,    \* the map in memory, or the keys on disk
  buf,      \* BufferedTxIDIndex.buf
  pc,       \* where client c is in its call: "idle", "setBatch", "flush", "view"
  batch,    \* batch[c]: the pairs c has taken and not yet written
  wanted,   \* wanted[c]: the txids c's Get or BatchGet has still to look up
  found,    \* found[c]: what it has found in the buffer
  last,     \* history: last[x] is the token x was last set to in this process
  due,      \* history: due[c]: txids not set again since c's Flush began
  could,    \* history: could[c][x] is every last[x] since c's lookup began
  blurred,  \* history: txids in two batches at once, or in one that failed
  answer,   \* the answer given in the last step
  sets,
  failures,
  crashes

indexVars == <<kind, bufSize, table, buf>>
callVars  == <<pc, batch, wanted, found, due>>
histVars  == <<last, blurred>>
countVars == <<sets, failures, crashes>>
vars      == <<indexVars, callVars, histVars, could, answer, countVars>>

Pair(x, t) == [txid |-> x, token |-> t]

TxidsOf(pairs) == {pairs[i].txid : i \in DOMAIN pairs}

(* A mutant of Lookup: the buffer is searched from its oldest pair on.     *)
Lookup_Oldest(pairs, x) ==
  LET at == {i \in DOMAIN pairs : pairs[i].txid = x}
  IN pairs[CHOOSE i \in at : \A j \in at : i <= j].token

(* The newest pair of the buffer for x: Get searches it from the end,      *)
(* BatchGet fills a map from the front.                                    *)
Lookup(pairs, x) ==
  LET at == {i \in DOMAIN pairs : pairs[i].txid = x}
  IN pairs[CHOOSE i \in at : \A j \in at : j <= i].token

Visible(x) == IF x \in TxidsOf(buf) THEN Lookup(buf, x) ELSE table[x]

(* Taken from the buffer and not on disk yet.                              *)
InFlight == UNION {TxidsOf(batch[c]) : c \in Clients}

Idle(c)       == pc[c] = "idle"
Goto(c, step) == pc' = [pc EXCEPT ![c] = step]
NoReply       == answer' = [op |-> "none"]
Nothing       == [x \in Txids |-> NoToken]

Fails == failures < MaxFailures /\ failures' = failures + 1

Init ==
  /\ kind \in Kinds
  /\ bufSize \in BufSizes
  /\ table = Nothing
  /\ buf = << >>
  /\ pc = [c \in Clients |-> "idle"]
  /\ batch = [c \in Clients |-> << >>]
  /\ wanted = [c \in Clients |-> {}]
  /\ found = [c \in Clients |-> Nothing]
  /\ last = Nothing
  /\ due = [c \in Clients |-> {}]
  /\ could = [c \in Clients |-> [x \in Txids |-> {}]]
  /\ blurred = {}
  /\ answer = [op |-> "none"]
  /\ sets = 0
  /\ failures = 0
  /\ crashes = 0

-----------------------------------------------------------------------------
Record(x, t) ==
  /\ last' = [last EXCEPT ![x] = t]
  /\ due' = [c \in Clients |-> due[c] \ {x}]

(* A Set of the index in memory or of the one on disk; the latter ignores  *)
(* a failed write.                                                         *)
Set(c) ==
  /\ kind # "buffered" /\ Idle(c) /\ sets < MaxSets
  /\ \E x \in Txids, t \in Tokens :
       /\ Record(x, t)
       /\ \/ table' = [table EXCEPT ![x] = t] /\ UNCHANGED <<failures, blurred>>
          \/ kind = "disk" /\ Fails /\ blurred' = blurred \cup {x} /\ UNCHANGED table
  /\ sets' = sets + 1
  /\ NoReply
  /\ UNCHANGED <<kind, bufSize, buf, pc, batch, wanted, found, crashes>>

(* Client c takes all pairs out of the buffer.                             *)
Take(c, pairs, step) ==
  /\ batch' = [batch EXCEPT ![c] = pairs]
  /\ buf' = << >>
  /\ blurred' = blurred \cup (TxidsOf(pairs) \cap InFlight)
  /\ Goto(c, step)

(* The pair is appended, and a full buffer taken, under the mutex.         *)
BufferedSet(c) ==
  /\ kind = "buffered" /\ Idle(c) /\ sets < MaxSets
  /\ \E x \in Txids, t \in Tokens :
       LET pairs == Append(buf, Pair(x, t)) IN
       /\ Record(x, t)
       /\ IF Len(pairs) >= bufSize
            THEN Take(c, pairs, "setBatch")
            ELSE buf' = pairs /\ UNCHANGED <<batch, blurred, pc>>
  /\ sets' = sets + 1
  /\ NoReply
  /\ UNCHANGED <<kind, bufSize, table, wanted, found, failures, crashes>>

(* A mutant of Flush: it drops the buffer and writes nothing.              *)
Flush_Dropped(c) ==
  /\ kind = "buffered" /\ Idle(c) /\ buf # << >>
  /\ Take(c, << >>, "flush")
  /\ due' = [due EXCEPT ![c] = Txids]
  /\ NoReply
  /\ UNCHANGED <<kind, bufSize, table, wanted, found, last, countVars>>

(* Flush takes whatever there is.                                          *)
Flush(c) ==
  /\ kind = "buffered" /\ Idle(c) /\ buf # << >>
  /\ Take(c, buf, "flush")
  /\ due' = [due EXCEPT ![c] = Txids]
  /\ NoReply
  /\ UNCHANGED <<kind, bufSize, table, wanted, found, last, countVars>>

Writing(c) == pc[c] \in {"setBatch", "flush"}

(* A mutant of SetBatch: the batch is written from its end.                *)
SetBatch_Backwards(c) ==
  /\ Writing(c) /\ batch[c] # << >>
  /\ LET n == Len(batch[c]) IN
       /\ table' = [table EXCEPT ![batch[c][n].txid] = batch[c][n].token]
       /\ batch' = [batch EXCEPT ![c] = SubSeq(@, 1, n - 1)]
  /\ NoReply
  /\ UNCHANGED <<kind, bufSize, buf, pc, wanted, found, due, histVars, countVars>>

(* SetBatch writes the pairs, in their order, with no mutex held ...       *)
SetBatch(c) ==
  /\ Writing(c) /\ batch[c] # << >>
  /\ table' = [table EXCEPT ![Head(batch[c]).txid] = Head(batch[c]).token]
  /\ batch' = [batch EXCEPT ![c] = Tail(@)]
  /\ NoReply
  /\ UNCHANGED <<kind, bufSize, buf, pc, wanted, found, due, histVars, countVars>>

(* ... or fails, which is only logged: the pairs not written are lost.     *)
SetBatchFails(c) ==
  /\ Writing(c) /\ batch[c] # << >>
  /\ Fails
  /\ blurred' = blurred \cup TxidsOf(batch[c])
  /\ batch' = [batch EXCEPT ![c] = << >>]
  /\ NoReply
  /\ UNCHANGED <<indexVars, pc, wanted, found, due, last, sets, crashes>>

BatchReturns(c) ==
  /\ Writing(c) /\ batch[c] = << >>
  /\ Goto(c, "idle")
  /\ answer' = IF pc[c] = "flush" THEN [op |-> "flush", due |-> due[c]] ELSE [op |-> "none"]
  /\ due' = [due EXCEPT ![c] = {}]
  /\ UNCHANGED <<indexVars, batch, wanted, found, histVars, countVars>>

-----------------------------------------------------------------------------
(* A lookup of one txid (Get) or several (BatchGet): one that is in the    *)
(* buffer is answered from there, under the mutex, ...                     *)
Get(c) ==
  /\ Idle(c)
  /\ \E xs \in SUBSET Txids \ {{}} :
       /\ wanted' = [wanted EXCEPT ![c] = xs]
       /\ found' = [found EXCEPT ![c] =
                      [x \in Txids |-> IF x \in xs \cap TxidsOf(buf) THEN Lookup(buf, x) ELSE NoToken]]
  /\ Goto(c, "view")
  /\ NoReply
  /\ UNCHANGED <<indexVars, batch, due, histVars, countVars>>

(* ... and the others in one transaction, later.  One whose read fails is  *)
(* answered as if it had no token.                                         *)
GetView(c) ==
  /\ pc[c] = "view"
  /\ \E missed \in SUBSET {x \in wanted[c] : found[c][x] = NoToken} :
       /\ \/ missed = {} /\ UNCHANGED failures
          \/ missed # {} /\ kind # "mem" /\ Fails
       /\ answer' = [op    |-> "get",
                     value |-> [x \in wanted[c] |-> IF found[c][x] # NoToken THEN found[c][x]
                                                    ELSE IF x \in missed THEN NoToken ELSE table[x]],
                     could |-> [x \in Txids |-> IF x \in missed THEN could[c][x] \cup {NoToken}
                                                                ELSE could[c][x]]]
  /\ wanted' = [wanted EXCEPT ![c] = {}]
  /\ found' = [found EXCEPT ![c] = Nothing]
  /\ Goto(c, "idle")
  /\ UNCHANGED <<indexVars, batch, due, histVars, sets, crashes>>

-----------------------------------------------------------------------------
(* The process is killed and another opens the same directory; an index in *)
(* memory starts empty.                                                    *)
CrashAndReopen ==
  /\ crashes < MaxCrashes
  /\ crashes' = crashes + 1
  /\ table' = IF kind = "mem" THEN Nothing ELSE table
  /\ buf' = << >>
  /\ pc' = [c \in Clients |-> "idle"]
  /\ batch' = [c \in Clients |-> << >>]
  /\ wanted' = [c \in Clients |-> {}]
  /\ found' = [c \in Clients |-> Nothing]
  /\ due' = [c \in Clients |-> {}]
  /\ last' = table'
  /\ blurred' = {}
  /\ NoReply
  /\ UNCHANGED <<kind, bufSize, sets, failures>>

(* could[c][x] grows by what x is set to while c looks it up, and holds    *)
(* every token where x was in no reader's sight at some moment.            *)
Observe ==
  could' = [c \in Clients |-> [x \in Txids |->
              IF pc'[c] # "view" \/ x \notin wanted'[c] THEN {}
              ELSE (IF Idle(c) THEN {last[x]} ELSE could[c][x])
                   \cup {last'[x]}
                   \cup (IF x \in InFlight \cup blurred \/ x \in (InFlight \cup blurred)'
                         THEN Tokens \cup {NoToken} ELSE {})]]

Next ==
  /\ \/ \E c \in Clients :
          \/ Set(c) \/ BufferedSet(c) \/ Flush(c)
          \/ SetBatch(c) \/ SetBatchFails(c) \/ BatchReturns(c)
          \/ Get(c) \/ GetView(c)
     \/ CrashAndReopen
  /\ Observe

Spec == Init /\ [][Next]_vars

-----------------------------------------------------------------------------

(* Once a txid is in no batch that is being written, what a reader sees is *)
(* what it was last set to, unless two batches with it were written at the *)
(* same time or one failed: the buffer, the batches and the disk never     *)
(* bring an older token back.                                              *)
NewestVisible ==
  \A x \in Txids \ (InFlight \cup blurred) : Visible(x) = last[x]

(* Get and BatchGet answer, for every txid, with a token it had at some    *)
(* moment of the call.  They may miss it, or see an older one, only if it  *)
(* was in a batch on its way to disk meanwhile, where neither the buffer   *)
(* nor the disk shows it; and they miss it if its own read failed, but not *)
(* if that of another txid of the call did.                                *)
GetFresh ==
  answer.op = "get" =>
    \A x \in DOMAIN answer.value : answer.value[x] \in answer.could[x]

(* When Flush returns, what was set before it and not since is on disk, or *)
(* in a batch that another goroutine's Set took earlier and has not        *)
(* written yet: Flush does not wait for that one.                          *)
FlushCovers ==
  answer.op = "flush" =>
    \A x \in answer.due \ (InFlight \cup blurred) :
      x \notin TxidsOf(buf) /\ table[x] = last[x]
=============================================================================
