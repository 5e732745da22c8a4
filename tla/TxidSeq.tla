------------------------------- MODULE TxidSeq ------------------------------
(***************************************************************************)
(* What the two lists of txid_list.go promise: one sequence of hashes that *)
(* grows at its end, any entry of which can be overwritten, and a copy of  *)
(* it on disk that lags behind.  Only a crash makes the sequence shorter:  *)
(* it falls back to the copy.  TxidList, the module of the code, is shown  *)
(* to implement it.                                                        *)
(***************************************************************************)
EXTENDS Integers, Sequences

CONSTANT Hashes

VARIABLES
  list,
  stored,    \* the copy on disk
  durable,   \* how many entries of list are hardened
  opens      \* how often a crash was followed by an open

seqVars == <<list, stored, durable, opens>>

SeqInit ==
  /\ list = << >>
  /\ stored = << >>
  /\ durable = 0
  /\ opens = 0

(* A buffered list has the entry first and stores it later, ...            *)
AddEntry(h) ==
  /\ list' = Append(list, h)
  /\ UNCHANGED <<stored, durable, opens>>

(* ... the next one or, after a flush that failed, one that was stored     *)
(* before.  The copy takes the place and the value the entry has in list.  *)
Store(i) ==
  /\ i > durable /\ i <= Len(list)
  /\ \/ i = Len(stored) + 1 /\ stored' = Append(stored, list[i])
     \/ i <= Len(stored)    /\ stored' = [stored EXCEPT ![i] = list[i]]
  /\ UNCHANGED <<list, durable, opens>>

(* What was stored is hardened once it is the whole list.                  *)
Harden ==
  /\ list = stored
  /\ durable' = Len(list)
  /\ UNCHANGED <<list, stored, opens>>

(* An unbuffered list stores the entry first ...                           *)
StoreEntry(h) ==
  /\ durable = Len(list) /\ Len(stored) = Len(list)
  /\ stored' = Append(stored, h)
  /\ UNCHANGED <<list, durable, opens>>

(* ... and has it, hardened, next.                                         *)
AddStored ==
  /\ durable = Len(list) /\ Len(stored) = Len(list) + 1
  /\ list' = stored
  /\ durable' = Len(stored)
  /\ UNCHANGED <<stored, opens>>

(* A hardened entry is overwritten in both.                                *)
Overwrite(i, h) ==
  /\ i \in DOMAIN list
  /\ list' = [list EXCEPT ![i] = h]
  /\ stored' = IF i <= durable THEN [stored EXCEPT ![i] = h] ELSE stored
  /\ UNCHANGED <<durable, opens>>

(* A crash keeps what was hardened, and of the rest what was stored.       *)
CrashAndOpen ==
  /\ opens' = opens + 1
  /\ list' = stored
  /\ \A i \in 1..durable : list'[i] = list[i]
  /\ durable' = Len(stored)
  /\ UNCHANGED stored

SeqNext ==
  \/ \E h \in Hashes : AddEntry(h) \/ StoreEntry(h)
  \/ \E i \in DOMAIN list : Store(i)
  \/ \E i \in DOMAIN list, h \in Hashes : Overwrite(i, h)
  \/ Harden \/ AddStored \/ CrashAndOpen
=============================================================================
