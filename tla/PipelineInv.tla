---------------------------- MODULE PipelineInv -----------------------------
(***************************************************************************)
(* The inductive invariant behind NoSilentLoss, BuiltOnFinalRoots and      *)
(* DiskHoldsWinner.  It says, for a run that has logged no error, what has *)
(* been computed and what has reached the disk at each point of the        *)
(* program; of what is not yet rewritten on the disk it says nothing,      *)
(* which is why earlier runs cannot disturb it.                            *)
(***************************************************************************)
EXTENDS Pipeline

Finalizing == pc \in {"select", "load", "resave", "reflush", "process", "done"}

(* The root of subtree s is known to be that of miner m's ordering.        *)
Rooted(m, s) ==
  \/ Finalizing
  \/ Sealing /\ s < si
  \/ s = si /\ pc \in {"index", "flush"}
  \/ s = si /\ pc = "save" /\ m < mi

(* Miner m's index has been extended by subtree s.                         *)
Indexed(m, s) ==
  \/ Finalizing
  \/ Sealing /\ s < si
  \/ s = si /\ pc \in {"index", "flush"} /\ m < mi
  \/ s = si /\ pc = "flush" /\ m = mi

(* Subtree 0 of the winner, once the coinbase is in it.                    *)
Resealed(m, s) ==
  pc \in {"resave", "reflush", "process", "done"} /\ m = winner /\ s = 0

(* Leaf number k of the block of run r, before and after the coinbase      *)
(* replacement.                                                            *)
Name(r, k, resealed) == <<r, IF resealed /\ k = 0 THEN NumTxids ELSE k>>

(* The row holds every leaf of subtree s once, in some order.              *)
IsOrdering(r, row, s, resealed) ==
  /\ row \in Orderings
  /\ \A li \in LocalIdxs : \E lj \in LocalIdxs : row[li] = Name(r, NumberOf(s, lj), resealed)
  /\ \A lj \in LocalIdxs : \E li \in LocalIdxs : row[li] = Name(r, NumberOf(s, lj), resealed)
  /\ \A li, lj \in LocalIdxs : row[li] = row[lj] => li = lj

(* Where the txids that owner gives to token t are in a row.               *)
Places(r, owner, row, t, resealed) ==
  {li \in LocalIdxs : \E k \in TxNumbers : row[li] = Name(r, k, resealed) /\ owner[k] = t}

(* The fragment of t has still to be written.                              *)
Pending(m, t, s) ==
  \/ pc = "flush" /\ m = mi /\ s = si /\ t \in batch
  \/ pc = "resave" /\ m = winner /\ s = 0
  \/ pc = "reflush" /\ m = winner /\ s = 0 /\ t \in batch

SubsInv ==
  Sealing => \A m \in Miners :
    /\ IsOrdering(run, minerSubs[m], si, FALSE)
    /\ Rooted(m, si) => minerRoots[m][si] = minerSubs[m]

RowsInv ==
  \A m \in Miners, s \in Subtrees :
    Rooted(m, s) => IsOrdering(run, minerRoots[m][s], s, Resealed(m, s))

DiskInv ==
  \A m \in Miners, s \in Subtrees :
    Rooted(m, s) /\ ~(pc = "resave" /\ m = winner /\ s = 0) =>
      diskSubs[m][s] = minerRoots[m][s]

IndexInv ==
  \A m \in Miners, s \in Subtrees, t \in Businesses :
    minerTokenIdx[m][t][s] =
      IF Indexed(m, s) THEN Places(run, tokenOf, minerRoots[m][s], t, Resealed(m, s)) ELSE {}

FragInv ==
  \A m \in Miners, s \in Subtrees, t \in Businesses :
    Indexed(m, s) /\ minerTokenIdx[m][t][s] # {} /\ ~Pending(m, t, s) =>
      diskFrags[m][t][s] = [leaves |-> minerRoots[m][s], idxs |-> minerTokenIdx[m][t][s]]

LeavesInv == pc \in {"resave", "reflush"} => leaves = minerRoots[winner][0]

(* What ProcessToken builds for t.                                         *)
FullBump(t) ==
  [s \in Subtrees |->
     IF minerTokenIdx[winner][t][s] # {}
     THEN [leaves |-> minerRoots[winner][s], idxs |-> minerTokenIdx[winner][t][s]]
     ELSE NoFragment]

BumpsInv == pc \in {"process", "done"} => \A t \in Businesses \ todo : bumps[t] = FullBump(t)

TodoInv == pc \notin {"process", "done", "killed"} => todo = Businesses

(* The miner loop has not begun, or is over.                               *)
MinerInv == pc \in {"generate", "build", "select"} => mi = 0

(* No goroutine is left swapping once the barrier has been passed.         *)
BarrierInv == pc \notin {"build", "killed"} => \A m \in Miners : swapsLeft[m] = 0

(* A run that has logged no error, and has not been stopped, is on course. *)
OnCourse == ~logged /\ pc \notin {"killed", "exited"}

Course == SubsInv /\ RowsInv /\ DiskInv /\ IndexInv /\ FragInv /\ LeavesInv /\ BumpsInv

IInv == TodoInv /\ MinerInv /\ BarrierInv /\ (OnCourse => Course)

(* At every point of every run: no goroutine swaps once the barrier is     *)
(* passed, and, unless an error was logged, the roots, the indexes and the *)
(* disk hold exactly what the program has got to.  It is inductive         *)
(* (PipelineProofs).                                                       *)
Inv == TypeOK /\ IInv
=============================================================================
