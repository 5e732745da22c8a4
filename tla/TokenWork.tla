------------------------------ MODULE TokenWork -----------------------------
(***************************************************************************)
(* What ProcessBUMPs promises, without saying how: every business token is *)
(* handled exactly once, in some order, with a BUMP made of subtrees that  *)
(* the winner's index lists for it and the store holds (as fragments, or   *)
(* whole on the JIT path); when all tokens are handled it returns.         *)
(* BumpPool, the worker pool of the code, is shown to implement it.        *)
(***************************************************************************)
CONSTANTS
  Tokens,
  Subtrees

VARIABLES
  present,   \* present[t]: subtrees listed for t that the store holds
  todo,      \* tokens not handled yet
  bump,      \* bump[t]: subtrees that went into t's BUMP; {} for none
  returned

workVars == <<present, todo, bump, returned>>

WorkInit ==
  /\ present \in [Tokens -> SUBSET Subtrees]
  /\ todo = Tokens
  /\ bump = [t \in Tokens |-> {}]
  /\ returned = FALSE

(* What cannot be read is left out.                                        *)
Handle(t) ==
  /\ t \in todo
  /\ todo' = todo \ {t}
  /\ \E read \in SUBSET present[t] : bump' = [bump EXCEPT ![t] = read]
  /\ UNCHANGED <<present, returned>>

Return ==
  /\ todo = {}
  /\ ~returned
  /\ returned' = TRUE
  /\ UNCHANGED <<present, todo, bump>>

WorkNext == (\E t \in Tokens : Handle(t)) \/ Return

WorkSafety == WorkInit /\ [][WorkNext]_workVars

WorkSpec == WorkSafety /\ WF_workVars(WorkNext)
=============================================================================
