----------------------------- MODULE MCBumpPool -----------------------------
(* Four tokens and two workers: a token with no txid, one whose            *)
(* fragments are all missing, one that misses a fragment of two, one that  *)
(* has both.  On the path without fragments both subtrees are stored, and  *)
(* the cache has room for one, for both, or no limit.                      *)
EXTENDS BumpPoolInv

MCSpans   == [t \in Tokens |-> CASE t = 0 -> {0, 1} [] t = 1 -> {} [] t = 2 -> {1} [] OTHER -> {0, 1}]
MCPresent == [t \in Tokens |-> CASE t = 0 -> {0} [] t = 1 -> {} [] t = 2 -> {} [] OTHER -> {0, 1}]
=============================================================================
