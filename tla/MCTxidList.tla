----------------------------- MODULE MCTxidList -----------------------------
(* Two goroutines and up to two entries; the window of a Slice lies at     *)
(* both ends outside the list.  A buffer of two entries fills up, one of   *)
(* the default size never does.                                            *)
EXTENDS TxidList

MCWindows == {<<-1, MaxLen + 1>>, <<1, 2>>}
=============================================================================
