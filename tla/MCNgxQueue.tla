----------------------------- MODULE MCNgxQueue -----------------------------
(***************************************************************************)
(* Small instances of NgxQueue.                                            *)
(***************************************************************************)
EXTENDS NgxQueue, TLC
=============================================================================
