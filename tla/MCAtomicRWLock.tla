--------------------------- MODULE MCAtomicRWLock ---------------------------
(***************************************************************************)
(* Each thread is free to read or to write again and again.  Four threads  *)
(* are enough for a holder, a reader between its test and its              *)
(* compare-exchange, a waiting writer and a newcomer at the same time; both*)
(* values of write_first_ are initial states.                              *)
(***************************************************************************)
EXTENDS AtomicRWLock
=============================================================================
