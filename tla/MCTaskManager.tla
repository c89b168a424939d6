---------------------------- MODULE MCTaskManager ----------------------------
(***************************************************************************)
(* Two threads that make two calls each, for two workers.                  *)
(***************************************************************************)
EXTENDS TaskManager
==============================================================================
