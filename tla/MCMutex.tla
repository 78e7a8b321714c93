------------------------------- MODULE MCMutex -------------------------------
(***************************************************************************)
(* Mutex with a small set of threads.                                      *)
(***************************************************************************)
EXTENDS Mutex

MCBlockList == {"wait"}
=============================================================================
