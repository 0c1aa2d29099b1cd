---------------------------- MODULE MCScheduler ----------------------------
(***************************************************************************)
(* Scheduler for TLC.  Threads are not declared symmetric: two of the      *)
(* properties are about liveness.                                          *)
(***************************************************************************)
EXTENDS Scheduler
=============================================================================
