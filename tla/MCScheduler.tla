---------------------------- MODULE MCScheduler ----------------------------
(***************************************************************************)
(* The scheduler with more processes than initrd_load spawns, so that both *)
(* queues hold several of them.                                            *)
(***************************************************************************)
EXTENDS Scheduler
=============================================================================
