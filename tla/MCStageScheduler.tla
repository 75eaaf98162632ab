-------------------------- MODULE MCStageScheduler --------------------------
(* Small instances of the chunk scheduler, a process of each policy. *)
EXTENDS StageScheduler
=============================================================================
