------------------------- MODULE MCStageReadyQueues -------------------------
(* A small instance of the ready queues: chunks 1 and 2 are of one request. *)
EXTENDS StageReadyQueues, TLC

MCRequestOf == (1 :> "r1") @@ (2 :> "r1") @@ (3 :> "r2") @@ (4 :> "r3")
TicketSymmetry == Permutations(TicketIds)
=============================================================================
