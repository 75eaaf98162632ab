--------------------------- MODULE MCExpertLoader ---------------------------
(* A small instance of the loader: two consumers, more experts than either  *)
(* cache may hold, and one future more than can be needed: the main thread  *)
(* does not ask for another prefetch while it waits for one.                *)
EXTENDS ExpertLoader

MCTasks == 1 .. (MaxPrefetched + Cardinality(Consumers))
=============================================================================
