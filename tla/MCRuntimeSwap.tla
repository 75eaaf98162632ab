--------------------------- MODULE MCRuntimeSwap ---------------------------
(* A small instance of the runtime swap under the settings that are safe.   *)
EXTENDS RuntimeSwap, TLC

(* Staged prefetches whose reads may fail, and live writes that the layer   *)
(* waits for.  keep_old only takes swaps away; a process that waits for     *)
(* every prefetch is taken once of each kind.                               *)
MCOptions ==
    {o \in SafeOptions :
        /\ o.background
        /\ \/ /\ o.staging /\ o.reads_fail /\ ~ o.block_on_miss /\ ~ o.keep_old
              /\ o.discard_missed = o.ready_only
           \/ /\ ~ o.staging /\ o.block_on_miss /\ o.ready_only
              /\ o.discard_missed /\ o.keep_old = o.full_copy}

Alike == Permutations(Experts) \cup Permutations(Slots)
=============================================================================
