---------------------------- MODULE MCWorkingSet ----------------------------
(* A small instance of the working set.  The experts of layer l2 are asked  *)
(* for in ways that change them one by one and back, in another order, so   *)
(* that the two buffers come to hold one set of experts in two orders; those*)
(* of layer l1 are not asked for, or changed once.                          *)
EXTENDS WorkingSet, Sequences

CONSTANTS l1, l2

Asked(routes) == [e \in Experts |-> routes[e + 1]]
MCDemands == [l \in Layers |->
                IF l = l1 THEN {Asked(<<0, 0, 0, 0>>), Asked(<<0, 1, 1, 0>>)}
                ELSE {Asked(<<0, 0, 1, 2>>), Asked(<<1, 1, 0, 0>>)}]

(* The first slots of every layer are the experts most used in training.    *)
MCFrequencyPlans == [g \in Groups |-> [l \in Layers |-> [s \in Slots |-> s]]]
=============================================================================
