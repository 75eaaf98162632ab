------------------------ MODULE MCGroupExpertBuffer ------------------------
(* Small instances of the physical expert buffers: of the first plan, the   *)
(* second keeps one expert, in another slot, and replaces the other.        *)
EXTENDS GroupExpertBuffer, TLC

CONSTANTS e1, e2, e3, s1, s2

TwoPlans == {s1 :> e1 @@ s2 :> e2, s1 :> e3 @@ s2 :> e1}
=============================================================================
