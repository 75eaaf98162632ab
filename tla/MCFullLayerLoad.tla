-------------------------- MODULE MCFullLayerLoad --------------------------
(* Two ranks, two layers, and three or four experts that come from the CPU. *)
EXTENDS FullLayerLoad
=============================================================================
