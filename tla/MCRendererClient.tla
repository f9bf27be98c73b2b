--------------------------- MODULE MCRendererClient ---------------------------
(* RendererClient for TLC: transports are interchangeable, and no property  *)
(* of the run is a liveness property, so permuting them is sound.           *)
EXTENDS RendererClient, TLC

TransportSymmetry == Permutations(Transports)
=============================================================================
