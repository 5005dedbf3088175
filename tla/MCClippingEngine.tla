-------------------------- MODULE MCClippingEngine ---------------------------
(* Instances of ClippingEngine for TLC: sessions that compete for sources. *)
EXTENDS ClippingEngine, MCFrames, TLC

(* Sessions are interchangeable, and so are connections.                   *)
ConnSymmetry == Permutations(Conns)
Symmetry == Permutations(Keys) \union ConnSymmetry
=============================================================================
