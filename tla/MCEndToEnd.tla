----------------------------- MODULE MCEndToEnd ------------------------------
(* An instance of EndToEnd small enough for TLC.                           *)
EXTENDS EndToEnd, TLC

E1 == <<1, 1>>
E2 == <<1, 2>>

MCEffects == {E1, E2}

MCCommands ==
  {[type |-> "Start", effect |-> E1, solo |-> FALSE],
   [type |-> "Start", effect |-> E2, solo |-> TRUE],
   [type |-> "Stop", effect |-> E1]}

NoFrames == {}

Symmetry == Permutations(Conns)
=============================================================================
