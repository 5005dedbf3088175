------------------------------ MODULE MCFrames -------------------------------
(* Effects and frames for the instances of ClippingEngine.                 *)

E1 == <<1, 1>>
E2 == <<1, 2>>
E3 == <<2, 3>>

EngineEffects == {E1, E2, E3}

(* One frame of every kind, with the choices that the engine tells apart.  *)
AllFrames ==
  {[type |-> "DropNotice", count |-> 1], [type |-> "DropNotice", count |-> 2],
   [type |-> "Failed"],
   [type |-> "DeviceCreated", device |-> 2],
   [type |-> "EffectCreated", effect |-> E3, trigger |-> "absent"],
   [type |-> "EffectCreated", effect |-> E2, trigger |-> "button"],
   [type |-> "EffectParameters", effect |-> E2, trigger |-> "none", start |-> TRUE],
   [type |-> "EffectParameters", effect |-> E1, trigger |-> "absent", start |-> FALSE],
   [type |-> "Start", effect |-> E1, solo |-> TRUE],
   [type |-> "Start", effect |-> E2, solo |-> FALSE],
   [type |-> "Start", effect |-> E3, solo |-> FALSE],
   [type |-> "Stop", effect |-> E1],
   [type |-> "Release", effect |-> E2]}
  \union {[type |-> "DeviceCommand", device |-> 1, bits |-> b] :
            b \in {{"Reset"}, {"StopAll", "Pause"}, {"Pause"}, {"Continue", "On"}, {"Off"}}}

(* The frames that matter between sessions.                                *)
FewFrames ==
  {[type |-> "DropNotice", count |-> 1], [type |-> "Start", effect |-> E1, solo |-> FALSE]}
=============================================================================
