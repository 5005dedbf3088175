-------------------------- MODULE MCEffectPlayback ---------------------------
(* An instance of EffectPlayback for TLC: the effects of one device, and   *)
(* frames that start, lengthen, shorten, delay and repeat them, also to no *)
(* length at all.                                                          *)
EXTENDS EffectPlayback

CONSTANT EffectIds

MCEffects == {<<1, id>> : id \in EffectIds}

Plan(duration, delay) == [duration |-> duration, delay |-> delay]

MCPlans == {Plan(1, 0), Plan(0, 0)}

(* Effects that have a length: what brings back an effect that has ended.  *)
LastingPlans == {Plan(1, 0)}

SetParameters(flags, duration, delay, restarted) ==
  [flags |-> flags, duration |-> duration, delay |-> delay, restarted |-> restarted]

MCChanges ==
  {SetParameters({"Duration"}, 3, 0, FALSE), SetParameters({}, 1, 0, TRUE),
   SetParameters({"Duration", "StartDelay"}, 1, 1, FALSE), SetParameters({"Start"}, 1, 0, FALSE),
   SetParameters({"Duration"}, 0, 0, FALSE)}
=============================================================================
