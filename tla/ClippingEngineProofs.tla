------------------------ MODULE ClippingEngineProofs -------------------------
(* Proofs about ClippingEngine, for any sessions, connections, frames and  *)
(* limits: the engine keeps within its bounds, its queue's counter is      *)
(* exact, every change of IsClipping is announced once, and what it calls  *)
(* reliable is what all frames of a session say.                           *)
EXTENDS ClippingEngine, FiniteSetTheorems, SequenceTheorems, TLAPS

(***************************************************************************)
(* What a frame does to the state of its source.                           *)
(***************************************************************************)

Play(a, b, c) == [started |-> a, paused |-> b, muted |-> c]
Now(s)        == Play(s.started, s.paused, s.muted)

Bounded(s) ==
  /\ s \in Sources
  /\ Cardinality(s.devices) <= MaximumDevices /\ Cardinality(s.effects) <= MaximumEffects

(* A frame neither connects a source nor repairs it, nor starts an episode;*)
(* a loss that it counts is an issue.                                      *)
Grows(s, t) ==
  /\ Bounded(t)
  /\ t.conns = s.conns /\ s.issues \subseteq t.issues /\ (t.clipping => s.clipping)
  /\ t.dropped > 0 => s.dropped > 0 \/ t.issues # {}

(* A source without an issue has made of the frame what the frame means.   *)
Tells(s, t, f) == t.issues = {} => Now(t) = Meaning(Now(s), f)

LEMMA DevicesAreFinite == IsFiniteSet(Devices)
<1> DEFINE of == [e \in Effects |-> e[1]]
<1>1. of \in Surjection(Effects, Devices)
  BY DEF Devices, Surjection
<1>2. QED BY <1>1, EngineConstants, FS_Surjection

LEMMA RoomForOne ==
  ASSUME NEW S, NEW x, NEW M \in Nat, IsFiniteSet(S), Cardinality(S) <= M,
         x \in S \/ Cardinality(S) < M
  PROVE  Cardinality(S \union {x}) <= M
<1>1. Cardinality(S) \in Nat BY FS_CardinalityType
<1>2. Cardinality(S \union {x}) = IF x \in S THEN Cardinality(S) ELSE Cardinality(S) + 1
  BY FS_AddElement
<1>3. QED BY <1>1, <1>2

LEMMA BoundedIsFinite ==
  ASSUME NEW s, Bounded(s)
  PROVE  IsFiniteSet(s.devices) /\ IsFiniteSet(s.effects)
<1>1. s.devices \subseteq Devices /\ s.effects \subseteq Effects BY DEF Bounded, Sources
<1>2. QED BY <1>1, DevicesAreFinite, EngineConstants, FS_Subset

LEMMA NewIsBounded == Bounded(NewSource)
<1>1. Cardinality({}) = 0 BY FS_EmptySet
<1>2. NewSource \in Sources BY DEF NewSource, Sources
<1>3. QED BY <1>1, <1>2, EngineConstants DEF Bounded, NewSource

LEMMA CapacityGrows ==
  ASSUME NEW s, Bounded(s)
  PROVE  Grows(s, Capacity(s)) /\ Capacity(s).issues # {}
BY DEF Grows, Bounded, Capacity, Sources, Issues

LEMMA DeviceGrows ==
  ASSUME NEW s, Bounded(s), NEW d \in Devices
  PROVE  /\ Grows(s, WithDevice(s, d))
         /\ WithDevice(s, d).issues = {} => DeviceRoom(s, d)
         /\ DeviceRoom(s, d) =>
              /\ WithDevice(s, d).started = s.started /\ WithDevice(s, d).paused = s.paused
              /\ WithDevice(s, d).muted = s.muted
<1>1. CASE DeviceRoom(s, d)
  <2>1. Cardinality(s.devices \union {d}) <= MaximumDevices
    BY <1>1, RoomForOne, BoundedIsFinite, EngineConstants DEF DeviceRoom, Bounded
  <2>2. QED BY <1>1, <2>1 DEF Grows, Bounded, WithDevice, Sources
<1>2. CASE ~DeviceRoom(s, d)
  BY <1>2, CapacityGrows DEF WithDevice
<1>3. QED BY <1>1, <1>2

LEMMA EffectGrows ==
  ASSUME NEW s, Bounded(s), NEW e \in Effects
  PROVE  /\ Grows(s, WithEffect(s, e))
         /\ WithEffect(s, e).issues = {} => EffectRoom(s, e)
         /\ EffectRoom(s, e) =>
              /\ WithEffect(s, e).started = s.started /\ WithEffect(s, e).paused = s.paused
              /\ WithEffect(s, e).muted = s.muted
<1>1. CASE EffectRoom(s, e)
  <2>1. Cardinality(s.devices \union {e[1]}) <= MaximumDevices
    BY <1>1, RoomForOne, BoundedIsFinite, EngineConstants DEF EffectRoom, DeviceRoom, Bounded
  <2>2. Cardinality(s.effects \union {e}) <= MaximumEffects
    BY <1>1, RoomForOne, BoundedIsFinite, EngineConstants DEF EffectRoom, Bounded
  <2>3. e[1] \in Devices BY DEF Devices
  <2>4. QED BY <1>1, <2>1, <2>2, <2>3 DEF Grows, Bounded, WithEffect, Sources
<1>2. CASE ~EffectRoom(s, e)
  BY <1>2, CapacityGrows DEF WithEffect
<1>3. QED BY <1>1, <1>2

(* The trigger of an effect is neither playback nor an issue.              *)
LEMMA TriggerGrows ==
  ASSUME NEW s, NEW t, Grows(s, t), NEW e \in Effects, NEW trigger \in Triggers
  PROVE  Grows(s, SetTrigger(t, e, trigger)) /\ Now(SetTrigger(t, e, trigger)) = Now(t)
         /\ SetTrigger(t, e, trigger).issues = t.issues
<1>1. PICK b : b = CASE trigger = "button" -> t.triggered \union {e}
                     [] trigger = "none"   -> t.triggered \ {e}
                     [] trigger = "absent" -> t.triggered
  OBVIOUS
<1>2. t.triggered \subseteq Effects BY DEF Grows, Bounded, Sources
<1>3. b \subseteq Effects BY <1>1, <1>2 DEF Triggers
<1>4. SetTrigger(t, e, trigger) = [t EXCEPT !.triggered = b] BY <1>1 DEF SetTrigger
<1>5. QED BY <1>3, <1>4 DEF Grows, Bounded, Sources, Now

LEMMA StopGrows ==
  ASSUME NEW s, NEW t, Grows(s, t), NEW E
  PROVE  Grows(s, StopEffects(t, E)) /\ StopEffects(t, E).issues = t.issues
         /\ Now(StopEffects(t, E)) = Play(t.started \ E, t.paused, t.muted)
<1>1. PICK b : b = t.started \ E OBVIOUS
<1>2. t.started \subseteq Effects BY DEF Grows, Bounded, Sources
<1>3. b \subseteq Effects BY <1>1, <1>2
<1>4. StopEffects(t, E) = [t EXCEPT !.started = b] BY <1>1 DEF StopEffects
<1>5. QED BY <1>1, <1>3, <1>4 DEF Grows, Bounded, Sources, Now

LEMMA BeginGrows ==
  ASSUME NEW s, NEW t, Grows(s, t), NEW e \in Effects
  PROVE  Grows(s, Begin(t, e)) /\ Begin(t, e).issues = t.issues
         /\ Now(Begin(t, e)) = Play(t.started \union {e}, t.paused, t.muted)
BY DEF Grows, Bounded, Sources, Begin, Now

LEMMA CreatedTells ==
  ASSUME NEW s, Bounded(s), NEW f \in AnyFrame, f.type = "EffectCreated"
  PROVE  Grows(s, EffectCreated(s, f)) /\ Tells(s, EffectCreated(s, f), f)
<1>1. f.effect \in Effects /\ f.trigger \in Triggers BY DEF AnyFrame
<1>2. CASE ~EffectRoom(s, f.effect)
  BY <1>2, CapacityGrows DEF EffectCreated, Tells
<1>3. CASE EffectRoom(s, f.effect)
  <2>1. PICK t : t = WithEffect(s, f.effect) OBVIOUS
  <2>2. PICK u : u = StopEffects(t, {f.effect}) OBVIOUS
  <2>3. PICK v : v = [u EXCEPT !.triggered = @ \ {f.effect}] OBVIOUS
  <2>4. Grows(s, t) BY <1>1, <2>1, EffectGrows
  <2>5. t.started = s.started /\ t.paused = s.paused /\ t.muted = s.muted
    BY <1>1, <1>3, <2>1, EffectGrows
  <2>6. Grows(s, u) /\ Now(u) = Play(s.started \ {f.effect}, s.paused, s.muted)
    BY <2>2, <2>4, <2>5, StopGrows, Zenon
  <2>7. Grows(s, v) /\ Now(v) = Now(u)
    BY <2>3, <2>6 DEF Grows, Bounded, Sources, Now
  <2>8. EffectCreated(s, f) = SetTrigger(v, f.effect, f.trigger)
    BY <1>3, <2>1, <2>2, <2>3 DEF EffectCreated
  <2>9. Grows(s, SetTrigger(v, f.effect, f.trigger))
        /\ Now(SetTrigger(v, f.effect, f.trigger)) = Now(v)
    BY <1>1, <2>7, TriggerGrows, Zenon
  <2>10. Meaning(Now(s), f) = Play(s.started \ {f.effect}, s.paused, s.muted)
    BY DEF Meaning, Now, Play
  <2>11. QED BY <2>6, <2>7, <2>8, <2>9, <2>10 DEF Tells
<1>4. QED BY <1>2, <1>3

LEMMA ParametersTell ==
  ASSUME NEW s, Bounded(s), NEW f \in AnyFrame, f.type = "EffectParameters"
  PROVE  Grows(s, EffectParameters(s, f)) /\ Tells(s, EffectParameters(s, f), f)
<1>1. f.effect \in Effects /\ f.trigger \in Triggers /\ f.start \in BOOLEAN BY DEF AnyFrame
<1>2. CASE ~(f.effect \in s.effects \/ EffectRoom(s, f.effect))
  BY <1>2, CapacityGrows DEF EffectParameters, Tells
<1>3. CASE f.effect \in s.effects \/ EffectRoom(s, f.effect)
  <2>1. PICK t : t = WithEffect(s, f.effect) OBVIOUS
  <2>2. PICK u : u = SetTrigger(t, f.effect, f.trigger) OBVIOUS
  <2>3. Grows(s, t) BY <1>1, <2>1, EffectGrows
  <2>4. t.issues = {} => t.started = s.started /\ t.paused = s.paused /\ t.muted = s.muted
    BY <1>1, <2>1, EffectGrows
  <2>5. Grows(s, u) /\ Now(u) = Now(t) /\ u.issues = t.issues
    BY <1>1, <2>2, <2>3, TriggerGrows, Zenon
  <2>6. u.started = t.started /\ u.paused = t.paused /\ u.muted = t.muted
    BY <2>5 DEF Now, Play
  <2>7. EffectParameters(s, f) = IF f.start THEN Begin(u, f.effect) ELSE u
    BY <1>3, <2>1, <2>2 DEF EffectParameters
  <2>8. CASE f.start
    <3>1. Meaning(Now(s), f) = Play(s.started \union {f.effect}, s.paused, s.muted)
      BY <2>8 DEF Meaning, Now, Play
    <3>2. Grows(s, Begin(u, f.effect)) /\ Begin(u, f.effect).issues = u.issues
          /\ Now(Begin(u, f.effect)) = Play(u.started \union {f.effect}, u.paused, u.muted)
      BY <1>1, <2>5, BeginGrows, Zenon
    <3>3. QED BY <2>4, <2>5, <2>6, <2>7, <2>8, <3>1, <3>2 DEF Tells
  <2>9. CASE ~f.start
    <3>1. Meaning(Now(s), f) = Now(s) BY <2>9 DEF Meaning, Now, Play
    <3>2. QED BY <2>4, <2>5, <2>7, <2>9, <3>1 DEF Tells, Now
  <2>10. QED BY <2>8, <2>9
<1>4. QED BY <1>2, <1>3

LEMMA StartTells ==
  ASSUME NEW s, Bounded(s), NEW f \in AnyFrame, f.type = "Start"
  PROVE  Grows(s, StartEffect(s, f)) /\ Tells(s, StartEffect(s, f), f)
<1>1. f.effect \in Effects /\ f.solo \in BOOLEAN BY DEF AnyFrame
<1>2. CASE ~(f.effect \in s.effects \/ EffectRoom(s, f.effect))
  BY <1>2, CapacityGrows DEF StartEffect, Tells
<1>3. CASE f.effect \in s.effects \/ EffectRoom(s, f.effect)
  <2>1. PICK others : others = IF f.solo THEN OnDevice(f.effect[1]) \ {f.effect} ELSE {}
    OBVIOUS
  <2>2. PICK t : t = WithEffect(s, f.effect) OBVIOUS
  <2>3. PICK u : u = StopEffects(t, others) OBVIOUS
  <2>4. Grows(s, t) BY <1>1, <2>2, EffectGrows
  <2>5. t.issues = {} => t.started = s.started /\ t.paused = s.paused /\ t.muted = s.muted
    BY <1>1, <2>2, EffectGrows
  <2>6. Grows(s, u) /\ u.issues = t.issues
        /\ Now(u) = Play(t.started \ others, t.paused, t.muted)
    BY <2>3, <2>4, StopGrows, Zenon
  <2>7. u.started = t.started \ others /\ u.paused = t.paused /\ u.muted = t.muted
    BY <2>6 DEF Now, Play
  <2>8. StartEffect(s, f) = Begin(u, f.effect)
    BY <1>3, <2>1, <2>2, <2>3 DEF StartEffect
  <2>9. Meaning(Now(s), f) = Play((s.started \ others) \union {f.effect}, s.paused, s.muted)
    <3>1. s.started \subseteq Effects BY DEF Bounded, Sources
    <3>2. Meaning(Now(s), f).started = (s.started \ others) \union {f.effect}
      BY <1>1, <2>1, <3>1 DEF Meaning, Now, Play, OnDevice
    <3>3. QED BY <3>2 DEF Meaning, Now, Play
  <2>10. Grows(s, Begin(u, f.effect)) /\ Begin(u, f.effect).issues = u.issues
        /\ Now(Begin(u, f.effect)) = Play(u.started \union {f.effect}, u.paused, u.muted)
    BY <1>1, <2>6, BeginGrows, Zenon
  <2>11. QED BY <2>5, <2>6, <2>7, <2>8, <2>9, <2>10 DEF Tells
<1>4. QED BY <1>2, <1>3

LEMMA DeviceTells ==
  ASSUME NEW s, Bounded(s), NEW f \in AnyFrame, f.type = "DeviceCreated"
  PROVE  Grows(s, WithDevice(s, f.device)) /\ Tells(s, WithDevice(s, f.device), f)
<1>1. f.device \in Devices BY DEF AnyFrame
<1>2. Meaning(Now(s), f) = Now(s) BY DEF Meaning, Now, Play
<1>3. QED BY <1>1, <1>2, DeviceGrows DEF Tells, Now

LEMMA StopTells ==
  ASSUME NEW s, Bounded(s), NEW f \in AnyFrame, f.type = "Stop"
  PROVE  Grows(s, StopEffects(s, {f.effect})) /\ Tells(s, StopEffects(s, {f.effect}), f)
<1>1. Meaning(Now(s), f) = Play(s.started \ {f.effect}, s.paused, s.muted)
  BY DEF Meaning, Now, Play
<1>2. Grows(s, s) BY DEF Grows
<1>3. QED BY <1>1, <1>2, StopGrows, Zenon DEF Tells

LEMMA ReleaseTells ==
  ASSUME NEW s, Bounded(s), NEW f \in AnyFrame, f.type = "Release"
  PROVE  Grows(s, ReleaseEffect(s, f.effect)) /\ Tells(s, ReleaseEffect(s, f.effect), f)
<1>1. Meaning(Now(s), f) = Play(s.started \ {f.effect}, s.paused, s.muted)
  BY DEF Meaning, Now, Play
<1>2. PICK t : t = ReleaseEffect(s, f.effect) OBVIOUS
<1>3. t \in Sources /\ t.conns = s.conns /\ t.issues = s.issues /\ t.clipping = s.clipping
      /\ t.dropped = s.dropped /\ t.devices = s.devices /\ t.effects = s.effects \ {f.effect}
      /\ Now(t) = Play(s.started \ {f.effect}, s.paused, s.muted)
  BY <1>2 DEF ReleaseEffect, Bounded, Sources, Now
<1>4. Cardinality(t.effects) <= MaximumEffects
  <2>1. t.effects \subseteq s.effects /\ IsFiniteSet(s.effects) BY <1>3, BoundedIsFinite
  <2>2. Cardinality(t.effects) <= Cardinality(s.effects)
        /\ Cardinality(t.effects) \in Nat /\ Cardinality(s.effects) \in Nat
    BY <2>1, FS_Subset, FS_CardinalityType
  <2>3. QED BY <2>2, EngineConstants DEF Bounded
<1>5. QED BY <1>1, <1>2, <1>3, <1>4 DEF Tells, Grows, Bounded

LEMMA CommandTells ==
  ASSUME NEW s, Bounded(s), NEW f \in AnyFrame, f.type = "DeviceCommand"
  PROVE  Grows(s, DeviceCommand(s, f)) /\ Tells(s, DeviceCommand(s, f), f)
<1>1. PICK d : d = f.device OBVIOUS
<1>2. PICK B : B = f.bits OBVIOUS
<1>3. d \in Devices BY <1>1 DEF AnyFrame
<1>4. PICK device : device = WithDevice(s, d) OBVIOUS
<1>5. Grows(s, device) BY <1>3, <1>4, DeviceGrows
<1>6. CASE ~DeviceRoom(s, d)
  <2>1. DeviceCommand(s, f) = Capacity(s) BY <1>1, <1>6 DEF DeviceCommand, WithDevice
  <2>2. QED BY <2>1, CapacityGrows DEF Tells
<1>7. CASE DeviceRoom(s, d)
  <2>1. PICK started : started = IF B \intersect {"Reset", "StopAll"} # {}
                                 THEN s.started \ OnDevice(d) ELSE s.started
    OBVIOUS
  <2>2. PICK going : going = IF B \intersect {"Reset", "StopAll"} # {}
                                 THEN s.paused \ {d} ELSE s.paused
    OBVIOUS
  <2>3. PICK paused : paused = IF "Continue" \in B THEN s.paused \ {d}
                               ELSE IF "Pause" \in B THEN s.paused \union {d} ELSE going
    OBVIOUS
  <2>4. PICK muted : muted = IF "On" \in B THEN s.muted \ {d}
                             ELSE IF B \intersect {"Reset", "Off"} # {}
                             THEN s.muted \union {d} ELSE s.muted
    OBVIOUS
  <2>5. device.started = s.started /\ device.paused = s.paused /\ device.muted = s.muted
    BY <1>3, <1>4, <1>7, DeviceGrows
  <2>6. s.started \subseteq Effects /\ s.paused \subseteq Devices /\ s.muted \subseteq Devices
    BY DEF Bounded, Sources
  <2>7. started \subseteq Effects /\ paused \subseteq Devices /\ muted \subseteq Devices
    BY <1>3, <2>1, <2>2, <2>3, <2>4, <2>6
  <2>8. device \in Sources BY <1>5 DEF Grows, Bounded
  <2>9. PICK t : t = [device EXCEPT !.started = started, !.paused = paused, !.muted = muted]
    OBVIOUS
  <2>10. DeviceCommand(s, f) = t
    <3>1. PICK halted : halted =
            IF B \intersect {"Reset", "StopAll"} # {}
            THEN [StopEffects(device, OnDevice(d)) EXCEPT !.paused = @ \ {d}] ELSE device
      OBVIOUS
    <3>2. halted = [device EXCEPT !.started = started, !.paused = going]
      BY <2>1, <2>2, <2>5, <2>8, <3>1 DEF StopEffects, Sources
    <3>3. PICK p : p = IF "Pause" \in B THEN halted.paused \union {d} ELSE halted.paused
      OBVIOUS
    <3>4. (IF "Continue" \in B THEN p \ {d} ELSE p) = paused
      <4>1. halted.paused = going BY <2>8, <3>2 DEF Sources
      <4>2. QED BY <2>2, <2>3, <3>3, <4>1
    <3>5. PICK m : m = IF B \intersect {"Reset", "Off"} # {} THEN s.muted \union {d} ELSE s.muted
      OBVIOUS
    <3>6. (IF "On" \in B THEN m \ {d} ELSE m) = muted BY <2>4, <3>5
    <3>7. DeviceCommand(s, f) =
            [halted EXCEPT !.paused = IF "Continue" \in B THEN p \ {d} ELSE p,
                           !.muted = IF "On" \in B THEN m \ {d} ELSE m]
      BY <1>1, <1>2, <1>4, <1>7, <3>1, <3>3, <3>5, Zenon DEF DeviceCommand
    <3>8. DeviceCommand(s, f) = [halted EXCEPT !.paused = paused, !.muted = muted]
      BY <3>4, <3>6, <3>7, Zenon
    <3>9. QED BY <2>8, <2>9, <3>2, <3>8 DEF Sources
  <2>11. Now(t) = Play(started, paused, muted) BY <2>8, <2>9 DEF Now, Sources
  <2>12. Grows(s, t) BY <1>5, <2>7, <2>8, <2>9 DEF Grows, Bounded, Sources
  <2>13. Meaning(Now(s), f) = Play(started, paused, muted)
    <3>1. Meaning(Now(s), f).started = started
      BY <1>1, <1>2, <2>1, <2>6 DEF Meaning, Now, Play, OnDevice
    <3>2. Meaning(Now(s), f).paused = paused
      BY <1>1, <1>2, <2>2, <2>3 DEF Meaning, Now, Play
    <3>3. Meaning(Now(s), f).muted = muted
      BY <1>1, <1>2, <2>4 DEF Meaning, Now, Play
    <3>4. QED BY <3>1, <3>2, <3>3 DEF Meaning, Play
  <2>14. QED BY <2>10, <2>11, <2>12, <2>13 DEF Tells
<1>8. QED BY <1>6, <1>7

(* A notice of a loss is no news to a source that has an issue.            *)
LEMMA NoticeTells ==
  ASSUME NEW s, Bounded(s), s.dropped > 0 => s.issues # {},
         NEW f \in AnyFrame, f.type = "DropNotice"
  PROVE  /\ Grows(s, DropNotice(s, f)) /\ Tells(s, DropNotice(s, f), f)
         /\ DropNotice(s, f).issues = {} => f.count = 0
<1>1. f.count \in Nat BY DEF AnyFrame
<1>2. s.dropped \in Nat /\ s.conns \subseteq Conns /\ s.issues \subseteq Issues
  BY DEF Bounded, Sources
<1>3. Meaning(Now(s), f) = Now(s) BY DEF Meaning, Now, Play
<1>4. CASE IsNewLoss(s, f.count)
  <2>1. PICK t : t = DropNotice(s, f) OBVIOUS
  <2>2. t = [[NewSource EXCEPT !.conns = s.conns, !.dropped = s.dropped,
                               !.issues = s.issues \union {"FrameGap"}] EXCEPT !.dropped = f.count]
    BY <1>4, <2>1 DEF DropNotice, InvalidateAfterDrop
  <2>3. t = [conns |-> s.conns, dropped |-> f.count, issues |-> s.issues \union {"FrameGap"},
             devices |-> {}, paused |-> {}, muted |-> {}, effects |-> {}, started |-> {},
             triggered |-> {}, clipping |-> FALSE]
    BY <2>2 DEF NewSource
  <2>4. t \in Sources /\ t.issues # {} BY <1>1, <1>2, <2>3 DEF Sources, Issues
  <2>5. Bounded(t) BY <2>3, <2>4, NewIsBounded DEF Bounded, NewSource
  <2>6. Grows(s, t) BY <2>3, <2>4, <2>5 DEF Grows
  <2>7. QED BY <2>1, <2>4, <2>6 DEF Tells
<1>5. CASE ~IsNewLoss(s, f.count)
  BY <1>1, <1>2, <1>3, <1>5 DEF DropNotice, IsNewLoss, Grows, Tells
<1>6. QED BY <1>4, <1>5

LEMMA MeaningFits ==
  ASSUME NEW w \in Playback, NEW f \in AnyFrame
  PROVE  Meaning(w, f) \in Playback
<1>1. w.started \subseteq Effects /\ w.paused \subseteq Devices /\ w.muted \subseteq Devices
  BY DEF Playback
<1>3. CASE f.type = "DeviceCommand"
  <2>1. f.device \in Devices BY <1>3 DEF AnyFrame
  <2>2. Meaning(w, f).started \subseteq Effects BY <1>1, <1>3, Zenon DEF Meaning
  <2>3. QED BY <1>1, <1>3, <2>1 DEF Meaning, Playback
<1>4. CASE f.type \in {"Start", "EffectParameters"}
  <2>1. f.effect \in Effects BY <1>4 DEF AnyFrame
  <2>2. QED BY <1>1, <1>4, <2>1 DEF Meaning, Playback
<1>5. CASE f.type \in {"EffectCreated", "Stop", "Release"}
  BY <1>1, <1>5 DEF Meaning, Playback
<1>6. CASE f.type \in {"DropNotice", "Failed", "DeviceCreated"}
  BY <1>6 DEF Meaning
<1>7. QED BY <1>3, <1>4, <1>5, <1>6 DEF AnyFrame

(* What a call of Apply makes of a source.                                 *)
LEMMA ApplyTells ==
  ASSUME NEW s, Bounded(s), s.dropped > 0 => s.issues # {}, NEW f \in AnyFrame
  PROVE  /\ Grows(s, Apply(s, f)) /\ Tells(s, Apply(s, f), f)
         /\ f.type = "DropNotice" /\ f.count > 0 => Apply(s, f).issues # {}
<1>1. CASE f.type = "DropNotice" BY <1>1, NoticeTells DEF Apply, AnyFrame
<1>2. CASE f.type = "Failed"
  <2>1. Meaning(Now(s), f) = Now(s) BY <1>2 DEF Meaning, Now, Play
  <2>2. QED BY <1>2, <2>1 DEF Apply, Grows, Tells
<1>3. CASE f.type = "DeviceCreated" BY <1>3, DeviceTells DEF Apply
<1>4. CASE f.type = "EffectCreated" BY <1>4, CreatedTells DEF Apply
<1>5. CASE f.type = "EffectParameters" BY <1>5, ParametersTell DEF Apply
<1>6. CASE f.type = "Start" BY <1>6, StartTells DEF Apply
<1>7. CASE f.type = "Stop" BY <1>7, StopTells DEF Apply
<1>8. CASE f.type = "Release" BY <1>8, ReleaseTells DEF Apply
<1>9. CASE f.type = "DeviceCommand" BY <1>9, CommandTells DEF Apply
<1>10. f.type \in {"DropNotice", "Failed", "DeviceCreated", "EffectCreated", "EffectParameters",
                   "Start", "Stop", "Release", "DeviceCommand"}
  BY DEF AnyFrame
<1>11. QED BY <1>1, <1>2, <1>3, <1>4, <1>5, <1>6, <1>7, <1>8, <1>9, <1>10

(***************************************************************************)
(* The invariant of the engine.                                            *)
(***************************************************************************)

(* The readers that work for session k.                                    *)
Readers(k) == {c \in Conns : phase[c] = "open" /\ owner[c] = k}

SourcesFit ==
  /\ sources \in [Keys -> Sources] /\ tracked \subseteq Keys
  /\ Cardinality(tracked) <= MaximumSources
  /\ \A k \in Keys : Bounded(sources[k])

OrderIsTotal ==
  /\ order \subseteq tracked \X tracked
  /\ \A k, l \in tracked : <<k, l>> \in order <=> k # l /\ <<l, k>> \notin order

ReadersFit ==
  /\ sourceDrops \in BOOLEAN /\ owner \in [Conns -> Keys \union {NoKey}]
  /\ phase \in [Conns -> {"new", "open", "closed"}]
  /\ \A c \in Conns : phase[c] = "open" => owner[c] \in Keys

HistoryFits ==
  /\ edge \in [Keys -> {"ClippingStarted", "ClippingEnded"}]
  /\ heard \in [Keys -> Playback] /\ disturbed \subseteq Keys /\ evicted \subseteq Keys

(* The counter was never more than what the queue and the two threads      *)
(* hold, so a ticket bounds the queue until it is used.                    *)
QueueFits ==
  /\ outbox \in Seq(Transitions) /\ ticket \in Nat
  /\ transitions \in Seq(Transitions) /\ queuedCount \in Nat /\ taken \in BOOLEAN
  /\ Len(transitions) <= MaximumQueuedTransitions
  /\ QueueCountExact
  /\ ticket # 0 => outbox # <<>> /\ Len(transitions) < ticket

(* A source that has lost its connections, or frames, has an issue; it can *)
(* clip only while it is connected.                                        *)
SourceSound(k) ==
  /\ k \notin tracked => sources[k] = NewSource
  /\ k \in tracked /\ ~Connected(sources[k]) => sources[k].issues # {}
  /\ sources[k].dropped > 0 => sources[k].issues # {}
  /\ sources[k].clipping => Connected(sources[k])

EdgeTells(k) == sources[k].clipping <=> edge[k] = "ClippingStarted"

(* While no connection was refused, the connections of a source are those  *)
(* with a reader, and a source that has no issue missed nothing.           *)
Undisturbed(k) ==
  k \notin evicted /\ sources[k].issues = {} =>
    k \notin disturbed /\ Now(sources[k]) = heard[k]

AllHeard ==
  ~sourceDrops => \A k \in Keys : sources[k].conns = Readers(k) /\ Undisturbed(k)

EngineInv ==
  /\ SourcesFit /\ OrderIsTotal /\ ReadersFit /\ HistoryFits /\ QueueFits
  /\ \A k \in Keys : SourceSound(k) /\ EdgeTells(k)
  /\ AllHeard

(* An engine that has just begun, whatever has become of the pipes.        *)
Fresh ==
  /\ sources = [k \in Keys |-> NewSource]
  /\ tracked = {} /\ order = {} /\ sourceDrops = FALSE
  /\ owner = [c \in Conns |-> NoKey] /\ phase \in [Conns -> {"new", "closed"}]
  /\ outbox = <<>> /\ ticket = 0 /\ transitions = <<>> /\ queuedCount = 0 /\ taken = FALSE
  /\ edge = [k \in Keys |-> "ClippingEnded"] /\ heard = [k \in Keys |-> Silence]
  /\ disturbed = {} /\ evicted = {}

LEMMA FreshIsSound == Fresh => EngineInv
<1> SUFFICES ASSUME Fresh PROVE EngineInv OBVIOUS
<1>1. SourcesFit
  <2>1. sources = [k \in Keys |-> NewSource] /\ tracked = {} BY DEF Fresh
  <2>2. Cardinality(tracked) <= MaximumSources BY <2>1, FS_EmptySet, EngineConstants
  <2>3. QED BY <2>1, <2>2, NewIsBounded DEF SourcesFit, Bounded
<1>2. OrderIsTotal BY DEF Fresh, OrderIsTotal
<1>3. ReadersFit BY DEF Fresh, ReadersFit
<1>4. HistoryFits BY DEF Fresh, HistoryFits, Playback, Silence
<1>5. QueueFits
  <2>1. <<>> \in Seq(Transitions) /\ Len(<<>>) = 0 BY EmptySeq
  <2>2. outbox = <<>> /\ transitions = <<>> /\ ticket = 0 /\ queuedCount = 0 /\ taken = FALSE
    BY DEF Fresh
  <2>3. QueueCountExact BY <2>1, <2>2 DEF QueueCountExact
  <2>4. Len(transitions) <= MaximumQueuedTransitions BY <2>1, <2>2, EngineConstants
  <2>5. QED BY <2>1, <2>2, <2>3, <2>4 DEF QueueFits
<1>6. \A k \in Keys : SourceSound(k) /\ EdgeTells(k)
  BY DEF Fresh, SourceSound, EdgeTells, Connected, NewSource
<1>7. AllHeard
  <2> SUFFICES ASSUME NEW k \in Keys PROVE sources[k].conns = Readers(k) /\ Undisturbed(k)
    BY DEF AllHeard
  <2>1. Readers(k) = {} BY DEF Fresh, Readers
  <2>2. sources[k] = NewSource /\ heard[k] = Silence /\ k \notin disturbed BY DEF Fresh
  <2>3. QED BY <2>1, <2>2 DEF Undisturbed, NewSource, Now, Play, Silence
<1>8. QED BY <1>1, <1>2, <1>3, <1>4, <1>5, <1>6, <1>7 DEF EngineInv

LEMMA FreshNext == (Fresh => EngineInv)'
BY FreshIsSound, PTL

LEMMA StartsSound == ASSUME Init PROVE EngineInv
<1>1. Fresh BY DEF Init, Fresh
<1>2. QED BY <1>1, FreshIsSound

LEMMA SoundTypes == ASSUME EngineInv PROVE TypeOK
<1>1. \A k \in Keys : /\ Cardinality(sources[k].devices) <= MaximumDevices
                      /\ Cardinality(sources[k].effects) <= MaximumEffects
  BY DEF EngineInv, SourcesFit, Bounded
<1>2. QED
  BY <1>1 DEF EngineInv, TypeOK, SourcesFit, OrderIsTotal, ReadersFit, HistoryFits, QueueFits

(***************************************************************************)
(* The transition queue.                                                   *)
(***************************************************************************)

(* What the queue does says nothing of the sources.                        *)
LEMMA QueueMoves ==
  ASSUME EngineInv, UNCHANGED <<registry, history>>, QueueFits'
  PROVE  EngineInv'
<1>1. SourcesFit' BY DEF EngineInv, SourcesFit, Bounded, registry
<1>2. OrderIsTotal' BY DEF EngineInv, OrderIsTotal, registry
<1>3. ReadersFit' BY DEF EngineInv, ReadersFit, registry
<1>4. HistoryFits' BY DEF EngineInv, HistoryFits, history
<1>5. \A k \in Keys : (SourceSound(k) /\ EdgeTells(k))'
  BY DEF EngineInv, SourceSound, EdgeTells, registry, history
<1>6. AllHeard' BY DEF EngineInv, AllHeard, Readers, Undisturbed, registry, history
<1>7. QED BY <1>1, <1>2, <1>3, <1>4, <1>5, <1>6 DEF EngineInv

LEMMA CountsFit == ASSUME EngineInv, EnqueueCount PROVE QueueFits'
<1>1. PICK n : n = Len(transitions) OBVIOUS
<1>2. n \in Nat BY <1>1, LenProperties DEF EngineInv, QueueFits
<1>3. transitions' = transitions /\ outbox' = outbox /\ taken' = taken
      /\ queuedCount' = queuedCount + 1 /\ ticket' = queuedCount + 1
  BY DEF EnqueueCount
<1>4. queuedCount = n + (IF taken THEN 1 ELSE 0)
  BY <1>1 DEF EngineInv, QueueFits, QueueCountExact, EnqueueCount
<1>5. QueueCountExact'
  <2>1. ticket' # 0 BY <1>2, <1>3, <1>4
  <2>2. queuedCount' = n + 1 + (IF taken' THEN 1 ELSE 0) BY <1>2, <1>3, <1>4
  <2>3. Len(transitions') = n BY <1>1, <1>3
  <2>4. QED BY <2>1, <2>2, <2>3 DEF QueueCountExact
<1>6. n < ticket' BY <1>2, <1>3, <1>4
<1>7. QED BY <1>1, <1>2, <1>3, <1>5, <1>6 DEF EngineInv, QueueFits, EnqueueCount

LEMMA InsertsFit == ASSUME EngineInv, EnqueueInsert PROVE QueueFits'
<1>1. outbox # <<>> BY DEF EngineInv, QueueFits, EnqueueInsert
<1>2. Head(outbox) \in Transitions /\ Tail(outbox) \in Seq(Transitions)
  BY <1>1, HeadTailProperties DEF EngineInv, QueueFits
<1>3. PICK n : n = Len(transitions) OBVIOUS
<1>4. n \in Nat BY <1>3, LenProperties DEF EngineInv, QueueFits
<1>5. transitions' \in Seq(Transitions) /\ Len(transitions)' = n + 1
  BY <1>2, <1>3, AppendProperties DEF EngineInv, QueueFits, EnqueueInsert
<1>6. QED BY <1>2, <1>3, <1>4, <1>5, EngineConstants
  DEF EngineInv, QueueFits, EnqueueInsert, TicketFits, QueueCountExact

LEMMA ShedsFit == ASSUME EngineInv, EnqueueShed PROVE QueueFits'
<1>1. outbox # <<>> BY DEF EngineInv, QueueFits, EnqueueShed
<1>2. Tail(outbox) \in Seq(Transitions)
  BY <1>1, HeadTailProperties DEF EngineInv, QueueFits
<1>3. Len(transitions) \in Nat BY LenProperties DEF EngineInv, QueueFits
<1>4. QED BY <1>2, <1>3 DEF EngineInv, QueueFits, EnqueueShed, Uncount, QueueCountExact

LEMMA TakesFit == ASSUME EngineInv, DequeueTake PROVE QueueFits'
<1>1. PICK n : n = Len(transitions) OBVIOUS
<1>2. n \in Nat BY <1>1, LenProperties DEF EngineInv, QueueFits
<1>3. transitions' \in Seq(Transitions) /\ Len(transitions)' = n - 1
  BY <1>1, HeadTailProperties DEF EngineInv, QueueFits, DequeueTake
<1>4. QED BY <1>1, <1>2, <1>3, EngineConstants
  DEF EngineInv, QueueFits, DequeueTake, QueueCountExact

LEMMA UncountsFit == ASSUME EngineInv, DequeueCount PROVE QueueFits'
<1>1. PICK n : n = Len(transitions) OBVIOUS
<1>2. n \in Nat BY <1>1, LenProperties DEF EngineInv, QueueFits
<1>3. queuedCount = n + (IF ticket # 0 THEN 1 ELSE 0) + 1
  BY <1>1 DEF EngineInv, QueueFits, QueueCountExact, DequeueCount
<1>4. queuedCount' \in Nat /\ queuedCount' = n + (IF ticket # 0 THEN 1 ELSE 0)
  BY <1>2, <1>3 DEF DequeueCount, Uncount
<1>5. QueueCountExact' BY <1>1, <1>2, <1>4 DEF DequeueCount, QueueCountExact
<1>6. QED BY <1>1, <1>2, <1>4, <1>5 DEF EngineInv, QueueFits, DequeueCount

LEMMA QueueStaysSound ==
  ASSUME EngineInv,
         EnqueueCount \/ EnqueueInsert \/ EnqueueShed \/ DequeueTake \/ DequeueCount
  PROVE  EngineInv'
<1>1. CASE EnqueueCount BY <1>1, CountsFit, QueueMoves DEF EnqueueCount
<1>2. CASE EnqueueInsert BY <1>2, InsertsFit, QueueMoves DEF EnqueueInsert
<1>3. CASE EnqueueShed BY <1>3, ShedsFit, QueueMoves DEF EnqueueShed
<1>4. CASE DequeueTake BY <1>4, TakesFit, QueueMoves DEF DequeueTake
<1>5. CASE DequeueCount BY <1>5, UncountsFit, QueueMoves DEF DequeueCount
<1>6. QED BY <1>1, <1>2, <1>3, <1>4, <1>5

(* A call under _gate finds no ticket and leaves the queue to its thread.  *)
LEMMA CallsFit ==
  ASSUME EngineInv, GateIsFree, UNCHANGED <<ticket, transitions, queuedCount, taken>>,
         outbox' \in Seq(Transitions)
  PROVE  QueueFits'
BY DEF EngineInv, QueueFits, GateIsFree, QueueCountExact

(***************************************************************************)
(* The calls made under _gate.                                             *)
(***************************************************************************)

(* A call announces the episodes that it starts and those that it ends.    *)
Announces ==
  \A k \in Keys :
    /\ Enqueued("ClippingStarted", k) <=> sources'[k].clipping /\ ~sources[k].clipping
    /\ Enqueued("ClippingEnded", k) <=> sources[k].clipping /\ ~sources'[k].clipping
    /\ Enqueued("ClippingStarted", k) => k \in tracked

(* What EdgesTellClipping says of a step.                                  *)
AnnouncedOnce ==
  \A k \in Keys, kind \in {"ClippingStarted", "ClippingEnded"} :
    GateIsFree /\ Enqueued(kind, k) => edge[k] # kind /\ k \in tracked

LEMMA ClippingIsBoolean ==
  ASSUME EngineInv, NEW k \in Keys
  PROVE  sources[k].clipping \in BOOLEAN
BY DEF EngineInv, SourcesFit, Sources

LEMMA AnnouncingOnce == ASSUME EngineInv, Announces PROVE AnnouncedOnce
<1> SUFFICES ASSUME NEW k \in Keys, NEW kind \in {"ClippingStarted", "ClippingEnded"},
                    Enqueued(kind, k)
             PROVE  edge[k] # kind /\ k \in tracked
  BY DEF AnnouncedOnce
<1>1. EdgeTells(k) /\ SourceSound(k) BY DEF EngineInv
<1>2. CASE kind = "ClippingStarted" BY <1>1, <1>2 DEF Announces, EdgeTells
<1>3. CASE kind = "ClippingEnded"
  <2>1. sources[k].clipping BY <1>3 DEF Announces
  <2>2. k \in tracked BY <1>1, <2>1 DEF SourceSound, NewSource
  <2>3. QED BY <1>1, <1>3, <2>1, <2>2 DEF EdgeTells
<1>4. QED BY <1>2, <1>3

LEMMA AnnouncingTells ==
  ASSUME EngineInv, Announces, RecordEdges, \A k \in Keys : sources'[k].clipping \in BOOLEAN
  PROVE  /\ edge' \in [Keys -> {"ClippingStarted", "ClippingEnded"}]
         /\ \A k \in Keys : EdgeTells(k)'
<1>1. edge' \in [Keys -> {"ClippingStarted", "ClippingEnded"}]
  BY DEF EngineInv, HistoryFits, RecordEdges
<1>2. ASSUME NEW k \in Keys PROVE EdgeTells(k)'
  <2>1. EdgeTells(k) /\ sources[k].clipping \in BOOLEAN /\ sources'[k].clipping \in BOOLEAN
    BY ClippingIsBoolean DEF EngineInv
  <2>2. edge'[k] = IF Enqueued("ClippingStarted", k) THEN "ClippingStarted"
                   ELSE IF Enqueued("ClippingEnded", k) THEN "ClippingEnded" ELSE edge[k]
    BY DEF RecordEdges
  <2>3. QED BY <2>1, <2>2 DEF Announces, EdgeTells
<1>3. QED BY <1>1, <1>2

(* What a call may have to say: nothing, one transition or two.            *)
LEMMA SaysNothing ==
  ASSUME outbox' = <<>>
  PROVE  outbox' \in Seq(Transitions) /\ \A kind, k : ~Enqueued(kind, k)
<1>1. outbox' \in Seq(Transitions) /\ Len(outbox') = 0 BY EmptySeq
<1>2. DOMAIN outbox' = 1..0 BY <1>1, LenProperties
<1>3. QED BY <1>1, <1>2 DEF Enqueued

LEMMA SaysOne ==
  ASSUME NEW t \in Transitions, outbox' = <<t>>
  PROVE  /\ outbox' \in Seq(Transitions)
         /\ \A kind, k : Enqueued(kind, k) <=> t = Transition(kind, k)
BY DEF Enqueued

LEMMA SaysTwo ==
  ASSUME NEW t \in Transitions, NEW u \in Transitions, outbox' = <<t>> \o <<u>>
  PROVE  /\ outbox' \in Seq(Transitions)
         /\ \A kind, k :
              Enqueued(kind, k) <=> t = Transition(kind, k) \/ u = Transition(kind, k)
<1>1. <<t>> \in Seq(Transitions) /\ Len(<<t>>) = 1 /\ <<t>>[1] = t
      /\ <<u>> \in Seq(Transitions) /\ Len(<<u>>) = 1 /\ <<u>>[1] = u
  OBVIOUS
<1>2. outbox' \in Seq(Transitions) /\ Len(outbox') = 2
  BY <1>1, ConcatProperties
<1>3. outbox'[1] = t /\ outbox'[2] = u
  BY <1>1, ConcatProperties
<1>4. DOMAIN outbox' = 1..2 BY <1>2, LenProperties
<1>5. \A i \in DOMAIN outbox' : i = 1 \/ i = 2 BY <1>4
<1>6. 1 \in DOMAIN outbox' /\ 2 \in DOMAIN outbox' BY <1>4
<1>7. QED BY <1>2, <1>3, <1>5, <1>6, Zenon DEF Enqueued

(* What the calls of the readers leave: the rest of the invariant.         *)
LEMMA CallStaysSound ==
  ASSUME EngineInv, GateIsFree, UNCHANGED <<ticket, transitions, queuedCount, taken>>,
         outbox' \in Seq(Transitions), SourcesFit', OrderIsTotal', ReadersFit', HistoryFits',
         \A k \in Keys : (SourceSound(k) /\ EdgeTells(k))', AllHeard'
  PROVE  EngineInv'
BY CallsFit DEF EngineInv

(* The bound of the sources: another one is tracked only where is room.    *)
LEMMA TrackedFits ==
  ASSUME NEW S \in SUBSET Keys, Cardinality(S) <= MaximumSources,
         NEW k \in Keys, k \in S \/ Cardinality(S) < MaximumSources
  PROVE  Cardinality(S \union {k}) <= MaximumSources
BY RoomForOne, EngineConstants, FS_Subset

LEMMA FewerFit ==
  ASSUME NEW S \in SUBSET Keys, Cardinality(S) <= MaximumSources, NEW T \in SUBSET S
  PROVE  Cardinality(T) <= MaximumSources
<1>1. IsFiniteSet(S) BY EngineConstants, FS_Subset
<1>2. Cardinality(T) <= Cardinality(S) /\ IsFiniteSet(T) BY <1>1, FS_Subset
<1>3. Cardinality(T) \in Nat /\ Cardinality(S) \in Nat BY <1>1, <1>2, FS_CardinalityType
<1>4. QED BY <1>2, <1>3, EngineConstants

LEMMA LatestIsTotal ==
  ASSUME OrderIsTotal, NEW S, NEW k \in S, S \ {k} \subseteq tracked,
         tracked' = S, order' = Latest(k, S)
  PROVE  OrderIsTotal'
BY DEF OrderIsTotal, Latest

(* Hello: another source, or another connection of one.                    *)
LEMMA ConnectStaysSound ==
  ASSUME EngineInv, NEW k \in Keys, NEW c \in Conns, Connect(k, c)
  PROVE  EngineInv' /\ Announces
<1>1. SourcesFit /\ OrderIsTotal /\ ReadersFit /\ HistoryFits /\ AllHeard
      /\ \A l \in Keys : SourceSound(l) /\ EdgeTells(l)
  BY DEF EngineInv
<1>2. GateIsFree /\ UNCHANGED <<ticket, transitions, queuedCount, taken, edge, heard, disturbed>>
      /\ phase[c] = "new" /\ owner' = [owner EXCEPT ![c] = k] /\ Join(k, c)
      /\ phase' = [phase EXCEPT ![c] = "open"]
  BY DEF Connect
<1>3. PICK gone : gone = Victims(k) OBVIOUS
<1>4. PICK kept : kept = tracked \ gone OBVIOUS
<1>5. \A l \in gone : l \in tracked /\ ~Connected(sources[l])
  BY <1>3 DEF Victims, Evictable
<1>6. gone # {} => k \notin tracked BY <1>3 DEF Victims
<1>7. \A l \in Keys : Readers(l)' = IF l = k THEN Readers(l) \union {c} ELSE Readers(l)
  BY <1>1, <1>2 DEF ReadersFit, Readers
<1>8. CASE k \in tracked \/ SourceRoom(kept)
  <2>1. /\ tracked' = kept \union {k}
        /\ sources' = [l \in Keys |->
             IF l = k THEN [sources[k] EXCEPT !.conns = @ \union {c}]
             ELSE IF l \in gone THEN NewSource ELSE sources[l]]
        /\ order' = Latest(k, tracked')
        /\ outbox' = When(~Connected(sources[k]), <<Transition("SourceConnected", k)>>)
        /\ evicted' = evicted \union gone /\ UNCHANGED sourceDrops
    BY <1>2, <1>3, <1>4, <1>8 DEF Join
  <2>2. PICK joined : joined = [sources[k] EXCEPT !.conns = @ \union {c}] OBVIOUS
  <2>3. sources[k] \in Sources /\ Bounded(sources[k]) BY <1>1 DEF SourcesFit
  <2>4. joined \in Sources /\ joined.conns = sources[k].conns \union {c}
        /\ joined.dropped = sources[k].dropped /\ joined.issues = sources[k].issues
        /\ joined.devices = sources[k].devices /\ joined.effects = sources[k].effects
        /\ joined.clipping = sources[k].clipping /\ Now(joined) = Now(sources[k])
    BY <2>2, <2>3 DEF Sources, Now
  <2>5. SourcesFit'
    <3>1. sources' \in [Keys -> Sources]
      BY <1>1, <2>1, <2>2, <2>4, NewIsBounded DEF SourcesFit, Bounded
    <3>2. tracked' \subseteq Keys BY <1>1, <1>4, <2>1 DEF SourcesFit
    <3>3. Cardinality(tracked') <= MaximumSources
      <4>1. kept \subseteq Keys /\ Cardinality(kept) <= MaximumSources
        BY <1>1, <1>4, FewerFit DEF SourcesFit
      <4>2. k \in kept \/ Cardinality(kept) < MaximumSources
        BY <1>4, <1>6, <1>8 DEF SourceRoom
      <4>3. QED BY <2>1, <4>1, <4>2, TrackedFits
    <3>4. ASSUME NEW l \in Keys PROVE Bounded(sources'[l])
      BY <1>1, <2>1, <2>2, <2>3, <2>4, NewIsBounded DEF SourcesFit, Bounded
    <3>5. QED BY <3>1, <3>2, <3>3, <3>4 DEF SourcesFit, Bounded
  <2>6. OrderIsTotal'
    BY <1>1, <1>4, <2>1, LatestIsTotal
  <2>7. ReadersFit' BY <1>1, <1>2, <2>1 DEF ReadersFit
  <2>8. HistoryFits' BY <1>1, <1>2, <1>5, <2>1 DEF HistoryFits, SourcesFit
  <2>9. /\ outbox' \in Seq(Transitions)
        /\ \A l : ~Enqueued("ClippingStarted", l) /\ ~Enqueued("ClippingEnded", l)
    <3>1. Transition("SourceConnected", k) \in Transitions BY DEF Transition, Transitions
    <3>2. CASE Connected(sources[k])
      BY <2>1, <3>2, SaysNothing DEF When
    <3>3. CASE ~Connected(sources[k])
      <4>1. outbox' = <<Transition("SourceConnected", k)>> BY <2>1, <3>3 DEF When
      <4>2. QED BY <3>1, <4>1, SaysOne DEF Transition
    <3>4. QED BY <3>2, <3>3
  <2>10. \A l \in Keys : sources'[l].clipping = sources[l].clipping
    <3>1. \A l \in gone : l \in Keys /\ ~sources[l].clipping
      BY <1>1, <1>5, ClippingIsBoolean DEF SourceSound, SourcesFit
    <3>2. \A l \in gone : sources[l].clipping = NewSource.clipping
      BY <3>1, ClippingIsBoolean DEF NewSource
    <3>3. QED BY <2>1, <2>2, <2>4, <3>2
  <2>11. \A l \in Keys : (SourceSound(l) /\ EdgeTells(l))'
    <3> TAKE l \in Keys
    <3>1. EdgeTells(l)' BY <1>1, <1>2, <2>10 DEF EdgeTells
    <3>2. CASE l = k
      <4>1. sources'[l] = joined /\ k \in tracked' BY <2>1, <2>2, <3>2
      <4>2. Connected(joined) BY <2>4 DEF Connected
      <4>3. joined.dropped > 0 => joined.issues # {}
        BY <1>1, <2>4 DEF SourceSound
      <4>4. QED BY <3>1, <3>2, <4>1, <4>2, <4>3 DEF SourceSound
    <3>3. CASE l # k /\ l \in gone
      <4>1. sources'[l] = NewSource /\ l \notin tracked' BY <1>4, <2>1, <3>3
      <4>2. QED BY <3>1, <4>1 DEF SourceSound, NewSource
    <3>4. CASE l # k /\ l \notin gone
      <4>1. sources'[l] = sources[l] /\ (l \in tracked' <=> l \in tracked)
        BY <1>4, <2>1, <3>4
      <4>2. QED BY <1>1, <3>1, <4>1 DEF SourceSound
    <3>5. QED BY <3>2, <3>3, <3>4
  <2>12. AllHeard'
    <3> SUFFICES ASSUME ~sourceDrops', NEW l \in Keys
                 PROVE  sources'[l].conns = Readers(l)' /\ Undisturbed(l)'
      BY DEF AllHeard
    <3>1. sources[l].conns = Readers(l) /\ Undisturbed(l) BY <1>1, <2>1 DEF AllHeard
    <3>2. CASE l = k
      <4>1. sources'[l] = joined BY <2>1, <2>2, <3>2
      <4>2. l \notin evicted' => l \notin evicted BY <2>1
      <4>3. QED BY <1>2, <1>7, <2>4, <3>1, <3>2, <4>1, <4>2 DEF Undisturbed
    <3>3. CASE l # k /\ l \in gone
      <4>1. sources'[l] = NewSource /\ l \in evicted' BY <2>1, <3>3
      <4>2. Readers(l) = {} BY <1>5, <3>1, <3>3 DEF Connected
      <4>3. QED BY <1>7, <3>3, <4>1, <4>2 DEF NewSource, Undisturbed
    <3>4. CASE l # k /\ l \notin gone
      <4>1. sources'[l] = sources[l] /\ (l \notin evicted' => l \notin evicted)
        BY <2>1, <3>4
      <4>2. QED BY <1>2, <1>7, <3>1, <3>4, <4>1 DEF Undisturbed
    <3>5. QED BY <3>2, <3>3, <3>4
  <2>13. EngineInv'
    BY <1>2, <2>5, <2>6, <2>7, <2>8, <2>9, <2>11, <2>12, CallStaysSound
  <2>14. QED BY <2>9, <2>10, <2>13, ClippingIsBoolean DEF Announces
<1>9. CASE ~(k \in tracked \/ SourceRoom(kept))
  <2>1. sourceDrops' = TRUE /\ UNCHANGED <<sources, tracked, order, outbox, evicted>>
    BY <1>2, <1>3, <1>4, <1>9 DEF Join, Refuse
  <2>2. SourcesFit' BY <1>1, <2>1 DEF SourcesFit, Bounded
  <2>3. OrderIsTotal' BY <1>1, <2>1 DEF OrderIsTotal
  <2>4. ReadersFit' BY <1>1, <1>2, <2>1 DEF ReadersFit
  <2>5. HistoryFits' BY <1>1, <1>2, <2>1 DEF HistoryFits
  <2>6. \A l \in Keys : (SourceSound(l) /\ EdgeTells(l))'
    BY <1>1, <1>2, <2>1 DEF SourceSound, EdgeTells
  <2>7. AllHeard' BY <2>1 DEF AllHeard
  <2>8. outbox' = <<>> BY <1>2, <2>1 DEF GateIsFree
  <2>9. outbox' \in Seq(Transitions) /\ \A kind, l : ~Enqueued(kind, l)
    BY <2>8, SaysNothing
  <2>10. EngineInv' BY <1>2, <2>2, <2>3, <2>4, <2>5, <2>6, <2>7, <2>9, CallStaysSound
  <2>11. QED BY <2>1, <2>9, <2>10, ClippingIsBoolean DEF Announces
<1>10. QED BY <1>8, <1>9

(* The end of a connection, with or without that of its session.           *)
LEMMA DisconnectStaysSound ==
  ASSUME EngineInv, NEW c \in Conns, Disconnect(c)
  PROVE  EngineInv' /\ Announces
<1>1. SourcesFit /\ OrderIsTotal /\ ReadersFit /\ HistoryFits /\ AllHeard
      /\ \A l \in Keys : SourceSound(l) /\ EdgeTells(l)
  BY DEF EngineInv
<1>2. /\ GateIsFree /\ phase[c] = "open" /\ phase' = [phase EXCEPT ![c] = "closed"]
      /\ Leave(owner[c], c) /\ RecordEdges
      /\ disturbed' = IF \E d \in Conns \ {c} : phase[d] = "open" /\ owner[d] = owner[c]
                      THEN disturbed ELSE disturbed \union {owner[c]}
      /\ UNCHANGED <<tracked, order, sourceDrops, owner, ticket, transitions, queuedCount, taken,
                     heard, evicted>>
  BY DEF Disconnect
<1>3. PICK k : k = owner[c] OBVIOUS
<1>4. k \in Keys BY <1>1, <1>2, <1>3 DEF ReadersFit
<1>5. \A l \in Keys : Readers(l)' = Readers(l) \ {c} /\ (l # k => c \notin Readers(l))
  BY <1>1, <1>2, <1>3 DEF ReadersFit, Readers
<1>6. k \in disturbed' => k \in disturbed \/ Readers(k) \ {c} = {}
  BY <1>2, <1>3 DEF Readers
<1>7. \A l \in Keys : l # k => (l \in disturbed' <=> l \in disturbed)
  BY <1>2, <1>3
<1>8. OrderIsTotal' BY <1>1, <1>2 DEF OrderIsTotal
<1>9. ReadersFit' BY <1>1, <1>2 DEF ReadersFit
<1>10. disturbed' \subseteq Keys BY <1>1, <1>2, <1>3, <1>4 DEF HistoryFits
<1>11. PICK left : left = [sources[k] EXCEPT !.conns = @ \ {c}] OBVIOUS
<1>12. sources[k] \in Sources /\ Bounded(sources[k]) BY <1>1, <1>4 DEF SourcesFit
<1>13. left \in Sources /\ left.conns = sources[k].conns \ {c}
       /\ left.dropped = sources[k].dropped /\ left.issues = sources[k].issues
       /\ left.devices = sources[k].devices /\ left.effects = sources[k].effects
       /\ left.clipping = sources[k].clipping /\ Now(left) = Now(sources[k])
  BY <1>11, <1>12 DEF Sources, Now
<1>14. PICK s : s = IF k \notin tracked THEN sources[k]
                    ELSE IF Connected(left) THEN left ELSE ResetAfterDisconnect(left)
  OBVIOUS
<1>15. sources' = [sources EXCEPT ![k] = s]
  BY <1>1, <1>2, <1>3, <1>4, <1>11, <1>14 DEF Leave, SourcesFit
<1>16. sources'[k] = s /\ \A l \in Keys : l # k => sources'[l] = sources[l]
  BY <1>1, <1>4, <1>15 DEF SourcesFit
<1>17. k \in tracked /\ ~Connected(left) =>
         /\ s \in Sources /\ s.conns = left.conns /\ s.issues = left.issues \union {"SessionReconnect"}
         /\ s.dropped = left.dropped /\ s.clipping = FALSE
         /\ s.devices = left.devices /\ s.effects = left.effects
  BY <1>13, <1>14 DEF ResetAfterDisconnect, Sources, Issues
<1>18. s \in Sources /\ s.devices = sources[k].devices /\ s.effects = sources[k].effects
       /\ s.dropped = sources[k].dropped /\ sources[k].issues \subseteq s.issues
  BY <1>12, <1>13, <1>14, <1>17
<1>19. SourcesFit'
  <2>1. sources' \in [Keys -> Sources] BY <1>1, <1>15, <1>18 DEF SourcesFit
  <2>2. \A l \in Keys : Bounded(sources'[l])
    BY <1>1, <1>12, <1>16, <1>18 DEF SourcesFit, Bounded
  <2>3. QED BY <1>1, <1>2, <2>1, <2>2 DEF SourcesFit, Bounded
<1>20. SourceSound(k)'
  <2>1. SourceSound(k) BY <1>1, <1>4
  <2>2. CASE k \notin tracked
    BY <1>2, <1>14, <1>16, <2>1, <2>2 DEF SourceSound
  <2>3. CASE k \in tracked /\ Connected(left)
    BY <1>2, <1>13, <1>14, <1>16, <2>1, <2>3 DEF SourceSound
  <2>4. CASE k \in tracked /\ ~Connected(left)
    BY <1>2, <1>16, <1>17, <2>1, <2>4 DEF SourceSound
  <2>5. QED BY <2>2, <2>3, <2>4
<1>21. \A l \in Keys : SourceSound(l)'
  BY <1>1, <1>2, <1>16, <1>20 DEF SourceSound
<1>22. AllHeard'
  <2> SUFFICES ASSUME ~sourceDrops, NEW l \in Keys
               PROVE  sources'[l].conns = Readers(l)' /\ Undisturbed(l)'
    BY <1>2 DEF AllHeard
  <2>1. sources[l].conns = Readers(l) /\ Undisturbed(l) BY <1>1 DEF AllHeard
  <2>2. CASE l # k
    BY <1>2, <1>5, <1>7, <1>16, <2>1, <2>2 DEF Undisturbed
  <2>3. CASE l = k
    <3>1. c \in Readers(k) BY <1>2, <1>3 DEF Readers
    <3>2. k \in tracked BY <1>1, <1>4, <2>1, <2>3, <3>1 DEF SourceSound, NewSource
    <3>3. left.conns = Readers(k)' BY <1>5, <1>13, <2>1, <2>3
    <3>4. CASE Connected(left)
      <4>1. s = left BY <1>14, <3>2, <3>4
      <4>2. k \in disturbed' => k \in disturbed BY <1>5, <1>6, <2>3, <3>3, <3>4 DEF Connected
      <4>3. QED BY <1>2, <1>13, <1>16, <2>1, <2>3, <3>3, <4>1, <4>2 DEF Undisturbed
    <3>5. CASE ~Connected(left)
      BY <1>16, <1>17, <2>3, <3>2, <3>3, <3>5 DEF Undisturbed
    <3>6. QED BY <3>4, <3>5
  <2>4. QED BY <2>2, <2>3
<1>23. /\ outbox' \in Seq(Transitions)
       /\ \A l : /\ ~Enqueued("ClippingStarted", l)
                 /\ Enqueued("ClippingEnded", l) <=>
                      l = k /\ k \in tracked /\ ~Connected(left) /\ sources[k].clipping
  <2>1. CASE k \notin tracked \/ Connected(left)
    <3>1. outbox' = <<>> BY <1>2, <1>3, <1>11, <2>1 DEF Leave, GateIsFree
    <3>2. QED BY <2>1, <3>1, SaysNothing
  <2>2. CASE k \in tracked /\ ~Connected(left)
    <3>1. outbox' = When(left.clipping, <<Transition("ClippingEnded", k)>>)
                      \o <<Transition("SourceDisconnected", k)>>
      BY <1>2, <1>3, <1>11, <2>2 DEF Leave
    <3>2. Transition("ClippingEnded", k) \in Transitions
          /\ Transition("SourceDisconnected", k) \in Transitions
      BY <1>4 DEF Transition, Transitions
    <3>3. CASE sources[k].clipping
      <4>1. outbox' = <<Transition("ClippingEnded", k)>> \o <<Transition("SourceDisconnected", k)>>
        BY <1>13, <3>1, <3>3 DEF When
      <4>2. PICK t, u : t = Transition("ClippingEnded", k) /\ u = Transition("SourceDisconnected", k)
        OBVIOUS
      <4>3. outbox' \in Seq(Transitions) /\ \A kind, l :
              Enqueued(kind, l) <=> t = Transition(kind, l) \/ u = Transition(kind, l)
        BY <3>2, <4>1, <4>2, SaysTwo, Zenon
      <4>4. \A l : /\ t = Transition("ClippingEnded", l) <=> l = k
                   /\ u # Transition("ClippingEnded", l)
                   /\ t # Transition("ClippingStarted", l) /\ u # Transition("ClippingStarted", l)
        BY <4>2 DEF Transition
      <4>5. QED BY <2>2, <3>3, <4>3, <4>4
    <3>4. CASE ~sources[k].clipping
      <4>1. outbox' = <<Transition("SourceDisconnected", k)>>
        BY <1>13, <3>1, <3>4 DEF When
      <4>2. QED BY <3>2, <3>4, <4>1, SaysOne DEF Transition
    <3>5. QED BY <3>3, <3>4
  <2>3. QED BY <2>1, <2>2
<1>24. \A l \in Keys : sources'[l].clipping \in BOOLEAN
  BY <1>19 DEF SourcesFit, Sources
<1>25. Announces
  <2> SUFFICES ASSUME NEW l \in Keys
               PROVE  /\ Enqueued("ClippingStarted", l)
                           <=> sources'[l].clipping /\ ~sources[l].clipping
                      /\ Enqueued("ClippingEnded", l)
                           <=> sources[l].clipping /\ ~sources'[l].clipping
                      /\ Enqueued("ClippingStarted", l) => l \in tracked
    BY DEF Announces
  <2>1. CASE l # k BY <1>16, <1>23, <2>1
  <2>2. CASE l = k BY <1>13, <1>14, <1>16, <1>17, <1>23, <2>2
  <2>3. QED BY <2>1, <2>2
<1>26. edge' \in [Keys -> {"ClippingStarted", "ClippingEnded"}] /\ \A l \in Keys : EdgeTells(l)'
  BY <1>2, <1>24, <1>25, AnnouncingTells
<1>27. HistoryFits' BY <1>1, <1>2, <1>10, <1>26 DEF HistoryFits
<1>28. QED
  BY <1>2, <1>8, <1>9, <1>19, <1>21, <1>22, <1>23, <1>25, <1>26, <1>27, CallStaysSound

(* A frame, of one of the names of a session.                              *)
LEMMA FrameStaysSound ==
  ASSUME EngineInv, NEW c \in Conns, NEW f \in AnyFrame, ProcessFrame(c, f)
  PROVE  EngineInv' /\ Announces
<1>1. SourcesFit /\ OrderIsTotal /\ ReadersFit /\ HistoryFits /\ AllHeard
      /\ \A l \in Keys : SourceSound(l) /\ EdgeTells(l)
  BY DEF EngineInv
<1>2. /\ GateIsFree /\ phase[c] = "open" /\ Receive(owner[c], f) /\ RecordEdges
      /\ heard' = [heard EXCEPT ![owner[c]] = Meaning(@, f)]
      /\ disturbed' = IF f.type = "DropNotice" /\ f.count > 0
                      THEN disturbed \union {owner[c]} ELSE disturbed
      /\ UNCHANGED <<tracked, sourceDrops, owner, phase, ticket, transitions, queuedCount, taken,
                     evicted>>
  BY DEF ProcessFrame, Hear
<1>3. PICK k : k = owner[c] OBVIOUS
<1>4. k \in Keys BY <1>1, <1>2, <1>3 DEF ReadersFit
<1>5. PICK s : s = sources[k] OBVIOUS
<1>6. PICK t : t = IF k \notin tracked \/ ~Connected(s) THEN s ELSE Apply(s, f) OBVIOUS
<1>7. Bounded(s) /\ (s.dropped > 0 => s.issues # {}) /\ (s.clipping => Connected(s))
  BY <1>1, <1>4, <1>5 DEF SourcesFit, SourceSound
<1>8. Grows(s, Apply(s, f)) /\ Tells(s, Apply(s, f), f)
      /\ (f.type = "DropNotice" /\ f.count > 0 => Apply(s, f).issues # {})
  BY <1>7, ApplyTells
<1>9. Grows(s, t) BY <1>6, <1>7, <1>8 DEF Grows
<1>10. sources' = [sources EXCEPT ![k] = t]
  BY <1>1, <1>2, <1>3, <1>4, <1>5, <1>6 DEF Receive, SourcesFit
<1>11. sources'[k] = t /\ \A l \in Keys : l # k => sources'[l] = sources[l]
  BY <1>1, <1>4, <1>10 DEF SourcesFit
<1>12. SourcesFit'
  <2>1. \A l \in Keys : Bounded(sources'[l]) BY <1>1, <1>9, <1>11 DEF SourcesFit, Grows
  <2>2. sources' \in [Keys -> Sources] BY <1>1, <1>9, <1>10 DEF SourcesFit, Grows, Bounded
  <2>3. QED BY <1>1, <1>2, <2>1, <2>2 DEF SourcesFit, Bounded
<1>13. OrderIsTotal'
  <2>1. CASE k \notin tracked \/ ~Connected(s)
    BY <1>1, <1>2, <1>3, <1>5, <2>1 DEF Receive, OrderIsTotal
  <2>2. CASE k \in tracked /\ Connected(s)
    BY <1>1, <1>2, <1>3, <1>5, <2>2, LatestIsTotal DEF Receive, Touch
  <2>3. QED BY <2>1, <2>2
<1>14. ReadersFit' BY <1>1, <1>2 DEF ReadersFit
<1>15. \A l \in Keys : SourceSound(l)'
  <2> TAKE l \in Keys
  <2>1. SourceSound(l) BY <1>1
  <2>2. CASE l # k
    <3>1. sources'[l] = sources[l] /\ tracked' = tracked BY <1>2, <1>11, <2>2
    <3>2. QED BY <2>1, <3>1 DEF SourceSound
  <2>3. CASE l = k
    <3>1. sources'[l] = t /\ sources[l] = s /\ tracked' = tracked BY <1>2, <1>5, <1>11, <2>3
    <3>2. t.conns = s.conns /\ s.issues \subseteq t.issues /\ (t.clipping => s.clipping)
          /\ (t.dropped > 0 => s.dropped > 0 \/ t.issues # {})
      BY <1>9 DEF Grows
    <3>3. l \notin tracked => t = s BY <1>6, <2>3
    <3>4. QED BY <2>1, <3>1, <3>2, <3>3 DEF SourceSound, Connected
  <2>4. QED BY <2>2, <2>3
<1>16. heard' \in [Keys -> Playback] /\ disturbed' \subseteq Keys
  <2>1. heard[k] \in Playback BY <1>1, <1>4 DEF HistoryFits
  <2>2. Meaning(heard[k], f) \in Playback BY <2>1, MeaningFits
  <2>3. QED BY <1>1, <1>2, <1>3, <1>4, <2>2 DEF HistoryFits
<1>17. AllHeard'
  <2> SUFFICES ASSUME ~sourceDrops, NEW l \in Keys
               PROVE  sources'[l].conns = Readers(l)' /\ Undisturbed(l)'
    BY <1>2 DEF AllHeard
  <2>1. sources[l].conns = Readers(l) /\ Undisturbed(l) BY <1>1 DEF AllHeard
  <2>2. Readers(l)' = Readers(l) BY <1>2 DEF Readers
  <2>3. CASE l # k
    BY <1>1, <1>2, <1>3, <1>11, <2>1, <2>2, <2>3 DEF Undisturbed, HistoryFits
  <2>4. CASE l = k
    <3>1. c \in Readers(k) BY <1>2, <1>3 DEF Readers
    <3>2. k \in tracked /\ Connected(s)
      BY <1>1, <1>4, <1>5, <2>1, <2>4, <3>1 DEF SourceSound, NewSource, Connected
    <3>3. t = Apply(s, f) BY <1>6, <3>2
    <3>4. heard'[k] = Meaning(heard[k], f) BY <1>1, <1>2, <1>3, <1>4 DEF HistoryFits
    <3>5. t.issues = {} => s.issues = {} BY <1>9 DEF Grows
    <3>6. t.issues = {} => Now(t) = Meaning(Now(s), f) /\ (k \in disturbed' => k \in disturbed)
      BY <1>2, <1>8, <3>3 DEF Tells
    <3>7. QED
      BY <1>2, <1>5, <1>9, <1>11, <2>1, <2>2, <2>4, <3>4, <3>5, <3>6 DEF Undisturbed, Grows
  <2>5. QED BY <2>3, <2>4
<1>18. /\ outbox' \in Seq(Transitions)
       /\ \A l : /\ ~Enqueued("ClippingStarted", l)
                 /\ Enqueued("ClippingEnded", l) <=> l = k /\ s.clipping /\ ~t.clipping
  <2>1. CASE s.clipping /\ ~t.clipping
    <3>1. outbox' = <<Transition("ClippingEnded", k)>>
      BY <1>2, <1>3, <1>5, <1>6, <2>1 DEF Receive, EndsEpisode, When
    <3>2. PICK u : u = Transition("ClippingEnded", k) OBVIOUS
    <3>3. u \in Transitions BY <1>4, <3>2 DEF Transition, Transitions
    <3>4. outbox' \in Seq(Transitions) /\ \A kind, l : Enqueued(kind, l) <=> u = Transition(kind, l)
      BY <3>1, <3>2, <3>3, SaysOne, Zenon
    <3>5. \A l : /\ u = Transition("ClippingEnded", l) <=> l = k
                 /\ u # Transition("ClippingStarted", l)
      BY <3>2 DEF Transition
    <3>6. QED BY <2>1, <3>4, <3>5
  <2>2. CASE ~(s.clipping /\ ~t.clipping)
    <3>1. outbox' = <<>>
      BY <1>2, <1>3, <1>5, <1>6, <2>2 DEF Receive, EndsEpisode, When, GateIsFree
    <3>2. QED BY <2>2, <3>1, SaysNothing
  <2>3. QED BY <2>1, <2>2
<1>19. \A l \in Keys : sources'[l].clipping \in BOOLEAN
  BY <1>12 DEF SourcesFit, Sources
<1>20. Announces
  <2> SUFFICES ASSUME NEW l \in Keys
               PROVE  /\ Enqueued("ClippingStarted", l)
                           <=> sources'[l].clipping /\ ~sources[l].clipping
                      /\ Enqueued("ClippingEnded", l)
                           <=> sources[l].clipping /\ ~sources'[l].clipping
                      /\ Enqueued("ClippingStarted", l) => l \in tracked
    BY DEF Announces
  <2>1. CASE l # k BY <1>11, <1>18, <2>1
  <2>2. CASE l = k BY <1>5, <1>9, <1>11, <1>18, <2>2 DEF Grows
  <2>3. QED BY <2>1, <2>2
<1>21. edge' \in [Keys -> {"ClippingStarted", "ClippingEnded"}] /\ \A l \in Keys : EdgeTells(l)'
  BY <1>2, <1>19, <1>20, AnnouncingTells
<1>22. HistoryFits' BY <1>1, <1>2, <1>16, <1>21 DEF HistoryFits
<1>23. QED
  BY <1>2, <1>12, <1>13, <1>14, <1>15, <1>17, <1>18, <1>20, <1>21, <1>22, CallStaysSound

(* The transitions of one kind for a set of sessions.                      *)
LEMMA TransitionsOf ==
  ASSUME NEW kind \in {"ClippingStarted", "ClippingEnded"}, NEW K \in SUBSET Keys
  PROVE  /\ {Transition(kind, k) : k \in K} \subseteq Transitions
         /\ IsFiniteSet({Transition(kind, k) : k \in K})
<1>1. {Transition(kind, k) : k \in K} \subseteq Transitions BY DEF Transition, Transitions
<1>2. IsFiniteSet(K) BY EngineConstants, FS_Subset
<1>3. [k \in K |-> Transition(kind, k)] \in Surjection(K, {Transition(kind, k) : k \in K})
  BY DEF Surjection
<1>4. QED BY <1>1, <1>2, <1>3, FS_Surjection

(* A walk through a set is a sequence of its members, all of them.         *)
LEMMA OrdersAreWalks ==
  ASSUME NEW S \in SUBSET Transitions, IsFiniteSet(S), outbox' \in Orders(S)
  PROVE  /\ outbox' \in Seq(Transitions)
         /\ \A kind, k : Enqueued(kind, k) <=> Transition(kind, k) \in S
<1>1. PICK n : n = Cardinality(S) OBVIOUS
<1>2. n \in Nat BY <1>1, FS_CardinalityType
<1>3. outbox' \in [1..n -> S] /\ \A x \in S : \E i \in DOMAIN outbox' : outbox'[i] = x
  BY <1>1 DEF Orders
<1>4. outbox' \in Seq(S) BY <1>2, <1>3, SeqDef
<1>5. outbox' \in Seq(Transitions) BY <1>4, SeqMonotonic
<1>6. QED BY <1>3, <1>5 DEF Enqueued

(* The timer: every source is evaluated.                                   *)
LEMMA TickStaysSound ==
  ASSUME EngineInv, Tick
  PROVE  EngineInv' /\ Announces
<1>1. SourcesFit /\ OrderIsTotal /\ ReadersFit /\ HistoryFits /\ AllHeard
      /\ \A l \in Keys : SourceSound(l) /\ EdgeTells(l)
  BY DEF EngineInv
<1>2. GateIsFree /\ RecordEdges
      /\ UNCHANGED <<tracked, order, sourceDrops, owner, phase, ticket, transitions, queuedCount,
                     taken, heard, disturbed, evicted>>
  BY DEF Tick
<1>3. PICK clipped : clipped = {k \in tracked : sources[k].clipping} OBVIOUS
<1>4. PICK C \in SUBSET {k \in tracked : MayClip(k)} :
        /\ sources' = ClippingAfterTick(C)
        /\ outbox' \in Orders({Transition("ClippingStarted", k) : k \in C \ clipped}
                          \union {Transition("ClippingEnded", k) : k \in clipped \ C})
  BY <1>3 DEF Tick
<1>5. tracked \subseteq Keys BY <1>1 DEF SourcesFit
<1>6. C \subseteq Keys /\ clipped \subseteq Keys BY <1>3, <1>4, <1>5
<1>7. PICK S : S = {Transition("ClippingStarted", k) : k \in C \ clipped} OBVIOUS
<1>8. PICK E : E = {Transition("ClippingEnded", k) : k \in clipped \ C} OBVIOUS
<1>9. S \subseteq Transitions /\ IsFiniteSet(S)
  <2>1. C \ clipped \in SUBSET Keys BY <1>6
  <2>2. QED BY <1>7, <2>1, TransitionsOf
<1>10. E \subseteq Transitions /\ IsFiniteSet(E)
  <2>1. clipped \ C \in SUBSET Keys BY <1>6
  <2>2. QED BY <1>8, <2>1, TransitionsOf
<1>11. S \union E \in SUBSET Transitions /\ IsFiniteSet(S \union E)
  BY <1>9, <1>10, FS_Union
<1>12. outbox' \in Orders(S \union E) BY <1>4, <1>7, <1>8
<1>13. outbox' \in Seq(Transitions)
       /\ \A kind, k : Enqueued(kind, k) <=> Transition(kind, k) \in S \union E
  BY <1>11, <1>12, OrdersAreWalks
<1>14. \A k : /\ Enqueued("ClippingStarted", k) <=> k \in C \ clipped
              /\ Enqueued("ClippingEnded", k) <=> k \in clipped \ C
  <2> TAKE k
  <2>1. Transition("ClippingStarted", k) \in S <=> k \in C \ clipped
    BY <1>7 DEF Transition
  <2>2. Transition("ClippingStarted", k) \notin E BY <1>8 DEF Transition
  <2>3. Transition("ClippingEnded", k) \in E <=> k \in clipped \ C
    BY <1>8 DEF Transition
  <2>4. Transition("ClippingEnded", k) \notin S BY <1>7 DEF Transition
  <2>5. QED BY <1>13, <2>1, <2>2, <2>3, <2>4
<1>15. \A k \in Keys : /\ k \notin tracked => sources'[k] = sources[k]
                       /\ k \in tracked => sources'[k] = [sources[k] EXCEPT !.clipping = k \in C]
  BY <1>4 DEF ClippingAfterTick
<1>16. ASSUME NEW k \in Keys, NEW b \in BOOLEAN, NEW t, t = [sources[k] EXCEPT !.clipping = b]
       PROVE  /\ Bounded(t) /\ t.clipping = b /\ t.conns = sources[k].conns
              /\ t.issues = sources[k].issues /\ t.dropped = sources[k].dropped
              /\ Now(t) = Now(sources[k])
  <2>1. sources[k] \in Sources /\ Bounded(sources[k]) BY <1>1 DEF SourcesFit
  <2>2. QED BY <1>16, <2>1 DEF Bounded, Sources, Now
<1>17. \A k \in Keys : k \in tracked => /\ sources'[k].clipping = (k \in C) /\ Bounded(sources'[k])
                                        /\ sources'[k].conns = sources[k].conns
                                        /\ sources'[k].issues = sources[k].issues
                                        /\ sources'[k].dropped = sources[k].dropped
                                        /\ Now(sources'[k]) = Now(sources[k])
  <2> SUFFICES ASSUME NEW k \in Keys, k \in tracked
               PROVE  /\ sources'[k].clipping = (k \in C) /\ Bounded(sources'[k])
                      /\ sources'[k].conns = sources[k].conns
                      /\ sources'[k].issues = sources[k].issues
                      /\ sources'[k].dropped = sources[k].dropped
                      /\ Now(sources'[k]) = Now(sources[k])
    OBVIOUS
  <2>1. \E b \in BOOLEAN : b = (k \in C)
    <3>1. (k \in C) \in BOOLEAN OBVIOUS
    <3>2. QED BY <3>1, Zenon
  <2>2. PICK b \in BOOLEAN : b = (k \in C) BY <2>1
  <2>3. PICK t : t = sources'[k] OBVIOUS
  <2>4. t = [sources[k] EXCEPT !.clipping = b] BY <1>15, <2>2, <2>3
  <2>5. /\ Bounded(t) /\ t.clipping = b /\ t.conns = sources[k].conns
        /\ t.issues = sources[k].issues /\ t.dropped = sources[k].dropped
        /\ Now(t) = Now(sources[k])
    BY <1>16, <2>4
  <2>6. QED BY <2>2, <2>3, <2>5
<1>18. \A k \in Keys : Bounded(sources'[k]) BY <1>1, <1>15, <1>17 DEF SourcesFit
<1>19. SourcesFit'
  <2>1. sources' \in [Keys -> Sources]
    <3>1. sources' = [k \in Keys |-> sources'[k]] BY <1>4 DEF ClippingAfterTick
    <3>2. QED BY <1>18, <3>1 DEF Bounded
  <2>2. QED BY <1>1, <1>2, <1>18, <2>1 DEF SourcesFit, Bounded
<1>20. OrderIsTotal' BY <1>1, <1>2 DEF OrderIsTotal
<1>21. ReadersFit' BY <1>1, <1>2 DEF ReadersFit
<1>22. \A k \in Keys : SourceSound(k)'
  <2> TAKE k \in Keys
  <2>1. SourceSound(k) BY <1>1
  <2>2. CASE k \notin tracked BY <1>2, <1>15, <2>1, <2>2 DEF SourceSound
  <2>3. CASE k \in tracked
    <3>1. k \in C => sources[k].issues = {} BY <1>4 DEF MayClip, EstimateReliable
    <3>2. k \in C => Connected(sources[k]) BY <2>1, <2>3, <3>1 DEF SourceSound
    <3>3. QED BY <1>2, <1>17, <2>1, <2>3, <3>2 DEF SourceSound, Connected
  <2>4. QED BY <2>2, <2>3
<1>23. \A k \in Keys : sources'[k].clipping \in BOOLEAN BY <1>19 DEF SourcesFit, Sources
<1>24. Announces
  <2> SUFFICES ASSUME NEW k \in Keys
               PROVE  /\ k \in C \ clipped <=> sources'[k].clipping /\ ~sources[k].clipping
                      /\ k \in clipped \ C <=> sources[k].clipping /\ ~sources'[k].clipping
                      /\ k \in C \ clipped => k \in tracked
    BY <1>14 DEF Announces
  <2>1. CASE k \in tracked BY <1>3, <1>17, <2>1
  <2>2. CASE k \notin tracked
    <3>1. k \notin C /\ k \notin clipped BY <1>3, <1>4, <2>2
    <3>2. sources'[k] = sources[k] BY <1>15, <2>2
    <3>3. QED BY <2>2, <3>1, <3>2
  <2>3. QED BY <2>1, <2>2
<1>25. edge' \in [Keys -> {"ClippingStarted", "ClippingEnded"}] /\ \A k \in Keys : EdgeTells(k)'
  BY <1>2, <1>23, <1>24, AnnouncingTells
<1>26. HistoryFits' BY <1>1, <1>2, <1>25 DEF HistoryFits
<1>27. AllHeard'
  <2> SUFFICES ASSUME ~sourceDrops, NEW k \in Keys
               PROVE  sources'[k].conns = Readers(k)' /\ Undisturbed(k)'
    BY <1>2 DEF AllHeard
  <2>1. sources[k].conns = Readers(k) /\ Undisturbed(k) BY <1>1 DEF AllHeard
  <2>2. Readers(k)' = Readers(k) BY <1>2 DEF Readers
  <2>3. CASE k \in tracked BY <1>2, <1>17, <2>1, <2>2, <2>3 DEF Undisturbed
  <2>4. CASE k \notin tracked BY <1>2, <1>15, <2>1, <2>2, <2>4 DEF Undisturbed
  <2>5. QED BY <2>3, <2>4
<1>28. QED
  BY <1>2, <1>13, <1>19, <1>20, <1>21, <1>22, <1>24, <1>25, <1>26, <1>27, CallStaysSound

(***************************************************************************)
(* The engine.                                                             *)
(***************************************************************************)

LEMMA EngineStep ==
  ASSUME EngineInv, [Next]_vars
  PROVE  EngineInv' /\ [AnnouncedOnce]_vars
<1>1. ASSUME NEW c \in Conns, NEW k \in Keys, Connect(k, c)
      PROVE  EngineInv' /\ AnnouncedOnce
  BY <1>1, ConnectStaysSound, AnnouncingOnce
<1>2. ASSUME NEW c \in Conns, Disconnect(c) PROVE EngineInv' /\ AnnouncedOnce
  BY <1>2, DisconnectStaysSound, AnnouncingOnce
<1>3. ASSUME NEW c \in Conns, NEW f \in Frames, ProcessFrame(c, f)
      PROVE  EngineInv' /\ AnnouncedOnce
  <2>1. f \in AnyFrame BY EngineConstants
  <2>2. QED BY <1>3, <2>1, FrameStaysSound, AnnouncingOnce
<1>4. CASE Tick BY <1>4, TickStaysSound, AnnouncingOnce
<1>5. CASE EnqueueCount \/ EnqueueInsert \/ EnqueueShed \/ DequeueTake \/ DequeueCount
  <2>1. GateIsFree => outbox' = <<>>
    BY <1>5 DEF EngineInv, QueueFits, GateIsFree, EnqueueCount, EnqueueInsert, EnqueueShed,
                DequeueTake, DequeueCount
  <2>2. AnnouncedOnce BY <2>1, SaysNothing DEF AnnouncedOnce
  <2>3. QED BY <1>5, <2>2, QueueStaysSound
<1>6. CASE UNCHANGED vars
  <2>1. QueueFits'
    BY <1>6 DEF EngineInv, QueueFits, QueueCountExact, vars, queueing
  <2>2. QED BY <1>6, <2>1, QueueMoves DEF vars
<1>7. QED BY <1>1, <1>2, <1>3, <1>4, <1>5, <1>6 DEF Next

LEMMA EngineInvariant == Spec => []EngineInv
<1>1. EngineInv /\ [Next]_vars => EngineInv' BY EngineStep
<1>2. QED BY <1>1, StartsSound, PTL DEF Spec

(* The state of the plug-in keeps its types and its bounds, whatever the   *)
(* producers send: sources, devices, effects and queued transitions.       *)
THEOREM EngineTypes == Spec => []TypeOK
BY EngineInvariant, SoundTypes, PTL

(* The counter beside the lock-free queue never drifts from what the queue *)
(* and the two threads in the middle of an operation hold.                 *)
THEOREM CounterStaysExact == Spec => []QueueCountExact
<1>1. EngineInv => QueueCountExact BY DEF EngineInv, QueueFits
<1>2. QED BY <1>1, EngineInvariant, PTL

(* Every change of IsClipping is announced, whichever of the four calls    *)
(* makes it, and no episode begins or ends twice.                          *)
THEOREM EdgesAlwaysTell == Spec => EdgesTellClipping
<1>1. EngineInv => \A k \in Keys : sources[k].clipping <=> edge[k] = "ClippingStarted"
  BY DEF EngineInv, EdgeTells
<1>2. EngineInv /\ [Next]_vars =>
        [\A k \in Keys, kind \in {"ClippingStarted", "ClippingEnded"} :
           GateIsFree /\ Enqueued(kind, k) => edge[k] # kind /\ k \in tracked]_vars
  BY EngineStep DEF AnnouncedOnce
<1>3. QED BY <1>1, <1>2, EngineInvariant, PTL DEF Spec, EdgesTellClipping

(* What the snapshot presents as reliable is what all frames of the session*)
(* say, unless its source had been evicted.                                *)
THEOREM ReliableStaysTrue == Spec => []ReliableIsTrue
<1>1. ASSUME EngineInv PROVE ReliableIsTrue
  <2> SUFFICES ASSUME NEW k \in Keys \ evicted, DataReliable(k)
               PROVE  k \notin disturbed /\ Now(sources[k]) = heard[k]
    BY DEF ReliableIsTrue, Now, Play
  <2>1. ~sourceDrops /\ sources[k].issues = {} BY DEF DataReliable, EstimateReliable
  <2>2. QED BY <1>1, <2>1 DEF EngineInv, AllHeard, Undisturbed
<1>2. QED BY <1>1, EngineInvariant, PTL
=============================================================================
