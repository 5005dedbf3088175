--------------------------- MODULE EffectPlayback ----------------------------
(***************************************************************************)
(* The playback schedules of one source of the plug-in: EffectState,       *)
(* DeviceState and the Apply methods of SourceState in                     *)
(* src/simhub/FFBInterceptor.Core/ClippingEngine.cs.                       *)
(*                                                                         *)
(* The engine keeps no running clocks.  An effect has three points of time *)
(* that are set when it is started, recomputed when its plan changes and   *)
(* moved by the length of a pause when the device continues; whether it is *)
(* over is found out when somebody looks.  Time is counted in one unit,    *)
(* and a frame is applied at the time that its reader has read.            *)
(***************************************************************************)
EXTENDS Integers

CONSTANTS
  Effects,         \* pairs <<device, id>>
  Forever,         \* an infinite duration, count or point of time
  Plans,           \* durations and delays of EffectCreated frames
  Changes,         \* contents of SetParameters frames
  Iterations,      \* counts of Start frames
  Horizon          \* bound of the clock

Devices == {e[1] : e \in Effects}

ASSUME PlaybackConstants ==
  /\ Forever \notin Int /\ Horizon \in Nat
  /\ \A p \in Plans \union Changes :
       p.delay \in Nat /\ p.duration \in Nat \union {Forever}
  /\ \A c \in Changes :
       c.flags \subseteq {"Duration", "StartDelay", "Start"} /\ c.restarted \in BOOLEAN
  /\ Iterations \subseteq Nat \union {Forever}

VARIABLES
  now,             \* the clock of the plug-in
  effect,          \* effect[e]: EffectState of e
  pausedAt         \* PausedAtMilliseconds of each device, Forever if not paused

vars == <<now, effect, pausedAt>>

paused == {d \in Devices : pausedAt[d] # Forever}

(* A new EffectState; also stands for an effect that is not in _effects.   *)
NewEffect ==
  [active |-> FALSE, duration |-> Forever, delay |-> 0, iterations |-> 1,
   requested |-> 0, from |-> 0, until |-> Forever]

Init ==
  /\ now = 0 /\ effect = [e \in Effects |-> NewEffect]
  /\ pausedAt = [d \in Devices |-> Forever]

-----------------------------------------------------------------------------
(* EffectState                                                             *)

Length(s) ==
  IF Forever \in {s.duration, s.iterations} THEN Forever ELSE s.duration * s.iterations

Later(t, shift) == IF t = Forever THEN Forever ELSE t + shift

RefreshSchedule(s) ==
  [s EXCEPT !.from = s.requested + s.delay,
            !.until = IF Length(s) = Forever THEN Forever
                      ELSE s.requested + s.delay + Length(s)]

Begin(s, n) ==
  RefreshSchedule([s EXCEPT !.active = TRUE, !.requested = now,
                            !.iterations = IF n = 0 THEN 1 ELSE n])

(* The points of time of an effect that is not active are never read, and  *)
(* set anew when it begins.                                                *)
Stop(s) == [s EXCEPT !.active = FALSE, !.requested = 0, !.from = 0, !.until = Forever]

ShiftSchedule(s, shift) ==
  IF s.active /\ shift > 0
  THEN [s EXCEPT !.requested = @ + shift, !.from = @ + shift, !.until = Later(@, shift)]
  ELSE s

ResumeByWholePause(s, at) == ShiftSchedule(s, now - at)

(* An effect that was started during the pause waited only since then.     *)
EffectivePauseStart(s, at) == IF at > s.requested THEN at ELSE s.requested

ResumeAfterPause(s, at) == ShiftSchedule(s, now - EffectivePauseStart(s, at))

HasEnded(s) == s.active /\ s.until # Forever /\ now >= s.until

ExpireIfFinished(s) == IF HasEnded(s) THEN Stop(s) ELSE s

HasBegun(s) == s.active /\ now >= s.from

-----------------------------------------------------------------------------
(* Frames of the producer.                                                 *)

Becomes(e, s) == effect' = [effect EXCEPT ![e] = s]

(* EffectCreated replaces what was known of e.                             *)
EffectCreated(e) ==
  /\ \E p \in Plans :
       Becomes(e, [NewEffect EXCEPT !.duration = p.duration, !.delay = p.delay])
  /\ UNCHANGED <<now, pausedAt>>

(* An effect that is over does not come back with a longer duration.       *)
Observed(e) == IF e[1] \in paused THEN effect[e] ELSE ExpireIfFinished(effect[e])

(* Only what the flags of the frame select is taken from it.               *)
Selected(s, c) ==
  [s EXCEPT !.duration = IF "Duration" \in c.flags THEN c.duration ELSE @,
            !.delay = IF "StartDelay" \in c.flags THEN c.delay ELSE @]

NotRescheduled(s, c) == IF "Start" \in c.flags THEN Begin(s, 1) ELSE s

Rescheduled(s, c) ==
  IF "Start" \in c.flags THEN Begin(s, 1)
  ELSE IF s.active /\ c.flags # {} THEN RefreshSchedule(s)
  ELSE s

EffectParameters(e) ==
  /\ \E c \in Changes :
       LET changed == Rescheduled(Selected(Observed(e), c), c)
       IN Becomes(e, IF c.restarted THEN Begin(changed, changed.iterations) ELSE changed)
  /\ UNCHANGED <<now, pausedAt>>

StartEffect(e) ==
  /\ \E solo \in BOOLEAN, n \in Iterations :
       effect' = [f \in Effects |->
         IF f = e THEN Begin(effect[e], n)
         ELSE IF solo /\ f[1] = e[1] THEN Stop(effect[f]) ELSE effect[f]]
  /\ UNCHANGED <<now, pausedAt>>

(* Stop or Unload keeps the parameters, Release does not.                  *)
StopEffect(e) == Becomes(e, Stop(effect[e])) /\ UNCHANGED <<now, pausedAt>>

ReleaseEffect(e) == Becomes(e, NewEffect) /\ UNCHANGED <<now, pausedAt>>

StopEffectsOf(d) ==
  effect' = [e \in Effects |-> IF e[1] = d THEN Stop(effect[e]) ELSE effect[e]]

(* Reset and StopAll differ in the actuators only.                         *)
StopAll(d) ==
  /\ StopEffectsOf(d)
  /\ pausedAt' = [pausedAt EXCEPT ![d] = Forever]
  /\ UNCHANGED now

(* A second Pause does not move the beginning of the first.                *)
Pause(d) ==
  /\ d \notin paused
  /\ pausedAt' = [pausedAt EXCEPT ![d] = now]
  /\ UNCHANGED <<now, effect>>

Continue(d) ==
  /\ d \in paused
  /\ effect' = [e \in Effects |->
       IF e[1] = d THEN ResumeAfterPause(effect[e], pausedAt[d]) ELSE effect[e]]
  /\ pausedAt' = [pausedAt EXCEPT ![d] = Forever]
  /\ UNCHANGED now

-----------------------------------------------------------------------------
(* EvaluateEffects() looks at the effects of the devices that are not      *)
(* paused, and counts those that produce.                                  *)
Evaluate(e) == IF e[1] \notin paused /\ HasBegun(effect[e]) THEN ExpireIfFinished(effect[e])
               ELSE effect[e]

Tick == effect' = [e \in Effects |-> Evaluate(e)] /\ UNCHANGED <<now, pausedAt>>

IsProducing(e) == e[1] \notin paused /\ HasBegun(effect[e]) /\ ~HasEnded(effect[e])

Pass == now < Horizon /\ now' = now + 1 /\ UNCHANGED <<effect, pausedAt>>

Next ==
  \/ \E e \in Effects : \/ EffectCreated(e) \/ EffectParameters(e) \/ StartEffect(e)
                        \/ StopEffect(e) \/ ReleaseEffect(e)
  \/ \E d \in Devices : StopAll(d) \/ Pause(d) \/ Continue(d)
  \/ Tick
  \/ Pass

Spec == Init /\ [][Next]_vars

-----------------------------------------------------------------------------
(* The clocks that the points of time stand for.                           *)

Elapsed(e) ==
  IF e[1] \notin paused THEN now - effect[e].requested
  ELSE EffectivePauseStart(effect[e], pausedAt[e[1]]) - effect[e].requested

PlanOf(e) == [delay |-> effect[e].delay, length |-> Length(effect[e])]

IsOver(e) == PlanOf(e).length # Forever /\ Elapsed(e) >= PlanOf(e).delay + PlanOf(e).length

Playing == {e \in Effects : effect[e].active /\ ~IsOver(e)}

Clock == INSTANCE PlaybackClock WITH
  playing <- Playing,
  elapsed <- [e \in Effects |-> IF e \in Playing THEN Elapsed(e) ELSE 0],
  plan    <- [e \in Effects |-> PlanOf(e)]

-----------------------------------------------------------------------------
Counts == (Nat \ {0}) \union {Forever}

Points == Nat \union {Forever}

(* A duration may be 0: such an effect ends when its delay is over.        *)
EffectStates ==
  [active : BOOLEAN, duration : Points, delay : Nat, iterations : Counts,
   requested : Nat, from : Nat, until : Points]

TypeOK ==
  /\ now \in 0 .. Horizon /\ effect \in [Effects -> EffectStates]
  /\ pausedAt \in [Devices -> (0 .. now) \union {Forever}]

(* The frame that brings an effect back: the effect has ended before its   *)
(* device was paused and no Tick has looked in between, or it was started  *)
(* during the pause with no time to play; and its plan becomes longer      *)
(* before the device continues.                                            *)
Resurrected(e) ==
  /\ e[1] \in paused /\ effect[e].active /\ effect[e].until # Forever
  /\ EffectivePauseStart(effect[e], pausedAt[e[1]]) >= effect[e].until
  /\ \A f \in Effects \ {e} : effect'[f] = effect[f]
  /\ UNCHANGED <<now, pausedAt>>

(* The points of time of EffectState follow the clocks of PlaybackClock,   *)
(* through delays, repetitions, changes of the plan, pauses and starts     *)
(* during a pause, except for the one step described above.                *)
FollowsTheClock ==
  Clock!ClockInit /\ [][Clock!ClockNext \/ \E e \in Effects : Resurrected(e)]_Clock!clockVars

(* EvaluateEffects counts exactly the effects whose clock is between delay *)
(* and end, on devices that are not paused.                                *)
CountsTheProducing == \A e \in Effects : IsProducing(e) <=> e \in Clock!Producing

(* "Expired effect cannot be resurrected by duration update" (the test     *)
(* ExpiredEffectIsNotResurrected in Program.cs of the plug-in's tests): an *)
(* effect that is over plays again only when it is started.                *)
NeverResurrected ==
  [][\A e \in Playing' \ Playing : effect'[e].requested = now]_vars
=============================================================================
