---------------------------- MODULE EngineProofs ----------------------------
(***************************************************************************)
(* Proofs about the engine as one run of TLC has it.                       *)
(*                                                                         *)
(* EffectPlayback, for any effects, plans, changes and counts and for any  *)
(* time: the points of time that the engine stores implement the clocks of *)
(* PlaybackClock.  The inductive invariant Schedule says that the points of*)
(* time of an active effect are those of its request, shifted by delay and *)
(* length, and that no request lies in the future.  Every action is then a *)
(* step of the clocks, by what it does to the elapsed time of each effect. *)
(*                                                                         *)
(* Detector, for any settings, gaps and times: the sums and the episodes   *)
(* are those of the record.  The inductive invariant DetectorHolds says    *)
(* that the detector follows the record: its intervals are those between   *)
(* the samples from one of them on, and its runs begin where the record    *)
(* says.                                                                   *)
(*                                                                         *)
(* ClippingEngine, with the effects and frames of this run, from what      *)
(* ClippingEngineProofs proves for any.                                    *)
(***************************************************************************)
EXTENDS MCEngine, FiniteSetTheorems, SequenceTheorems, WellFoundedInduction, TLAPS

(* The points of time of one effect: ScheduledStart and ScheduledEnd.      *)
Planned(s) ==
  s.active =>
    /\ s.from = s.requested + s.delay
    /\ s.until = IF Length(s) = Forever THEN Forever ELSE s.requested + s.delay + Length(s)

Schedule ==
  /\ TypeOK
  /\ \A e \in Effects : Planned(effect[e]) /\ effect[e].requested <= now

-----------------------------------------------------------------------------
(* The operations on one effect                                            *)

LEMMA Product == \A m \in Nat, n \in Nat \ {0} : m * n \in Nat
BY SMT

LEMMA LengthType ==
  ASSUME NEW s \in EffectStates
  PROVE  Length(s) \in Points
BY Product DEF Length, EffectStates, Counts, Points

LEMMA PlanType ==
  ASSUME NEW s \in EffectStates
  PROVE  s.requested + s.delay \in Nat
         /\ (IF Length(s) = Forever THEN Forever ELSE s.requested + s.delay + Length(s)) \in Points
<1>1. s.requested \in Nat /\ s.delay \in Nat /\ s.requested + s.delay \in Nat
  BY DEF EffectStates
<1>2. CASE Length(s) = Forever
  BY <1>1, <1>2 DEF Points
<1>3. CASE Length(s) # Forever
  <2>1. Length(s) \in Nat
    BY <1>3, LengthType DEF Points
  <2> QED BY <1>1, <1>3, <2>1 DEF Points
<1> QED BY <1>1, <1>2, <1>3

LEMMA NewEffectFacts ==
  /\ NewEffect \in EffectStates /\ ~NewEffect.active /\ NewEffect.requested = 0
  /\ NewEffect.delay = 0 /\ Length(NewEffect) = Forever
BY DEF NewEffect, EffectStates, Length, Counts, Points

LEMMA RefreshFacts ==
  ASSUME NEW s \in EffectStates
  PROVE  LET r == RefreshSchedule(s) IN
         /\ r \in EffectStates
         /\ r.active = s.active /\ r.requested = s.requested
         /\ r.delay = s.delay /\ Length(r) = Length(s)
         /\ Planned(r)
<1> DEFINE r == RefreshSchedule(s)
           from == s.requested + s.delay
           until == IF Length(s) = Forever THEN Forever ELSE s.requested + s.delay + Length(s)
<1>1. r = [s EXCEPT !.from = from, !.until = until] /\ from \in Nat /\ until \in Points
  BY PlanType DEF RefreshSchedule
<1> HIDE DEF r, from, until
<1>2. /\ r.active = s.active /\ r.requested = s.requested /\ r.delay = s.delay
      /\ r.duration = s.duration /\ r.iterations = s.iterations
      /\ r.from = from /\ r.until = until
  BY <1>1 DEF EffectStates
<1>3. Length(r) = Length(s)
  BY <1>2 DEF Length
<1>4. r \in EffectStates
  BY <1>1 DEF EffectStates
<1> QED BY <1>2, <1>3, <1>4 DEF Planned, r, from, until

LEMMA BeginFacts ==
  ASSUME NEW s \in EffectStates, NEW n \in Nat \union {Forever}, now \in Nat
  PROVE  LET r == Begin(s, n) IN
         /\ r \in EffectStates /\ r.active /\ r.requested = now /\ r.delay = s.delay
         /\ Planned(r)
<1> DEFINE m == IF n = 0 THEN 1 ELSE n
           b == [s EXCEPT !.active = TRUE, !.requested = now, !.iterations = m]
<1>1. m \in Counts
  BY PlaybackConstants DEF Counts
<1> HIDE DEF m
<1>2. b \in EffectStates /\ b.active /\ b.requested = now /\ b.delay = s.delay
  BY <1>1 DEF EffectStates
<1>3. Begin(s, n) = RefreshSchedule(b)
  BY DEF Begin, m
<1> HIDE DEF b
<1> QED BY <1>2, <1>3, RefreshFacts

LEMMA StopFacts ==
  ASSUME NEW s \in EffectStates
  PROVE  LET r == Stop(s) IN
         /\ r \in EffectStates /\ ~r.active /\ r.requested = 0
         /\ r.delay = s.delay /\ Length(r) = Length(s)
<1>1. 0 \in Nat /\ Forever \in Points /\ FALSE \in BOOLEAN
  BY DEF Points
<1>2. Stop(s) \in EffectStates
  BY <1>1 DEF Stop, EffectStates
<1>3. /\ ~Stop(s).active /\ Stop(s).requested = 0 /\ Stop(s).delay = s.delay
      /\ Stop(s).duration = s.duration /\ Stop(s).iterations = s.iterations
  BY DEF Stop, EffectStates
<1> QED BY <1>2, <1>3 DEF Length

LEMMA ExpireFacts ==
  ASSUME NEW s \in EffectStates, now \in Nat, s.requested <= now, Planned(s)
  PROVE  LET r == ExpireIfFinished(s) IN
         /\ r \in EffectStates /\ r.requested <= now /\ Planned(r)
         /\ r.delay = s.delay /\ Length(r) = Length(s)
         /\ r = s \/ (~r.active /\ HasEnded(s))
<1>1. CASE HasEnded(s)
  <2>1. ExpireIfFinished(s) = Stop(s)
    BY <1>1 DEF ExpireIfFinished
  <2> QED BY <1>1, <2>1, StopFacts DEF Planned
<1>2. CASE ~HasEnded(s)
  BY <1>2 DEF ExpireIfFinished
<1> QED BY <1>1, <1>2

LEMMA SelectedFacts ==
  ASSUME NEW s \in EffectStates, NEW c \in Changes
  PROVE  LET r == Selected(s, c) IN
         /\ r \in EffectStates
         /\ r.active = s.active /\ r.requested = s.requested
         /\ c.flags \subseteq {"Start"} => r = s
<1> DEFINE r == Selected(s, c)
           duration == IF "Duration" \in c.flags THEN c.duration ELSE s.duration
           delay == IF "StartDelay" \in c.flags THEN c.delay ELSE s.delay
<1>1. duration \in Points /\ delay \in Nat
  BY PlaybackConstants DEF Points, EffectStates
<1>2. r = [s EXCEPT !.duration = duration, !.delay = delay]
  BY DEF Selected, EffectStates
<1>3. (duration = s.duration /\ delay = s.delay) \/ ~(c.flags \subseteq {"Start"})
  OBVIOUS
<1> HIDE DEF duration, delay, r
<1>4. r \in EffectStates /\ r.active = s.active /\ r.requested = s.requested
  BY <1>1, <1>2 DEF EffectStates
<1>5. ASSUME c.flags \subseteq {"Start"} PROVE r = s
  BY <1>2, <1>3, <1>5 DEF EffectStates
<1> QED BY <1>4, <1>5 DEF r

LEMMA ResumeFacts ==
  ASSUME NEW s \in EffectStates, now \in Nat, s.requested <= now, Planned(s),
         NEW p \in 0 .. now
  PROVE  LET r == ResumeAfterPause(s, p) IN
         /\ r \in EffectStates /\ r.active = s.active /\ r.requested <= now /\ Planned(r)
         /\ r.delay = s.delay /\ Length(r) = Length(s)
         /\ s.active => now - r.requested = IF p > s.requested THEN p - s.requested ELSE 0
<1> DEFINE shift == now - (IF p > s.requested THEN p ELSE s.requested)
           r == ResumeAfterPause(s, p)
<1>1. shift \in Nat /\ r = ShiftSchedule(s, shift) /\ s.requested \in Nat
  BY DEF ResumeAfterPause, EffectivePauseStart, EffectStates
<1>2. CASE s.active /\ shift > 0
  <2>1. r = [s EXCEPT !.requested = @ + shift, !.from = @ + shift, !.until = Later(@, shift)]
    BY <1>1, <1>2 DEF ShiftSchedule
  <2>2. /\ s.requested + shift \in Nat /\ s.from + shift \in Nat
        /\ Later(s.until, shift) \in Points
    BY <1>1, PlaybackConstants DEF EffectStates, Later, Points
  <2> HIDE DEF shift, r
  <2>3. /\ r.active = s.active /\ r.requested = s.requested + shift /\ r.delay = s.delay
        /\ r.duration = s.duration /\ r.iterations = s.iterations
        /\ r.from = s.from + shift /\ r.until = Later(s.until, shift)
    BY <2>1 DEF EffectStates
  <2>4. r \in EffectStates
    <3> DEFINE requested == s.requested + shift
               from == s.from + shift
               until == Later(s.until, shift)
    <3>1. /\ requested \in Nat /\ from \in Nat /\ until \in Points
          /\ r = [s EXCEPT !.requested = requested, !.from = from, !.until = until]
      BY <2>1, <2>2 DEF EffectStates
    <3> HIDE DEF requested, from, until
    <3> QED BY <3>1 DEF EffectStates
  <2>5. Length(r) = Length(s)
    BY <2>3 DEF Length
  <2>6. Planned(r)
    <3>1. r.from = r.requested + r.delay
      BY <1>1, <1>2, <2>3 DEF Planned, EffectStates
    <3>2. CASE Length(s) = Forever
      BY <1>2, <2>3, <2>5, <3>1, <3>2 DEF Planned, Later
    <3>3. CASE Length(s) # Forever
      <4>1. Length(s) \in Nat /\ s.delay \in Nat
        BY <3>3, LengthType DEF EffectStates, Points
      <4>2. s.until = s.requested + s.delay + Length(s) /\ s.until # Forever
        BY <1>1, <1>2, <3>3, <4>1, PlaybackConstants DEF Planned
      <4>3. r.until = r.requested + r.delay + Length(r)
        BY <1>1, <2>3, <2>5, <4>1, <4>2 DEF Later
      <4> QED BY <2>5, <3>1, <3>3, <4>3 DEF Planned
    <3> QED BY <3>2, <3>3
  <2>7. r.requested <= now /\ now - r.requested = IF p > s.requested THEN p - s.requested ELSE 0
    BY <1>1, <2>3 DEF shift
  <2> QED BY <2>3, <2>4, <2>5, <2>6, <2>7 DEF r
<1>3. CASE ~(s.active /\ shift > 0)
  <2>1. r = s
    BY <1>1, <1>3 DEF ShiftSchedule
  <2>2. s.active => now - s.requested = IF p > s.requested THEN p - s.requested ELSE 0
    BY <1>1, <1>3
  <2> QED BY <2>1, <2>2
<1> QED BY <1>2, <1>3

-----------------------------------------------------------------------------
(* The invariant                                                           *)

Good(s) == s \in EffectStates /\ Planned(s) /\ s.requested <= now

LEMMA ScheduleFacts ==
  ASSUME Schedule
  PROVE  /\ now \in Nat /\ now \in 0 .. Horizon
         /\ effect = [f \in Effects |-> effect[f]]
         /\ \A f \in Effects : Good(effect[f]) /\ f[1] \in Devices
         /\ \A d \in Devices : pausedAt[d] \in (0 .. now) \union {Forever}
         /\ \A d \in paused : pausedAt[d] \in 0 .. now
         /\ pausedAt \in [Devices -> (0 .. now) \union {Forever}]
         /\ Forever \notin Int
BY PlaybackConstants DEF Schedule, TypeOK, Good, Devices, paused

(* A step that takes no time keeps the invariant if it leaves every effect *)
(* with the points of time of its plan.                                    *)
LEMMA Keeps ==
  ASSUME Schedule, UNCHANGED now,
         effect' = [f \in Effects |-> effect'[f]], \A f \in Effects : Good(effect'[f]),
         pausedAt' \in [Devices -> (0 .. now) \union {Forever}]
  PROVE  Schedule'
<1>1. effect' \in [Effects -> EffectStates]
  BY DEF Good
<1>2. TypeOK'
  BY <1>1, ScheduleFacts DEF TypeOK
<1> QED BY <1>2 DEF Schedule, Good

LEMMA Replaces ==
  ASSUME Schedule, NEW e \in Effects, NEW s, Good(s), Becomes(e, s), UNCHANGED <<now, pausedAt>>
  PROVE  Schedule' /\ effect'[e] = s /\ \A f \in Effects \ {e} : effect'[f] = effect[f]
<1>1. /\ effect' = [f \in Effects |-> effect'[f]] /\ effect'[e] = s
      /\ \A f \in Effects \ {e} : effect'[f] = effect[f]
  BY ScheduleFacts DEF Becomes
<1>2. \A f \in Effects : Good(effect'[f])
  BY <1>1, ScheduleFacts
<1>3. pausedAt' \in [Devices -> (0 .. now) \union {Forever}]
  BY ScheduleFacts
<1> QED BY <1>1, <1>2, <1>3, Keeps

LEMMA CreatedFacts ==
  ASSUME NEW p \in Plans
  PROVE  LET s == [NewEffect EXCEPT !.duration = p.duration, !.delay = p.delay] IN
         s \in EffectStates /\ ~s.active /\ s.requested = 0
<1>1. p.duration \in Points /\ p.delay \in Nat
  BY PlaybackConstants DEF Points
<1> QED BY <1>1, NewEffectFacts DEF NewEffect, EffectStates

LEMMA HaltedIsGood ==
  ASSUME Schedule, NEW s \in EffectStates, ~s.active, s.requested = 0
  PROVE  Good(s)
BY ScheduleFacts DEF Good, Planned

LEMMA BegunIsGood ==
  ASSUME Schedule, NEW s \in EffectStates, NEW n \in Nat \union {Forever}
  PROVE  Good(Begin(s, n)) /\ Begin(s, n).active /\ Begin(s, n).requested = now
         /\ Begin(s, n).delay = s.delay
BY ScheduleFacts, BeginFacts DEF Good

(* What a SetParameters frame leaves of e: a new start, or the old state   *)
(* with the points of time of the new plan.                                *)
Changed(e, c) ==
  LET changed == Rescheduled(Selected(Observed(e), c), c)
  IN IF c.restarted THEN Begin(changed, changed.iterations) ELSE changed

LEMMA ObservedFacts ==
  ASSUME Schedule, NEW e \in Effects
  PROVE  /\ Good(Observed(e))
         /\ Observed(e) = effect[e] \/ (~Observed(e).active /\ HasEnded(effect[e]) /\ e[1] \notin paused)
         /\ Observed(e) = effect[e] => e[1] \in paused \/ ~HasEnded(effect[e])
<1>1. Good(effect[e]) /\ now \in Nat
  BY ScheduleFacts
<1>2. CASE e[1] \in paused
  BY <1>1, <1>2 DEF Observed
<1>3. CASE e[1] \notin paused
  <2>1. Observed(e) = ExpireIfFinished(effect[e])
    BY <1>3 DEF Observed
  <2>2. Good(ExpireIfFinished(effect[e]))
    BY <1>1, ExpireFacts DEF Good
  <2>3. HasEnded(effect[e]) => ExpireIfFinished(effect[e]) = Stop(effect[e]) /\ ~Stop(effect[e]).active
    BY <1>1, StopFacts DEF ExpireIfFinished, Good
  <2>4. ~HasEnded(effect[e]) => ExpireIfFinished(effect[e]) = effect[e]
    BY DEF ExpireIfFinished
  <2>5. HasEnded(effect[e]) => effect[e].active
    BY DEF HasEnded
  <2> QED BY <1>3, <2>1, <2>2, <2>3, <2>4, <2>5
<1> QED BY <1>2, <1>3

LEMMA ChangedFacts ==
  ASSUME Schedule, NEW e \in Effects, NEW c \in Changes
  PROVE  LET s == Changed(e, c)  o == Observed(e) IN
         /\ Good(s)
         /\ (s.active /\ s.requested = now) \/ (s.active = o.active /\ s.requested = o.requested)
<1> DEFINE o == Observed(e)
           s1 == Selected(o, c)
           s2 == Rescheduled(s1, c)
<1>1. Good(o)
  BY ObservedFacts
<1>2. /\ s1 \in EffectStates /\ s1.active = o.active /\ s1.requested = o.requested
      /\ c.flags \subseteq {"Start"} => s1 = o
  <2> HIDE DEF o
  <2> QED BY <1>1, SelectedFacts DEF Good
<1> HIDE DEF o, s1
<1>3. /\ Good(s2)
      /\ (s2.active /\ s2.requested = now) \/ (s2.active = o.active /\ s2.requested = o.requested)
  <2>1. CASE "Start" \in c.flags
    <3>1. s2 = Begin(s1, 1) /\ 1 \in Nat \union {Forever}
      BY <2>1 DEF Rescheduled
    <3> QED BY <1>2, <3>1, BegunIsGood
  <2>2. CASE "Start" \notin c.flags /\ s1.active /\ c.flags # {}
    <3>1. s2 = RefreshSchedule(s1)
      BY <2>2 DEF Rescheduled
    <3> QED BY <1>1, <1>2, <3>1, RefreshFacts DEF Good
  <2>3. CASE "Start" \notin c.flags /\ ~(s1.active /\ c.flags # {})
    <3>1. s2 = s1
      BY <2>3 DEF Rescheduled
    <3>2. Planned(s1)
      BY <1>1, <1>2, <2>3 DEF Good, Planned
    <3> QED BY <1>1, <1>2, <3>1, <3>2 DEF Good
  <2> QED BY <2>1, <2>2, <2>3
<1>4. Changed(e, c) = IF c.restarted THEN Begin(s2, s2.iterations) ELSE s2
  BY DEF Changed, s1, o
<1> HIDE DEF s2
<1>5. CASE c.restarted
  <2>1. s2 \in EffectStates /\ s2.iterations \in Nat \union {Forever}
    BY <1>3 DEF Good, EffectStates, Counts
  <2> QED BY <1>4, <1>5, <2>1, BegunIsGood
<1>6. CASE ~c.restarted
  BY <1>3, <1>4, <1>6 DEF o
<1> QED BY <1>5, <1>6

-----------------------------------------------------------------------------
(* Every step keeps the invariant                                          *)

LEMMA InitSchedule == Init => Schedule
<1> SUFFICES ASSUME Init PROVE Schedule
  OBVIOUS
<1>1. now = 0 /\ Horizon \in Nat /\ \A f \in Effects : effect[f] = NewEffect
  BY PlaybackConstants DEF Init
<1>2. TypeOK
  BY <1>1, NewEffectFacts DEF Init, TypeOK
<1> QED BY <1>1, <1>2, NewEffectFacts DEF Schedule, Planned

LEMMA EffectStep ==
  ASSUME Schedule, NEW e \in Effects,
         EffectCreated(e) \/ StopEffect(e) \/ ReleaseEffect(e)
  PROVE  /\ Schedule' /\ ~effect'[e].active
         /\ \A f \in Effects \ {e} : effect'[f] = effect[f]
<1>1. effect[e] \in EffectStates
  BY ScheduleFacts DEF Good
<1>2. \E s \in EffectStates : Becomes(e, s) /\ ~s.active /\ s.requested = 0
  <2>1. CASE EffectCreated(e)
    BY <2>1, CreatedFacts DEF EffectCreated
  <2>2. CASE StopEffect(e)
    BY <1>1, <2>2, StopFacts DEF StopEffect
  <2>3. CASE ReleaseEffect(e)
    BY <2>3, NewEffectFacts DEF ReleaseEffect
  <2> QED BY <2>1, <2>2, <2>3
<1>3. UNCHANGED <<now, pausedAt>>
  BY DEF EffectCreated, StopEffect, ReleaseEffect
<1> QED BY <1>2, <1>3, HaltedIsGood, Replaces

LEMMA ParametersStep ==
  ASSUME Schedule, NEW e \in Effects, EffectParameters(e)
  PROVE  /\ Schedule'
         /\ \E c \in Changes : effect'[e] = Changed(e, c)
         /\ \A f \in Effects \ {e} : effect'[f] = effect[f]
<1>1. PICK c \in Changes : Becomes(e, Changed(e, c))
  BY DEF EffectParameters, Changed
<1>2. UNCHANGED <<now, pausedAt>>
  BY DEF EffectParameters
<1> QED BY <1>1, <1>2, ChangedFacts, Replaces

LEMMA StartStep ==
  ASSUME Schedule, NEW e \in Effects, StartEffect(e)
  PROVE  /\ Schedule'
         /\ effect'[e].active /\ effect'[e].requested = now
         /\ \E solo \in BOOLEAN : \A f \in Effects \ {e} :
              effect'[f] = IF solo /\ f[1] = e[1] THEN Stop(effect[f]) ELSE effect[f]
<1>1. PICK solo \in BOOLEAN, n \in Iterations :
        effect' = [f \in Effects |->
          IF f = e THEN Begin(effect[e], n)
          ELSE IF solo /\ f[1] = e[1] THEN Stop(effect[f]) ELSE effect[f]]
  BY DEF StartEffect
<1>2. UNCHANGED <<now, pausedAt>> /\ n \in Nat \union {Forever}
  BY PlaybackConstants DEF StartEffect
<1>3. Good(Begin(effect[e], n)) /\ Begin(effect[e], n).active /\ Begin(effect[e], n).requested = now
  BY <1>2, ScheduleFacts, BegunIsGood DEF Good
<1>4. \A f \in Effects : Good(effect[f]) /\ Good(Stop(effect[f]))
  BY ScheduleFacts, StopFacts, HaltedIsGood DEF Good
<1>5. \A f \in Effects : Good(effect'[f])
  BY <1>1, <1>3, <1>4
<1>6. effect' = [f \in Effects |-> effect'[f]]
  BY <1>1
<1> QED BY <1>1, <1>2, <1>3, <1>5, <1>6, ScheduleFacts, Keeps

LEMMA DeviceStep ==
  ASSUME Schedule, NEW d \in Devices, StopAll(d) \/ Pause(d) \/ Continue(d)
  PROVE  Schedule'
<1>1. CASE StopAll(d)
  <2>1. effect' = [f \in Effects |-> effect'[f]] /\ \A f \in Effects : Good(effect'[f])
    BY <1>1, ScheduleFacts, StopFacts, HaltedIsGood DEF StopAll, StopEffectsOf, Good
  <2>2. pausedAt' \in [Devices -> (0 .. now) \union {Forever}] /\ UNCHANGED now
    BY <1>1, ScheduleFacts DEF StopAll
  <2> QED BY <2>1, <2>2, Keeps
<1>2. CASE Pause(d)
  <2>1. now \in 0 .. now
    BY ScheduleFacts
  <2>2. pausedAt' \in [Devices -> (0 .. now) \union {Forever}] /\ UNCHANGED <<now, effect>>
    BY <1>2, <2>1, ScheduleFacts DEF Pause
  <2> QED BY <2>2, ScheduleFacts, Keeps
<1>3. CASE Continue(d)
  <2>1. pausedAt[d] \in 0 .. now
    BY <1>3, ScheduleFacts DEF Continue
  <2>2. \A f \in Effects : Good(ResumeAfterPause(effect[f], pausedAt[d])) /\ Good(effect[f])
    BY <2>1, ScheduleFacts, ResumeFacts DEF Good
  <2>3. effect' = [f \in Effects |-> effect'[f]] /\ \A f \in Effects : Good(effect'[f])
    BY <1>3, <2>2 DEF Continue
  <2>4. pausedAt' \in [Devices -> (0 .. now) \union {Forever}] /\ UNCHANGED now
    BY <1>3, ScheduleFacts DEF Continue
  <2> QED BY <2>3, <2>4, Keeps
<1> QED BY <1>1, <1>2, <1>3

LEMMA TickStep ==
  ASSUME Schedule, Tick
  PROVE  /\ Schedule'
         /\ \A f \in Effects :
              \/ effect'[f] = effect[f]
              \/ /\ effect'[f] = Stop(effect[f])
                 /\ HasEnded(effect[f]) /\ f[1] \notin paused
<1>1. effect' = [f \in Effects |-> Evaluate(f)] /\ UNCHANGED <<now, pausedAt>>
  BY DEF Tick
<1>2. \A f \in Effects : \/ Evaluate(f) = effect[f]
                         \/ /\ Evaluate(f) = Stop(effect[f])
                            /\ HasEnded(effect[f]) /\ f[1] \notin paused
  BY DEF Evaluate, ExpireIfFinished
<1>3. \A f \in Effects : Good(effect[f]) /\ Good(Stop(effect[f]))
  BY ScheduleFacts, StopFacts, HaltedIsGood DEF Good
<1>4. \A f \in Effects : effect'[f] = Evaluate(f) /\ Good(effect'[f])
  BY <1>1, <1>2, <1>3
<1>5. effect' = [f \in Effects |-> effect'[f]]
  BY <1>1
<1> QED BY <1>1, <1>2, <1>4, <1>5, ScheduleFacts, Keeps

LEMMA PassStep ==
  ASSUME Schedule, Pass
  PROVE  Schedule'
<1>1. /\ now' = now + 1 /\ now \in 0 .. Horizon /\ now < Horizon /\ Horizon \in Nat
      /\ effect' = effect /\ pausedAt' = pausedAt
  BY ScheduleFacts, PlaybackConstants DEF Pass
<1>2. (0 .. now) \union {Forever} \subseteq (0 .. now') \union {Forever} /\ now' \in 0 .. Horizon
  BY <1>1
<1>3. pausedAt \in [Devices -> (0 .. now') \union {Forever}]
  BY <1>2, ScheduleFacts
<1>4. \A f \in Effects : Planned(effect[f]) /\ effect[f].requested <= now'
  BY <1>1, ScheduleFacts DEF Good, EffectStates
<1> QED BY <1>1, <1>2, <1>3, <1>4 DEF Schedule, TypeOK

LEMMA NextSchedule == Schedule /\ [Next]_vars => Schedule'
<1> SUFFICES ASSUME Schedule, [Next]_vars PROVE Schedule'
  OBVIOUS
<1>1. ASSUME NEW e \in Effects, EffectCreated(e) \/ StopEffect(e) \/ ReleaseEffect(e)
      PROVE  Schedule'
  BY <1>1, EffectStep
<1>2. ASSUME NEW e \in Effects, EffectParameters(e) PROVE Schedule'
  BY <1>2, ParametersStep
<1>3. ASSUME NEW e \in Effects, StartEffect(e) PROVE Schedule'
  BY <1>3, StartStep
<1>4. ASSUME NEW d \in Devices, StopAll(d) \/ Pause(d) \/ Continue(d) PROVE Schedule'
  BY <1>4, DeviceStep
<1>5. CASE Tick
  BY <1>5, TickStep
<1>6. CASE Pass
  BY <1>6, PassStep
<1>7. CASE UNCHANGED vars
  BY <1>7 DEF vars, Schedule, TypeOK
<1> QED BY <1>1, <1>2, <1>3, <1>4, <1>5, <1>6, <1>7 DEF Next

(* The points of time of every active effect are those of its request and  *)
(* its plan, whatever frames, pauses and ticks the engine has seen.        *)
THEOREM ScheduleHolds == Spec => []Schedule
BY InitSchedule, NextSchedule, PTL DEF Spec

(* Every point of time and every duration is a number or infinite, every   *)
(* count of iterations positive, with durations of 0 among the frames.     *)
THEOREM PlaybackTypes == Spec => []TypeOK
<1>1. Schedule => TypeOK
  BY DEF Schedule
<1> QED BY <1>1, ScheduleHolds, PTL

-----------------------------------------------------------------------------
(* Every step is a step of the clocks                                      *)

(* The end of an active effect is found out at the time its clock says,    *)
(* unless its device is paused.                                            *)
LEMMA EndFacts ==
  ASSUME Schedule, NEW e \in Effects, effect[e].active
  PROVE  /\ e[1] \notin paused => (HasEnded(effect[e]) <=> IsOver(e))
         /\ e[1] \in paused /\ IsOver(e) =>
              /\ effect[e].until # Forever
              /\ EffectivePauseStart(effect[e], pausedAt[e[1]]) >= effect[e].until
<1> DEFINE s == effect[e]  len == Length(s)
<1>1. /\ s.requested \in Nat /\ s.delay \in Nat /\ now \in Nat /\ s.requested <= now
      /\ len \in Points
  BY ScheduleFacts, LengthType DEF Good, EffectStates
<1>2. s.until = IF len = Forever THEN Forever ELSE s.requested + s.delay + len
  BY ScheduleFacts DEF Good, Planned
<1>3. e[1] \in paused => pausedAt[e[1]] \in 0 .. now
  BY ScheduleFacts
<1>4. IsOver(e) <=> len # Forever /\ Elapsed(e) >= s.delay + len
  BY DEF IsOver, PlanOf
<1> HIDE DEF len
<1>5. CASE len = Forever
  BY <1>2, <1>4, <1>5 DEF HasEnded
<1>6. CASE len # Forever
  <2>1. len \in Nat /\ s.until = s.requested + s.delay + len /\ s.until # Forever
    BY <1>1, <1>2, <1>6, PlaybackConstants DEF Points
  <2>2. CASE e[1] \notin paused
    <3>1. Elapsed(e) = now - s.requested
      BY <2>2 DEF Elapsed
    <3> QED BY <1>1, <1>4, <1>6, <2>1, <2>2, <3>1 DEF HasEnded
  <2>3. CASE e[1] \in paused
    <3>1. Elapsed(e) = EffectivePauseStart(s, pausedAt[e[1]]) - s.requested
      BY <2>3 DEF Elapsed
    <3>2. EffectivePauseStart(s, pausedAt[e[1]]) \in Nat
      BY <1>1, <1>3, <2>3 DEF EffectivePauseStart
    <3> QED BY <1>1, <1>4, <2>1, <2>3, <3>1, <3>2
  <2> QED BY <2>2, <2>3
<1> QED BY <1>5, <1>6

(* EvaluateEffects looks at the points of time only, and yet finds the     *)
(* effects whose clock has passed the delay and not reached the end.       *)
LEMMA CountsFromSchedule == Schedule => CountsTheProducing
<1> SUFFICES ASSUME Schedule, NEW e \in Effects PROVE IsProducing(e) <=> e \in Clock!Producing
  BY DEF CountsTheProducing
<1>1. e \in Clock!Producing <=>
        e \in Playing /\ Elapsed(e) >= effect[e].delay /\ e[1] \notin paused
  BY DEF Clock!Producing, Playing, PlanOf
<1>2. e \in Playing <=> effect[e].active /\ ~IsOver(e)
  BY DEF Playing
<1>3. ASSUME effect[e].active, e[1] \notin paused
      PROVE  /\ HasEnded(effect[e]) <=> IsOver(e)
             /\ HasBegun(effect[e]) <=> Elapsed(e) >= effect[e].delay
  <2>1. Good(effect[e]) /\ now \in Nat /\ Elapsed(e) = now - effect[e].requested
    BY <1>3, ScheduleFacts DEF Elapsed
  <2>2. HasBegun(effect[e]) <=> Elapsed(e) >= effect[e].delay
    BY <1>3, <2>1 DEF Good, EffectStates, Planned, HasBegun
  <2> QED BY <1>3, <2>2, EndFacts
<1> QED BY <1>1, <1>2, <1>3 DEF IsProducing, HasBegun

(* The clock of each effect before a step.                                 *)
ClockOf == [f \in Effects |-> IF f \in Playing THEN Elapsed(f) ELSE 0]

(* What remains to be shown of a step, for each effect by itself.          *)
LEMMA Settles ==
  ASSUME NEW P \in SUBSET Effects, NEW t,
         \A f \in Effects :
           /\ (f \in Playing)' <=> f \in P /\ ~Clock!Over(PlanOf(f)', t[f])
           /\ (f \in Playing)' => Elapsed(f)' = t[f]
  PROVE  Clock!Settle(P, t)
<1>1. Playing' = {f \in P : ~Clock!Over([g \in Effects |-> PlanOf(g)]'[f], t[f])}
  <2>1. Playing' \subseteq Effects
    BY DEF Playing
  <2>2. \A f \in Effects : [g \in Effects |-> PlanOf(g)]'[f] = PlanOf(f)'
    OBVIOUS
  <2> QED BY <2>1, <2>2
<1>2. [f \in Effects |-> IF f \in Playing THEN Elapsed(f) ELSE 0]'
        = [f \in Effects |-> IF f \in Playing' THEN t[f] ELSE 0]
  OBVIOUS
<1> QED BY <1>1, <1>2 DEF Clock!Settle

LEMMA InPlaying ==
  ASSUME NEW f \in Effects
  PROVE  f \in Playing <=> effect[f].active /\ ~Clock!Over(PlanOf(f), Elapsed(f))
BY DEF Playing, IsOver, Clock!Over

LEMMA InPlayingNext ==
  ASSUME NEW f \in Effects
  PROVE  (f \in Playing)' <=> effect'[f].active /\ ~Clock!Over(PlanOf(f)', Elapsed(f)')
BY DEF Playing, IsOver, Clock!Over

(* An effect that is left alone, on a device that is left alone.           *)
LEMMA LeftAlone ==
  ASSUME NEW f \in Effects, effect'[f] = effect[f], UNCHANGED now,
         pausedAt'[f[1]] = pausedAt[f[1]], f[1] \in Devices
  PROVE  /\ PlanOf(f)' = PlanOf(f) /\ Elapsed(f)' = Elapsed(f)
         /\ (f \in Playing)' <=> f \in Playing
<1>1. PlanOf(f)' = PlanOf(f)
  BY DEF PlanOf, Length
<1>2. (f[1] \in paused)' <=> f[1] \in paused
  BY DEF paused
<1>3. Elapsed(f)' = Elapsed(f)
  BY <1>2 DEF Elapsed
<1> QED BY <1>1, <1>3, InPlaying, InPlayingNext

LEMMA PlanUnchanged ==
  ASSUME NEW f \in Effects, effect'[f].delay = effect[f].delay,
         Length(effect'[f]) = Length(effect[f])
  PROVE  PlanOf(f)' = PlanOf(f)
BY DEF PlanOf, Length

LEMMA OnlyOne ==
  ASSUME NEW e \in Effects, \A f \in Effects \ {e} : PlanOf(f)' = PlanOf(f)
  PROVE  Clock!OnlyPlanOf(e)
<1>1. \A f \in Effects : /\ [g \in Effects |-> PlanOf(g)]'[f] = PlanOf(f)'
                         /\ [g \in Effects |-> PlanOf(g)][f] = PlanOf(f)
  OBVIOUS
<1> QED BY <1>1 DEF Clock!OnlyPlanOf

LEMMA NoPlan ==
  ASSUME \A f \in Effects : PlanOf(f)' = PlanOf(f)
  PROVE  [f \in Effects |-> PlanOf(f)]' = [f \in Effects |-> PlanOf(f)]
OBVIOUS

(* EffectCreated, Stop, Unload and Release halt one clock.                 *)
LEMMA HaltIsHalt ==
  ASSUME Schedule, NEW e \in Effects, ~effect'[e].active,
         \A f \in Effects \ {e} : effect'[f] = effect[f], UNCHANGED <<now, pausedAt>>
  PROVE  Clock!Halt(e)
<1>1. \A f \in Effects \ {e} : /\ PlanOf(f)' = PlanOf(f) /\ Elapsed(f)' = Elapsed(f)
                               /\ (f \in Playing)' <=> f \in Playing
  BY ScheduleFacts, LeftAlone
<1>2. ~(e \in Playing)'
  BY InPlayingNext
<1>3. \A f \in Effects :
        /\ (f \in Playing)' <=> f \in Playing \ {e} /\ ~Clock!Over(PlanOf(f)', ClockOf[f])
        /\ (f \in Playing)' => Elapsed(f)' = ClockOf[f]
  BY <1>1, <1>2, InPlaying DEF ClockOf
<1>4. Clock!Settle(Playing \ {e}, ClockOf)
  <2>1. Playing \ {e} \in SUBSET Effects
    BY DEF Playing
  <2> QED BY <1>3, <2>1, Settles DEF Clock!Settle
<1>5. Clock!OnlyPlanOf(e)
  BY <1>1, OnlyOne
<1>6. paused' = paused
  BY DEF paused
<1> QED BY <1>4, <1>5, <1>6 DEF Clock!Halt, Clock!Settle, ClockOf

(* A request that is made now starts the clock of the effect at zero; with *)
(* the solo flag, the clocks of the device end.                            *)
LEMMA BeginIsStart ==
  ASSUME Schedule, NEW e \in Effects, NEW solo \in BOOLEAN,
         effect'[e].active, effect'[e].requested = now,
         \A f \in Effects \ {e} :
           effect'[f] = IF solo /\ f[1] = e[1] THEN Stop(effect[f]) ELSE effect[f],
         UNCHANGED <<now, pausedAt>>
  PROVE  Clock!Start(e)
<1> DEFINE others == IF solo THEN Clock!OnDevice(e[1]) ELSE {}
           P == (Playing \ others) \union {e}
           t == [ClockOf EXCEPT ![e] = 0]
<1>1. ASSUME NEW f \in Effects \ {e}, ~(solo /\ f[1] = e[1])
      PROVE  /\ PlanOf(f)' = PlanOf(f)
             /\ (f \in Playing)' <=> f \in P /\ ~Clock!Over(PlanOf(f)', t[f])
             /\ (f \in Playing)' => Elapsed(f)' = t[f]
  <2>1. /\ PlanOf(f)' = PlanOf(f) /\ Elapsed(f)' = Elapsed(f)
        /\ (f \in Playing)' <=> f \in Playing
    BY <1>1, ScheduleFacts, LeftAlone
  <2>2. f \in P <=> f \in Playing
    BY <1>1 DEF Clock!OnDevice
  <2>3. f \in Playing => t[f] = Elapsed(f)
    BY <1>1 DEF ClockOf
  <2> QED BY <2>1, <2>2, <2>3, InPlaying
<1>2. ASSUME NEW f \in Effects \ {e}, solo /\ f[1] = e[1]
      PROVE  PlanOf(f)' = PlanOf(f) /\ ~(f \in Playing)' /\ f \notin P
  <2>1. effect'[f] = Stop(effect[f]) /\ effect[f] \in EffectStates
    BY <1>2, ScheduleFacts DEF Good
  <2>2. ~(f \in Playing)' /\ PlanOf(f)' = PlanOf(f)
    BY <2>1, StopFacts, InPlayingNext, PlanUnchanged
  <2>3. f \notin P
    BY <1>2 DEF Clock!OnDevice
  <2> QED BY <2>2, <2>3
<1>3. Elapsed(e)' = 0
  <2>1. now \in Nat /\ e[1] \in Devices /\ (e[1] \in paused => pausedAt[e[1]] \in 0 .. now)
    BY ScheduleFacts
  <2>2. (e[1] \in paused)' <=> e[1] \in paused
    BY DEF paused
  <2> QED BY <2>1, <2>2 DEF Elapsed, EffectivePauseStart
<1>4. t[e] = 0 /\ e \in P
  BY DEF ClockOf
<1>5. /\ (e \in Playing)' <=> e \in P /\ ~Clock!Over(PlanOf(e)', t[e])
      /\ (e \in Playing)' => Elapsed(e)' = t[e]
  BY <1>3, <1>4, InPlayingNext
<1>6. Clock!Settle(P, t)
  <2>1. P \in SUBSET Effects
    BY DEF Playing
  <2> HIDE DEF P, t
  <2>2. \A f \in Effects :
          /\ (f \in Playing)' <=> f \in P /\ ~Clock!Over(PlanOf(f)', t[f])
          /\ (f \in Playing)' => Elapsed(f)' = t[f]
    BY <1>1, <1>2, <1>5
  <2> QED BY <2>1, <2>2, Settles DEF Clock!Settle
<1>7. Clock!OnlyPlanOf(e)
  BY <1>1, <1>2, OnlyOne
<1>8. paused' = paused /\ others \in {{}, Clock!OnDevice(e[1])}
  BY DEF paused
<1>9. \E os \in {{}, Clock!OnDevice(e[1])} : Clock!Settle((Playing \ os) \union {e}, [ClockOf EXCEPT ![e] = 0])
  BY <1>6, <1>8 DEF Clock!Settle
<1> QED BY <1>7, <1>8, <1>9 DEF Clock!Start, Clock!Settle, ClockOf

(* A command to a device halts its clocks, or changes none.                *)
LEMMA CommandIsCommand ==
  ASSUME Schedule, NEW e \in Effects, NEW halts \in BOOLEAN,
         \A f \in Effects :
           IF halts /\ f[1] = e[1] THEN ~effect'[f].active
           ELSE ((f \in Playing)' <=> f \in Playing) /\ (f \in Playing => Elapsed(f)' = Elapsed(f)),
         \A f \in Effects : PlanOf(f)' = PlanOf(f),
         paused' \in {paused \union {e[1]}, paused \ {e[1]}}
  PROVE  Clock!Command(e[1])
<1> DEFINE halted == IF halts THEN Clock!OnDevice(e[1]) ELSE {}
           P == Playing \ halted
<1>1. P \in SUBSET Effects
  BY DEF Playing
<1>2. ASSUME NEW f \in Effects, halts /\ f[1] = e[1] PROVE f \notin P /\ ~(f \in Playing)'
  BY <1>2, InPlayingNext DEF Clock!OnDevice
<1>3. ASSUME NEW f \in Effects, ~(halts /\ f[1] = e[1])
      PROVE  /\ f \in P <=> f \in Playing
             /\ (f \in Playing)' <=> f \in Playing
             /\ (f \in Playing => Elapsed(f)' = Elapsed(f))
  BY <1>3 DEF Clock!OnDevice
<1>4. \A f \in Effects : f \in Playing => ~Clock!Over(PlanOf(f), Elapsed(f)) /\ ClockOf[f] = Elapsed(f)
  BY InPlaying DEF ClockOf
<1> HIDE DEF P
<1>5. \A f \in Effects :
        /\ (f \in Playing)' <=> f \in P /\ ~Clock!Over(PlanOf(f)', ClockOf[f])
        /\ (f \in Playing)' => Elapsed(f)' = ClockOf[f]
  BY <1>2, <1>3, <1>4
<1>6. Clock!Settle(P, ClockOf)
  BY <1>1, <1>5, Settles DEF Clock!Settle
<1>7. \E hs \in {{}, Clock!OnDevice(e[1])} : Clock!Settle(Playing \ hs, ClockOf)
  BY <1>6 DEF Clock!Settle, P
<1>8. [f \in Effects |-> PlanOf(f)]' = [f \in Effects |-> PlanOf(f)]
  BY NoPlan
<1> QED BY <1>7, <1>8 DEF Clock!Command, Clock!Settle, ClockOf

LEMMA DeviceIsCommand ==
  ASSUME Schedule, NEW e \in Effects, StopAll(e[1]) \/ Pause(e[1]) \/ Continue(e[1])
  PROVE  Clock!Command(e[1])
<1> DEFINE d == e[1]
<1>1. CASE StopAll(d)
  <2>1. /\ \A f \in Effects : effect'[f] = IF f[1] = d THEN Stop(effect[f]) ELSE effect[f]
        /\ pausedAt' = [pausedAt EXCEPT ![d] = Forever] /\ now' = now
    BY <1>1 DEF StopAll, StopEffectsOf
  <2>2. paused' = paused \ {d}
    BY <2>1, ScheduleFacts DEF paused
  <2>3. ASSUME NEW f \in Effects, f[1] = d PROVE ~effect'[f].active /\ PlanOf(f)' = PlanOf(f)
    BY <2>1, <2>3, ScheduleFacts, StopFacts, PlanUnchanged DEF Good
  <2>4. ASSUME NEW f \in Effects, f[1] # d
        PROVE  PlanOf(f)' = PlanOf(f) /\ Elapsed(f)' = Elapsed(f)
               /\ ((f \in Playing)' <=> f \in Playing)
    <3>1. effect'[f] = effect[f] /\ pausedAt'[f[1]] = pausedAt[f[1]] /\ f[1] \in Devices
      BY <2>1, <2>4, ScheduleFacts
    <3> QED BY <2>1, <3>1, LeftAlone
  <2>5. \A f \in Effects :
          IF TRUE /\ f[1] = e[1] THEN ~effect'[f].active
          ELSE ((f \in Playing)' <=> f \in Playing) /\ (f \in Playing => Elapsed(f)' = Elapsed(f))
    BY <2>3, <2>4
  <2>6. \A f \in Effects : PlanOf(f)' = PlanOf(f)
    BY <2>3, <2>4
  <2> QED BY <2>2, <2>5, <2>6, CommandIsCommand
<1>2. CASE Pause(d)
  <2>1. /\ \A f \in Effects : effect'[f] = effect[f]
        /\ pausedAt' = [pausedAt EXCEPT ![d] = now] /\ now' = now /\ d \notin paused
        /\ d \in Devices /\ now \in Nat /\ now # Forever
    BY <1>2, ScheduleFacts DEF Pause
  <2>2. paused' = paused \union {d}
    BY <2>1, ScheduleFacts DEF paused
  <2>3. ASSUME NEW f \in Effects
        PROVE  PlanOf(f)' = PlanOf(f) /\ Elapsed(f)' = Elapsed(f)
    <3>1. PlanOf(f)' = PlanOf(f) /\ Good(effect[f]) /\ f[1] \in Devices
      BY <2>1, PlanUnchanged, ScheduleFacts
    <3>2. CASE f[1] = d
      <4>1. Elapsed(f) = now - effect[f].requested
        BY <2>1, <3>2 DEF Elapsed
      <4>2. pausedAt'[f[1]] = now /\ f[1] \in paused'
        BY <2>1, <2>2, <3>2, ScheduleFacts
      <4>3. Elapsed(f)' = IF now > effect[f].requested THEN now - effect[f].requested ELSE 0
        BY <2>1, <3>1, <4>2 DEF Elapsed, EffectivePauseStart, Good, EffectStates
      <4> QED BY <2>1, <3>1, <4>1, <4>3 DEF Good, EffectStates
    <3>3. CASE f[1] # d
      <4>1. pausedAt'[f[1]] = pausedAt[f[1]]
        BY <2>1, <3>1, <3>3, ScheduleFacts
      <4> QED BY <2>1, <3>1, <4>1, LeftAlone
    <3> QED BY <3>1, <3>2, <3>3
  <2>4. \A f \in Effects : (f \in Playing)' <=> f \in Playing
    BY <2>1, <2>3, InPlaying, InPlayingNext
  <2> QED BY <2>2, <2>3, <2>4, CommandIsCommand
<1>3. CASE Continue(d)
  <2>1. /\ \A f \in Effects :
             effect'[f] = IF f[1] = d THEN ResumeAfterPause(effect[f], pausedAt[d]) ELSE effect[f]
        /\ pausedAt' = [pausedAt EXCEPT ![d] = Forever] /\ now' = now /\ d \in paused
        /\ d \in Devices /\ now \in Nat /\ pausedAt[d] \in 0 .. now
    BY <1>3, ScheduleFacts DEF Continue
  <2>2. paused' = paused \ {d}
    BY <2>1, ScheduleFacts DEF paused
  <2>3. ASSUME NEW f \in Effects
        PROVE  /\ PlanOf(f)' = PlanOf(f) /\ effect'[f].active = effect[f].active
               /\ effect[f].active => Elapsed(f)' = Elapsed(f)
    <3>1. Good(effect[f]) /\ f[1] \in Devices
      BY ScheduleFacts
    <3>2. CASE f[1] = d
      <4>1. /\ effect'[f].active = effect[f].active
            /\ effect'[f].delay = effect[f].delay /\ Length(effect'[f]) = Length(effect[f])
            /\ effect[f].active => now - effect'[f].requested =
                 IF pausedAt[d] > effect[f].requested THEN pausedAt[d] - effect[f].requested ELSE 0
        <5>1. effect'[f] = ResumeAfterPause(effect[f], pausedAt[d])
          BY <2>1, <3>2
        <5>2. LET r == ResumeAfterPause(effect[f], pausedAt[d]) IN
              /\ r.active = effect[f].active
              /\ r.delay = effect[f].delay /\ Length(r) = Length(effect[f])
              /\ effect[f].active => now - r.requested =
                   IF pausedAt[d] > effect[f].requested THEN pausedAt[d] - effect[f].requested ELSE 0
          BY <2>1, <3>1, ResumeFacts DEF Good
        <5> QED BY <5>1, <5>2
      <4>2. Elapsed(f)' = now - effect'[f].requested
        BY <2>1, <2>2, <3>2 DEF Elapsed
      <4>3. Elapsed(f) = IF pausedAt[d] > effect[f].requested
                         THEN pausedAt[d] - effect[f].requested ELSE 0
        BY <2>1, <3>1, <3>2 DEF Elapsed, EffectivePauseStart, Good, EffectStates
      <4> QED BY <4>1, <4>2, <4>3, PlanUnchanged
    <3>3. CASE f[1] # d
      <4>1. pausedAt'[f[1]] = pausedAt[f[1]] /\ effect'[f] = effect[f]
        BY <2>1, <3>1, <3>3, ScheduleFacts
      <4> QED BY <2>1, <3>1, <4>1, LeftAlone
    <3> QED BY <3>2, <3>3
  <2>4. \A f \in Effects : /\ (f \in Playing)' <=> f \in Playing
                           /\ f \in Playing => Elapsed(f)' = Elapsed(f)
    BY <2>3, InPlaying, InPlayingNext
  <2> QED BY <2>2, <2>3, <2>4, CommandIsCommand
<1> QED BY <1>1, <1>2, <1>3

(* Tick only forgets effects whose clock had ended already.                *)
LEMMA TickIsStutter ==
  ASSUME Schedule, Tick
  PROVE  UNCHANGED Clock!clockVars
<1>1. UNCHANGED <<now, pausedAt>>
  BY DEF Tick
<1>2. ASSUME NEW f \in Effects
      PROVE  /\ PlanOf(f)' = PlanOf(f) /\ ((f \in Playing)' <=> f \in Playing)
             /\ f \in Playing => Elapsed(f)' = Elapsed(f)
  <2>1. CASE effect'[f] = effect[f]
    BY <1>1, <2>1, ScheduleFacts, LeftAlone
  <2>2. CASE /\ effect'[f] = Stop(effect[f])
             /\ HasEnded(effect[f]) /\ f[1] \notin paused
    <3>1. f \notin Playing
      BY <2>2, EndFacts DEF Playing, HasEnded
    <3>2. ~effect'[f].active /\ PlanOf(f)' = PlanOf(f)
      BY <2>2, ScheduleFacts, StopFacts, PlanUnchanged DEF Good
    <3> QED BY <3>1, <3>2, InPlayingNext
  <2> QED BY <2>1, <2>2, TickStep
<1>3. Playing' = Playing
  <2>1. Playing \subseteq Effects /\ Playing' \subseteq Effects
    BY DEF Playing
  <2> QED BY <1>2, <2>1
<1>4. [f \in Effects |-> IF f \in Playing THEN Elapsed(f) ELSE 0]'
        = [f \in Effects |-> IF f \in Playing THEN Elapsed(f) ELSE 0]
  BY <1>2, <1>3
<1>5. [f \in Effects |-> PlanOf(f)]' = [f \in Effects |-> PlanOf(f)]
  BY <1>2, NoPlan
<1>6. paused' = paused
  BY <1>1 DEF paused
<1> QED BY <1>3, <1>4, <1>5, <1>6 DEF Clock!clockVars

(* Time passes on the clocks of the devices that are not paused.           *)
LEMMA PassIsPass ==
  ASSUME Schedule, Pass
  PROVE  Clock!Pass
<1> DEFINE t == [f \in Effects |-> IF f[1] \in paused THEN ClockOf[f] ELSE ClockOf[f] + 1]
<1>1. now' = now + 1 /\ UNCHANGED <<effect, pausedAt>>
  BY DEF Pass
<1>2. paused' = paused
  BY <1>1 DEF paused
<1>3. ASSUME NEW f \in Effects
      PROVE  /\ PlanOf(f)' = PlanOf(f) /\ Elapsed(f) \in Nat
             /\ Elapsed(f)' = IF f[1] \in paused THEN Elapsed(f) ELSE Elapsed(f) + 1
  <2>1. PlanOf(f)' = PlanOf(f)
    BY <1>1, PlanUnchanged
  <2>2. /\ effect[f].requested \in Nat /\ effect[f].requested <= now /\ now \in Nat
        /\ f[1] \in paused => pausedAt[f[1]] \in 0 .. now
    BY ScheduleFacts DEF Good, EffectStates
  <2> QED BY <1>1, <1>2, <2>1, <2>2 DEF Elapsed, EffectivePauseStart
<1>4. ASSUME NEW f \in Effects
      PROVE  /\ (f \in Playing)' => f \in Playing
             /\ f \in Playing => Elapsed(f)' = t[f]
  <2>1. Length(effect[f]) \in Points /\ effect[f].delay \in Nat
    BY ScheduleFacts, LengthType DEF Good, EffectStates
  <2>2. PlanOf(f).length \in Points /\ PlanOf(f).delay \in Nat
    BY <2>1 DEF PlanOf
  <2>3. Clock!Over(PlanOf(f), Elapsed(f)) => Clock!Over(PlanOf(f), Elapsed(f)')
    BY <1>3, <2>2 DEF Clock!Over, Points
  <2>4. (f \in Playing)' => f \in Playing
    BY <1>1, <1>3, <2>3, InPlaying, InPlayingNext
  <2>5. f \in Playing => Elapsed(f)' = t[f]
    BY <1>3 DEF ClockOf
  <2> QED BY <2>4, <2>5
<1> HIDE DEF t
<1>5. \A f \in Effects :
        /\ (f \in Playing)' <=> f \in Playing /\ ~Clock!Over(PlanOf(f)', t[f])
        /\ (f \in Playing)' => Elapsed(f)' = t[f]
  BY <1>1, <1>4, InPlaying, InPlayingNext
<1>6. Playing \in SUBSET Effects
  BY DEF Playing
<1>7. Clock!Settle(Playing, t)
  BY <1>5, <1>6, Settles DEF Clock!Settle
<1>8. [f \in Effects |-> PlanOf(f)]' = [f \in Effects |-> PlanOf(f)]
  BY <1>3, NoPlan
<1> QED BY <1>2, <1>7, <1>8 DEF Clock!Pass, Clock!Settle, ClockOf, t

(* A SetParameters frame restarts the effect, or changes the plan under a  *)
(* clock that goes on, or finds the effect over.  An effect whose end was  *)
(* reached before a pause is not found over: that is Resurrected.          *)
LEMMA ParametersIsChange ==
  ASSUME Schedule, NEW e \in Effects, EffectParameters(e)
  PROVE  Clock!Start(e) \/ Clock!Change(e) \/ Clock!Halt(e) \/ Resurrected(e)
<1>1. PICK c \in Changes : effect'[e] = Changed(e, c)
  BY ParametersStep
<1>2. /\ \A f \in Effects \ {e} : effect'[f] = effect[f]
      /\ UNCHANGED <<now, pausedAt>>
  BY ParametersStep DEF EffectParameters
<1>3. CASE effect'[e].active /\ effect'[e].requested = now
  <2>1. \A f \in Effects \ {e} :
          effect'[f] = IF FALSE /\ f[1] = e[1] THEN Stop(effect[f]) ELSE effect[f]
    BY <1>2
  <2> QED BY <1>2, <1>3, <2>1, BeginIsStart
<1>4. CASE ~effect'[e].active
  BY <1>2, <1>4, HaltIsHalt
<1>5. CASE effect'[e].active /\ effect'[e].requested # now
  <2>1. /\ Observed(e) = effect[e] /\ effect[e].active
        /\ effect'[e].requested = effect[e].requested
        /\ e[1] \in paused \/ ~HasEnded(effect[e])
    BY <1>1, <1>5, ChangedFacts, ObservedFacts
  <2>2. Elapsed(e)' = Elapsed(e)
    <3>1. (e[1] \in paused)' <=> e[1] \in paused
      BY <1>2 DEF paused
    <3> QED BY <1>2, <2>1, <3>1 DEF Elapsed, EffectivePauseStart
  <2>3. CASE e \notin Playing
    <3>1. IsOver(e)
      BY <2>1, <2>3 DEF Playing
    <3>2. /\ e[1] \in paused /\ effect[e].until # Forever
          /\ EffectivePauseStart(effect[e], pausedAt[e[1]]) >= effect[e].until
      BY <2>1, <3>1, EndFacts
    <3> QED BY <1>2, <2>1, <3>2 DEF Resurrected
  <2>4. CASE e \in Playing
    <3>1. \A f \in Effects \ {e} : /\ PlanOf(f)' = PlanOf(f) /\ Elapsed(f)' = Elapsed(f)
                                   /\ (f \in Playing)' <=> f \in Playing
      BY <1>2, ScheduleFacts, LeftAlone
    <3>2. (e \in Playing)' <=> ~Clock!Over(PlanOf(e)', Elapsed(e))
      BY <1>5, <2>2, InPlayingNext
    <3>3. \A f \in Effects : f \in Playing => ClockOf[f] = Elapsed(f)
      BY DEF ClockOf
    <3>4. \A f \in Effects :
            /\ (f \in Playing)' <=> f \in Playing /\ ~Clock!Over(PlanOf(f)', ClockOf[f])
            /\ (f \in Playing)' => Elapsed(f)' = ClockOf[f]
      BY <2>2, <2>4, <3>1, <3>2, <3>3, InPlaying
    <3>5. Playing \in SUBSET Effects
      BY DEF Playing
    <3>6. Clock!Settle(Playing, ClockOf)
      BY <3>4, <3>5, Settles DEF Clock!Settle
    <3>7. Clock!OnlyPlanOf(e) /\ paused' = paused
      BY <1>2, <3>1, OnlyOne DEF paused
    <3> QED BY <3>6, <3>7 DEF Clock!Change, Clock!Settle, ClockOf
  <2> QED BY <2>3, <2>4
<1> QED BY <1>3, <1>4, <1>5

LEMMA InitIsClockInit == Init => Clock!ClockInit
<1> SUFFICES ASSUME Init PROVE Clock!ClockInit
  OBVIOUS
<1>1. \A f \in Effects : effect[f] = NewEffect
  BY DEF Init
<1>2. Playing = {}
  BY <1>1, NewEffectFacts DEF Playing
<1>3. paused = {}
  BY DEF Init, paused
<1>4. \A f \in Effects : PlanOf(f) = [delay |-> 0, length |-> Forever]
  BY <1>1, NewEffectFacts DEF PlanOf
<1> QED BY <1>2, <1>3, <1>4 DEF Clock!ClockInit

ClockStep == [Clock!ClockNext \/ \E e \in Effects : Resurrected(e)]_Clock!clockVars

LEMMA StepIsClockStep == Schedule /\ [Next]_vars => ClockStep
<1> SUFFICES ASSUME Schedule, [Next]_vars PROVE ClockStep
  OBVIOUS
<1>1. ASSUME NEW e \in Effects, EffectCreated(e) \/ StopEffect(e) \/ ReleaseEffect(e)
      PROVE  Clock!Halt(e)
  <2>1. UNCHANGED <<now, pausedAt>>
    BY <1>1 DEF EffectCreated, StopEffect, ReleaseEffect
  <2> QED BY <1>1, <2>1, EffectStep, HaltIsHalt
<1>2. ASSUME NEW e \in Effects, EffectParameters(e)
      PROVE  Clock!Start(e) \/ Clock!Change(e) \/ Clock!Halt(e) \/ Resurrected(e)
  BY <1>2, ParametersIsChange
<1>3. ASSUME NEW e \in Effects, StartEffect(e) PROVE Clock!Start(e)
  <2>1. UNCHANGED <<now, pausedAt>>
    BY <1>3 DEF StartEffect
  <2> QED BY <1>3, <2>1, StartStep, BeginIsStart
<1>4. ASSUME NEW d \in Devices, StopAll(d) \/ Pause(d) \/ Continue(d)
      PROVE  \E e \in Effects : Clock!Command(e[1])
  <2>1. PICK e \in Effects : d = e[1]
    BY DEF Devices
  <2> QED BY <1>4, <2>1, DeviceIsCommand
<1>5. CASE Tick
  BY <1>5, TickIsStutter DEF ClockStep
<1>6. CASE Pass
  BY <1>6, PassIsPass DEF ClockStep, Clock!ClockNext
<1>7. CASE UNCHANGED vars
  <2>1. UNCHANGED <<now, effect, pausedAt>>
    BY <1>7 DEF vars
  <2> QED BY <2>1
          DEF ClockStep, Clock!clockVars, Playing, IsOver, Elapsed, EffectivePauseStart, PlanOf, Length, paused
<1> QED BY <1>1, <1>2, <1>3, <1>4, <1>5, <1>6, <1>7 DEF Next, ClockStep, Clock!ClockNext

(* The stored points of time of EffectState implement the clocks of        *)
(* PlaybackClock in every behaviour, but for the step that Resurrected     *)
(* describes.                                                              *)
THEOREM PlaybackFollowsTheClock == Spec => FollowsTheClock
<1>1. Init => Clock!ClockInit
  BY InitIsClockInit
<1>2. Schedule /\ [Next]_vars =>
        [Clock!ClockNext \/ \E e \in Effects : Resurrected(e)]_Clock!clockVars
  BY StepIsClockStep DEF ClockStep
<1> QED BY <1>1, <1>2, ScheduleHolds, PTL DEF Spec, FollowsTheClock

(* EvaluateEffects counts the effects that the user feels, no more and no  *)
(* less, whenever it looks.                                                *)
THEOREM PlaybackCounts == Spec => []CountsTheProducing
BY CountsFromSchedule, ScheduleHolds, PTL

-----------------------------------------------------------------------------
(* The detector: records of samples                                        *)

(* A set of numbers has a least one: induction by the least counterexample.*)
LEMMA LeastNumber ==
  ASSUME NEW T, T \subseteq Nat, T # {}
  PROVE  \E n \in T : \A m \in T : n <= m
<1>1. PICK n \in T : \A m \in T : ~(<<m, n>> \in OpToRel(<, Nat))
  BY NatLessThanWellFounded, WFMin
<1>2. \A m \in T : ~(m < n) BY <1>1 DEF OpToRel
<1>3. QED BY <1>2

(* Max is the maximum.                                                     *)
LEMMA MaxIs ==
  ASSUME NEW S, NEW m \in S, S \subseteq Int, \A n \in S : m >= n
  PROVE  D!Max(S) = m
<1>1. PICK x : x = D!Max(S) OBVIOUS
<1>2. x = CHOOSE y \in S : \A n \in S : y >= n BY <1>1 DEF D!Max
<1>3. x \in S /\ \A n \in S : x >= n BY <1>2
<1>4. QED BY <1>1, <1>3

(* The maximum of two numbers is one of them.                              *)
LEMMA MaxOfTwo ==
  ASSUME NEW x \in Int, NEW y \in Int
  PROVE  D!Max({x, y}) = IF x >= y THEN x ELSE y
<1>1. CASE x >= y BY <1>1, MaxIs
<1>2. CASE ~(x >= y) BY <1>2, MaxIs
<1>3. QED BY <1>1, <1>2

Sample == [at : Nat, limit : BOOLEAN, below : BOOLEAN]

(* A record of samples, in the order of their times.                      *)
Ordered(s) ==
  /\ s \in Seq(Sample)
  /\ \A i, j \in 1..Len(s) : i < j => s[i].at < s[j].at

(* The times of a record are numbers.                                      *)
LEMMA SamplesAre ==
  ASSUME NEW s, Ordered(s)
  PROVE  /\ Len(s) \in Nat /\ DOMAIN s = 1..Len(s)
         /\ \A j \in 1..Len(s) : s[j].at \in Nat /\ s[j] \in Sample
<1>1. s \in Seq(Sample) BY DEF Ordered
<1>2. Len(s) \in Nat /\ DOMAIN s = 1..Len(s) BY <1>1
<1>3. \A j \in 1..Len(s) : s[j] \in Sample BY <1>1
<1>4. \A x \in Sample : x.at \in Nat BY DEF Sample
<1>5. QED BY <1>2, <1>3, <1>4

(* The index of the sample in force at t.                                  *)
Index(s, t) == D!Max({i \in DOMAIN s : s[i].at <= t})

(* A sample is in force until the next one.                                *)
LEMMA IndexIs ==
  ASSUME NEW s, Ordered(s), NEW i \in 1..Len(s), NEW t \in Int, s[i].at <= t,
         i < Len(s) => t < s[i + 1].at
  PROVE  Index(s, t) = i
<1>1. Len(s) \in Nat /\ DOMAIN s = 1..Len(s) /\ \A j \in 1..Len(s) : s[j].at \in Nat
  BY SamplesAre
<1>2. PICK T : T = {j \in DOMAIN s : s[j].at <= t} OBVIOUS
<1>3. i \in T /\ T \subseteq Int BY <1>1, <1>2
<1>4. ASSUME NEW j \in T PROVE i >= j
  <2>1. j \in 1..Len(s) /\ s[j].at <= t BY <1>1, <1>2
  <2>2. SUFFICES ASSUME i < j PROVE FALSE BY <2>1
  <2>3. PICK k : k = i + 1 OBVIOUS
  <2>4. k \in 1..Len(s) /\ t < s[k].at /\ (k = j \/ k < j) BY <1>1, <2>1, <2>2, <2>3
  <2>5. s[k].at <= s[j].at
    <3>1. CASE k = j BY <1>1, <2>1, <3>1
    <3>2. CASE k < j
      <4>1. s[k].at < s[j].at BY <2>1, <2>4, <3>2 DEF Ordered
      <4>2. QED BY <1>1, <2>1, <2>4, <4>1
    <3>3. QED BY <2>4, <3>1, <3>2
  <2>6. QED BY <1>1, <2>1, <2>4, <2>5
<1>5. QED BY <1>2, <1>3, <1>4, MaxIs DEF Index

(* Between two samples there is a sample in force. *)
LEMMA Between ==
  ASSUME NEW s, Ordered(s), NEW r \in 1..Len(s), NEW t \in Int, s[r].at <= t, t < s[Len(s)].at
  PROVE  \E i \in r..Len(s) - 1 : s[i].at <= t /\ t < s[i + 1].at /\ Index(s, t) = i
<1>1. Len(s) \in Nat /\ \A j \in 1..Len(s) : s[j].at \in Nat BY SamplesAre
<1>2. PICK T : T = {j \in r..Len(s) : t < s[j].at} OBVIOUS
<1>3. T \subseteq Nat /\ Len(s) \in T BY <1>1, <1>2
<1>4. PICK k \in T : \A j \in T : k <= j BY <1>3, LeastNumber
<1>5. k \in r..Len(s) /\ t < s[k].at BY <1>2, <1>4
<1>6. k # r BY <1>1, <1>5
<1>7. PICK i : i = k - 1 OBVIOUS
<1>8. i \in r..Len(s) - 1 /\ i + 1 = k /\ i \notin T BY <1>1, <1>4, <1>5, <1>6, <1>7
<1>9. s[i].at <= t BY <1>1, <1>2, <1>8
<1>10. Index(s, t) = i BY <1>1, <1>5, <1>8, <1>9, IndexIs
<1>11. QED BY <1>5, <1>8, <1>9, <1>10

(* The length of the run that reaches up to the last sample, over G.       *)
RunOver(s, G) ==
  D!Max({n \in 0..s[Len(s)].at - s[1].at :
           \A t \in s[Len(s)].at - n..s[Len(s)].at - 1 : Index(s, t) \in G})

(* The run begins at the sample after the last one outside of G.           *)
LEMMA RunIs ==
  ASSUME NEW s, Ordered(s), NEW G, NEW r \in 1..Len(s), r..Len(s) - 1 \subseteq G,
         r = 1 \/ r - 1 \notin G
  PROVE  RunOver(s, G) = s[Len(s)].at - s[r].at
<1>1. Len(s) \in Nat /\ \A j \in 1..Len(s) : s[j].at \in Nat BY SamplesAre
<1>2. PICK l, f, e : l = s[Len(s)].at /\ f = s[1].at /\ e = s[r].at OBVIOUS
<1>3. \A i, j \in 1..Len(s) : i < j => s[i].at < s[j].at BY DEF Ordered
<1>4. l \in Nat /\ f \in Nat /\ e \in Nat /\ f <= e /\ e <= l
  <2>1. 1 \in 1..Len(s) /\ Len(s) \in 1..Len(s) BY <1>1
  <2>2. f = e \/ f < e BY <1>1, <1>2, <1>3, <2>1
  <2>3. e = l \/ e < l BY <1>1, <1>2, <1>3, <2>1
  <2>4. QED BY <1>1, <1>2, <2>1, <2>2, <2>3
<1>5. PICK T : T = {n \in 0..l - f : \A t \in l - n..l - 1 : Index(s, t) \in G} OBVIOUS
<1>6. PICK m : m = l - e OBVIOUS
<1>7. m \in T
  <2>1. m \in 0..l - f /\ l - m = e BY <1>4, <1>6
  <2>2. ASSUME NEW t \in l - m..l - 1 PROVE Index(s, t) \in G
    <3>1. t \in Int /\ s[r].at <= t /\ t < s[Len(s)].at BY <1>2, <1>4, <2>1, <2>2
    <3>2. QED BY <3>1, Between
  <2>3. QED BY <1>5, <2>1, <2>2
<1>8. ASSUME NEW n \in T PROVE m >= n
  <2>1. n \in 0..l - f /\ \A t \in l - n..l - 1 : Index(s, t) \in G BY <1>5
  <2>2. SUFFICES ASSUME m < n PROVE FALSE BY <1>4, <1>6, <2>1
  <2>3. CASE r = 1 BY <1>2, <1>4, <1>6, <2>1, <2>2, <2>3
  <2>4. CASE r # 1
    <3>1. PICK q, t : q = r - 1 /\ t = e - 1 OBVIOUS
    <3>2. q \in 1..Len(s) /\ q < r /\ q + 1 = r /\ t \in Int BY <1>1, <1>4, <2>4, <3>1
    <3>3. s[q].at < e BY <1>2, <1>3, <3>2
    <3>4. s[q].at <= t /\ t < s[q + 1].at BY <1>1, <1>2, <1>4, <3>1, <3>2, <3>3
    <3>5. Index(s, t) = q BY <3>2, <3>4, IndexIs
    <3>6. t \in l - n..l - 1 BY <1>4, <1>6, <2>1, <2>2, <3>1
    <3>7. QED BY <2>1, <2>4, <3>1, <3>5, <3>6
  <2>5. QED BY <2>3, <2>4
<1>9. T \subseteq Int BY <1>4, <1>5
<1>10. D!Max(T) = m BY <1>7, <1>8, <1>9, MaxIs
<1>11. QED BY <1>2, <1>5, <1>6, <1>10 DEF RunOver

(* The moments of a..b-1 with a sample of G in force, and their number. *)
Part(s, G, a, b)  == {t \in a..b - 1 : Index(s, t) \in G}
Count(s, G, a, b) == Cardinality(Part(s, G, a, b))

(* There are finitely many moments, no more than the time has.             *)
LEMMA PartIsFinite ==
  ASSUME NEW s, NEW G, NEW a \in Int, NEW b \in Int
  PROVE  /\ IsFiniteSet(Part(s, G, a, b)) /\ Count(s, G, a, b) \in Nat
         /\ Count(s, G, a, b) <= IF a > b THEN 0 ELSE b - a
<1>1. PICK c : c = b - 1 OBVIOUS
<1>2. c \in Int BY <1>1
<1>3. IsFiniteSet(a..c) /\ Cardinality(a..c) = IF a > c THEN 0 ELSE c - a + 1
  BY <1>2, FS_Interval
<1>4. Part(s, G, a, b) \subseteq a..c BY <1>1 DEF Part
<1>5. IsFiniteSet(Part(s, G, a, b)) /\ Cardinality(Part(s, G, a, b)) <= Cardinality(a..c)
  BY <1>3, <1>4, FS_Subset
<1>6. Count(s, G, a, b) \in Nat BY <1>5, FS_CardinalityType DEF Count
<1>7. Count(s, G, a, b) <= IF a > c THEN 0 ELSE c - a + 1 BY <1>3, <1>5 DEF Count
<1>8. (IF a > c THEN 0 ELSE c - a + 1) = IF a > b THEN 0 ELSE b - a BY <1>1, <1>2
<1>9. QED BY <1>5, <1>6, <1>7, <1>8

(* From a later time on there is less.                                     *)
LEMMA LaterIsLess ==
  ASSUME NEW s, NEW G, NEW a \in Int, NEW c \in Int, NEW b \in Int, a <= c
  PROVE  Count(s, G, c, b) <= Count(s, G, a, b)
<1>1. Part(s, G, c, b) \subseteq Part(s, G, a, b) BY DEF Part
<1>2. IsFiniteSet(Part(s, G, a, b)) BY PartIsFinite
<1>3. QED BY <1>1, <1>2, FS_Subset DEF Count

(* b..e - 1 is the time of the sample i, and c the first moment of it from *)
(* a on.                                                                   *)
TimeOf(s, i, a, b, e, c) == b = s[i].at /\ e = s[i + 1].at /\ c = D!Max({b, a})

(* One more sample adds the part of its own time that lies behind a.       *)
LEMMA CountsAdd ==
  ASSUME NEW s, Ordered(s), NEW G, NEW i \in 1..Len(s) - 1, NEW a \in Int,
         NEW b, NEW e, NEW c, TimeOf(s, i, a, b, e, c), a < e
  PROVE  Count(s, G, a, e) = Count(s, G, a, b) + IF i \in G THEN e - c ELSE 0
<1>1. /\ Len(s) \in Nat /\ i \in 1..Len(s) /\ i + 1 \in 1..Len(s)
      /\ \A j \in 1..Len(s) : s[j].at \in Nat
  BY SamplesAre
<1>2. s[i].at < s[i + 1].at BY <1>1 DEF Ordered
<1>3. b \in Nat /\ e \in Nat /\ b < e /\ a < e BY <1>1, <1>2 DEF TimeOf
<1>4. c = IF b >= a THEN b ELSE a BY <1>3, MaxOfTwo DEF TimeOf
<1>5. c \in Int /\ b <= c /\ a <= c /\ c < e /\ (c = a \/ c = b)
  <2>1. CASE b >= a
    <3>1. c = b BY <1>4, <2>1
    <3>2. QED BY <1>3, <2>1, <3>1
  <2>2. CASE ~(b >= a)
    <3>1. c = a BY <1>4, <2>2
    <3>2. QED BY <1>3, <2>2, <3>1
  <2>3. QED BY <2>1, <2>2
<1>6. ASSUME NEW t \in Int, b <= t, t < e PROVE Index(s, t) = i
  BY <1>1, <1>6, IndexIs DEF TimeOf
<1>7. PICK X : X = IF i \in G THEN c..e - 1 ELSE {} OBVIOUS
<1>8. IsFiniteSet(X) /\ Cardinality(X) = IF i \in G THEN e - c ELSE 0
  <2>1. CASE i \in G
    <3>1. PICK d : d = e - 1 OBVIOUS
    <3>2. d \in Int BY <1>3, <3>1
    <3>3. IsFiniteSet(c..d) /\ Cardinality(c..d) = IF c > d THEN 0 ELSE d - c + 1
      BY <1>5, <3>2, FS_Interval
    <3>4. (IF c > d THEN 0 ELSE d - c + 1) = e - c BY <1>3, <1>5, <3>1
    <3>5. QED BY <1>7, <2>1, <3>1, <3>3, <3>4
  <2>2. CASE i \notin G BY <1>7, <2>2, FS_EmptySet
  <2>3. QED BY <2>1, <2>2
<1>9. PICK P, Q : P = Part(s, G, a, b) /\ Q = Part(s, G, a, e) OBVIOUS
<1>10. IsFiniteSet(P) BY <1>3, <1>9, PartIsFinite
<1>11. Q = P \union X
  <2>1. ASSUME NEW t \in Q PROVE t \in P \union X
    <3>1. t \in a..e - 1 /\ Index(s, t) \in G BY <1>9 DEF Part
    <3>2. CASE t < b
      <4>1. t \in a..b - 1 BY <1>3, <3>1, <3>2
      <4>2. QED BY <1>9, <3>1, <4>1 DEF Part
    <3>3. CASE ~(t < b)
      <4>1. t \in c..e - 1 BY <1>3, <1>5, <3>1, <3>3
      <4>2. i \in G BY <1>3, <1>6, <3>1, <3>3
      <4>3. QED BY <1>7, <4>1, <4>2
    <3>4. QED BY <3>2, <3>3
  <2>2. ASSUME NEW t \in P PROVE t \in Q
    <3>1. t \in a..b - 1 /\ Index(s, t) \in G BY <1>9 DEF Part
    <3>2. t \in a..e - 1 BY <1>3, <3>1
    <3>3. QED BY <1>9, <3>1, <3>2 DEF Part
  <2>3. ASSUME NEW t \in X PROVE t \in Q
    <3>1. i \in G /\ t \in c..e - 1 BY <1>7
    <3>2. t \in a..e - 1 /\ b <= t /\ t < e BY <1>3, <1>5, <3>1
    <3>3. Index(s, t) = i BY <1>6, <3>2
    <3>4. QED BY <1>9, <3>1, <3>2, <3>3 DEF Part
  <2>4. QED BY <2>1, <2>2, <2>3
<1>12. P \cap X = {}
  <2>1. ASSUME NEW t \in P, t \in X PROVE FALSE
    <3>1. t \in a..b - 1 BY <1>9 DEF Part
    <3>2. t \in c..e - 1 BY <1>7, <2>1
    <3>3. QED BY <1>3, <1>5, <3>1, <3>2
  <2>2. QED BY <2>1
<1>13. Cardinality(Q) = Cardinality(P) + Cardinality(X)
  <2>1. Cardinality(P \union X) = Cardinality(P) + Cardinality(X) - Cardinality(P \cap X)
    BY <1>8, <1>10, FS_Union
  <2>2. Cardinality(P \cap X) = 0 BY <1>12, FS_EmptySet
  <2>3. Cardinality(P) \in Nat /\ Cardinality(X) \in Nat BY <1>8, <1>10, FS_CardinalityType
  <2>4. QED BY <1>11, <2>1, <2>2, <2>3
<1>14. QED BY <1>8, <1>9, <1>13 DEF Count

(* The intervals of the detector are those between the samples from the    *)
(* one with index p on.                                                    *)
Recorded(s, p, h) ==
  /\ Len(h) = Len(s) - p
  /\ \A n \in 1..Len(h) :
       h[n] = [start |-> s[p + n - 1].at, end |-> s[p + n].at, clipped |-> s[p + n - 1].limit]

(* The samples at the limit.                                               *)
Limits(s) == {i \in DOMAIN s : s[i].limit}

(* ClippedTime, which sums over the intervals that the window still covers,*)
(* counts the moments at the limit: by the least counterexample.           *)
LEMMA ClippedTimeIs ==
  ASSUME NEW s, Ordered(s), NEW p \in 1..Len(s), NEW h, Recorded(s, p, h), D!Cutoff \in Int,
         \A n \in 1..Len(h) : D!Cutoff < h[n].end
  PROVE  D!ClippedTime(h) = Count(s, Limits(s), D!Max({s[p].at, D!Cutoff}), s[Len(s)].at)
<1>1. Len(s) \in Nat /\ DOMAIN s = 1..Len(s) /\ \A j \in 1..Len(s) : s[j].at \in Nat
  BY SamplesAre
<1>2. PICK k, b, a, c, G : /\ k = Len(h) /\ b = s[p].at /\ c = D!Cutoff
                           /\ a = D!Max({b, c}) /\ G = Limits(s)
  OBVIOUS
<1>3. k \in Nat /\ k = Len(s) - p /\ p + k = Len(s) /\ b \in Nat /\ c \in Int
  BY <1>1, <1>2 DEF Recorded
<1>4. a \in Int /\ b <= a /\ c <= a /\ (a = b \/ a = c)
  <2>1. a = IF b >= c THEN b ELSE c BY <1>2, <1>3, MaxOfTwo
  <2>2. QED BY <1>3, <2>1
<1>5. PICK f : f = [n \in 0..k |-> Count(s, G, a, s[p + n].at)] OBVIOUS
<1>6. f[0] = 0
  <2>1. Count(s, G, a, b) \in Nat /\ Count(s, G, a, b) <= IF a > b THEN 0 ELSE b - a
    BY <1>3, <1>4, PartIsFinite
  <2>2. Count(s, G, a, b) = 0 BY <1>3, <1>4, <2>1
  <2>3. f[0] = Count(s, G, a, s[p + 0].at) BY <1>3, <1>5
  <2>4. p + 0 = p BY <1>1
  <2>5. QED BY <1>2, <2>2, <2>3, <2>4
<1>7. \A n \in 0..k : f[n] \in Nat
  <2>1. \A n \in 0..k : p + n \in 1..Len(s) BY <1>1, <1>3
  <2>2. \A n \in 0..k : Count(s, G, a, s[p + n].at) \in Nat BY <1>1, <1>4, <2>1, PartIsFinite
  <2>3. QED BY <1>5, <2>2
<1> DEFINE Term(n) == IF h[n].clipped THEN h[n].end - D!Max({h[n].start, c}) ELSE 0
<1>8. ASSUME NEW n \in 1..k PROVE f[n] = f[n - 1] + Term(n)
  <2>1. PICK i : i = p + n - 1 OBVIOUS
  <2>2. i \in 1..Len(s) - 1 /\ i + 1 = p + n /\ i = p + (n - 1) /\ p <= i /\ i \in 1..Len(s)
        /\ i + 1 \in 1..Len(s)
    BY <1>1, <1>3, <2>1
  <2>3. h[n] = [start |-> s[i].at, end |-> s[i + 1].at, clipped |-> s[i].limit]
    BY <1>2, <2>1, <2>2 DEF Recorded
  <2>4. b <= s[i].at
    <3>1. CASE p = i BY <1>2, <1>3, <3>1
    <3>2. CASE p < i
      <4>1. s[p].at < s[i].at BY <2>2, <3>2 DEF Ordered
      <4>2. QED BY <1>1, <1>2, <2>2, <4>1
    <3>3. QED BY <1>1, <2>2, <3>1, <3>2
  <2>5. c < s[i + 1].at BY <1>2, <2>3
  <2>6. s[i].at < s[i + 1].at BY <1>1, <2>2 DEF Ordered
  <2>7. a < s[i + 1].at BY <1>1, <1>3, <1>4, <2>2, <2>4, <2>5, <2>6
  <2>8. Count(s, G, a, s[i + 1].at) =
          Count(s, G, a, s[i].at) + IF i \in G THEN s[i + 1].at - D!Max({s[i].at, a}) ELSE 0
    <3>1. PICK x, e, m : x = s[i].at /\ e = s[i + 1].at /\ m = D!Max({x, a}) OBVIOUS
    <3>2. i \in 1..Len(s) - 1 /\ a \in Int /\ a < e BY <1>4, <2>2, <2>7, <3>1
    <3>3. Count(s, G, a, e) = Count(s, G, a, x) + IF i \in G THEN e - m ELSE 0
      BY <3>1, <3>2, CountsAdd DEF TimeOf
    <3>4. QED BY <3>1, <3>3
  <2>9. D!Max({s[i].at, a}) = D!Max({s[i].at, c})
    <3>1. s[i].at \in Int BY <1>1, <2>2
    <3>2. PICK x : x = s[i].at OBVIOUS
    <3>3. D!Max({x, a}) = IF x >= a THEN x ELSE a BY <1>4, <3>1, <3>2, MaxOfTwo
    <3>4. D!Max({x, c}) = IF x >= c THEN x ELSE c BY <1>3, <3>1, <3>2, MaxOfTwo
    <3>5. QED BY <1>3, <1>4, <2>4, <3>1, <3>2, <3>3, <3>4
  <2>10. i \in G <=> s[i].limit BY <1>1, <1>2, <2>2 DEF Limits
  <2>11. Term(n) = IF i \in G THEN s[i + 1].at - D!Max({s[i].at, a}) ELSE 0
    BY <2>3, <2>9, <2>10
  <2>12. f[n] = Count(s, G, a, s[i + 1].at) /\ f[n - 1] = Count(s, G, a, s[i].at)
    <3>1. n \in 0..k /\ n - 1 \in 0..k BY <1>3
    <3>2. f[n] = Count(s, G, a, s[p + n].at) /\ f[n - 1] = Count(s, G, a, s[p + (n - 1)].at)
      BY <1>5, <3>1
    <3>3. QED BY <2>2, <3>2
  <2>13. QED BY <2>8, <2>11, <2>12
<1> DEFINE Sums(g) == g = [n \in 0..k |-> IF n = 0 THEN 0 ELSE g[n - 1] + Term(n)]
<1>9. Sums(f)
  <2>1. \A n \in 0..k : f[n] = IF n = 0 THEN 0 ELSE f[n - 1] + Term(n)
    <3>1. SUFFICES ASSUME NEW n \in 0..k
                   PROVE  f[n] = IF n = 0 THEN 0 ELSE f[n - 1] + Term(n)
      OBVIOUS
    <3>2. CASE n = 0 BY <1>6, <3>2
    <3>3. CASE n # 0
      <4>1. n \in 1..k BY <3>3
      <4>2. f[n] = f[n - 1] + Term(n) BY <1>8, <4>1
      <4>3. QED BY <3>3, <4>2
    <3>4. QED BY <3>2, <3>3
  <2>2. f = [n \in 0..k |-> f[n]] BY <1>5
  <2>3. [n \in 0..k |-> f[n]] = [n \in 0..k |-> IF n = 0 THEN 0 ELSE f[n - 1] + Term(n)]
    BY <2>1, Zenon
  <2>4. QED BY <2>2, <2>3
<1>10. PICK g : g = CHOOSE x : Sums(x) OBVIOUS
<1>11. Sums(g) BY <1>9, <1>10
<1>12. \A n \in 0..k : g[n] = IF n = 0 THEN 0 ELSE g[n - 1] + Term(n)
  <2>1. PICK x : x = [n \in 0..k |-> IF n = 0 THEN 0 ELSE g[n - 1] + Term(n)] OBVIOUS
  <2>2. \A n \in 0..k : x[n] = IF n = 0 THEN 0 ELSE g[n - 1] + Term(n) BY <2>1
  <2>3. g = x BY <1>11, <2>1, Zenon
  <2>4. QED BY <2>2, <2>3
<1>13. g[k] = f[k]
  <2>1. PICK T : T = {n \in 0..k : g[n] # f[n]} OBVIOUS
  <2>2. SUFFICES ASSUME T # {} PROVE FALSE BY <1>3, <2>1
  <2>3. T \subseteq Nat BY <2>1
  <2>4. PICK n \in T : \A m \in T : n <= m BY <2>2, <2>3, LeastNumber
  <2>5. n \in 0..k /\ g[n] # f[n] BY <2>1, <2>4
  <2>6. n # 0
    <3>1. 0 \in 0..k BY <1>3
    <3>2. g[0] = 0 BY <1>12, <3>1
    <3>3. QED BY <1>6, <2>5, <3>2
  <2>7. n \in 1..k /\ n - 1 \in 0..k /\ n - 1 \notin T
    <3>1. n \in 1..k /\ n - 1 \in 0..k /\ ~(n <= n - 1) BY <1>3, <2>5, <2>6
    <3>2. QED BY <2>4, <3>1
  <2>8. g[n - 1] = f[n - 1] BY <2>1, <2>7
  <2>9. g[n] = g[n - 1] + Term(n) BY <1>12, <2>5, <2>6
  <2>10. f[n] = f[n - 1] + Term(n) BY <1>8, <2>7
  <2>11. QED BY <2>5, <2>8, <2>9, <2>10
<1>14. D!ClippedTime(h) = g[k] BY <1>2, <1>10 DEF D!ClippedTime
<1>15. f[k] = Count(s, G, a, s[Len(s)].at) BY <1>3, <1>5
<1>16. QED BY <1>2, <1>13, <1>14, <1>15

(* What the detector keeps of the time between two ticks.                  *)
Interval == [start : Nat, end : Nat, clipped : BOOLEAN]

(* What is let go of the window ended before it.                           *)
LEMMA VisibleIs ==
  ASSUME NEW s, Ordered(s), NEW p \in 1..Len(s), NEW h \in Seq(Interval), Recorded(s, p, h),
         D!Cutoff \in Int, NEW v, v = D!Visible(h)
  PROVE  \E q \in p..Len(s) : /\ Recorded(s, q, v) /\ v \in Seq(Interval)
                              /\ \A n \in 1..Len(v) : D!Cutoff < v[n].end
                              /\ q = p \/ s[q].at <= D!Cutoff
<1>1. Len(s) \in Nat /\ \A j \in 1..Len(s) : s[j].at \in Nat BY SamplesAre
<1>2. PICK k, c : k = Len(h) /\ c = D!Cutoff OBVIOUS
<1>3. /\ k \in Nat /\ c \in Int /\ p + k = Len(s)
      /\ \A n \in 1..k :
           h[n] = [start |-> s[p + n - 1].at, end |-> s[p + n].at, clipped |-> s[p + n - 1].limit]
  BY <1>1, <1>2 DEF Recorded
<1> DEFINE of(n) == [start |-> s[p + n - 1].at, end |-> s[p + n].at, clipped |-> s[p + n - 1].limit]
<1>4. ASSUME NEW n \in 1..k PROVE h[n].end = s[p + n].at
  <2>1. h[n] = of(n) BY <1>3
  <2>2. of(n).end = s[p + n].at OBVIOUS
  <2>3. QED BY <2>1, <2>2
<1>5. PICK T : T = {n \in 0..k : \A i \in 1..n : h[i].end <= c} OBVIOUS
<1>6. PICK m \in T : \A n \in T : m >= n
  <2>1. PICK U : U = {x \in 0..k : k - x \in T} OBVIOUS
  <2>2. 0 \in T BY <1>3, <1>5
  <2>3. k \in U /\ U \subseteq Nat BY <1>3, <2>1, <2>2
  <2>4. PICK x \in U : \A y \in U : x <= y BY <2>3, LeastNumber
  <2>5. x \in 0..k /\ k - x \in T BY <2>1, <2>4
  <2>6. ASSUME NEW n \in T PROVE k - x >= n
    <3>1. n \in 0..k BY <1>5
    <3>2. k - n \in 0..k /\ k - (k - n) = n BY <1>3, <3>1
    <3>3. k - n \in U BY <2>1, <3>2
    <3>4. x <= k - n BY <2>4, <3>3
    <3>5. QED BY <1>3, <2>5, <3>1, <3>4
  <2>7. QED BY <2>5, <2>6
<1>7. m \in 0..k /\ \A i \in 1..m : h[i].end <= c BY <1>5, <1>6
<1>8. D!Max(T) = m
  <2>1. T \subseteq Int BY <1>3, <1>5
  <2>2. QED BY <1>6, <2>1, MaxIs
<1>9. v = SubSeq(h, m + 1, k) BY <1>2, <1>5, <1>8 DEF D!Visible
<1>10. v \in Seq(Interval) /\ Len(v) = k - m /\ \A n \in 1..k - m : v[n] = h[m + n]
  <2>1. \A i \in m + 1..k : h[i] \in Interval BY <1>2, <1>3, <1>7
  <2>2. v \in Seq(Interval) BY <1>3, <1>7, <1>9, <2>1
  <2>3. Len(v) = k - m
    <3>1. PICK l : l = m + 1 OBVIOUS
    <3>2. l \in Int /\ v = SubSeq(h, l, k) BY <1>7, <1>9, <3>1
    <3>3. Len(v) = IF l <= k THEN k - l + 1 ELSE 0 BY <1>2, <1>3, <3>2, SubSeqProperties
    <3>4. QED BY <1>3, <1>7, <3>1, <3>3
  <2>4. ASSUME NEW n \in 1..k - m PROVE v[n] = h[m + n]
    <3>1. PICK l : l = m + 1 OBVIOUS
    <3>2. l \in Int /\ v = SubSeq(h, l, k) BY <1>7, <1>9, <3>1
    <3>3. n \in 1..k - l + 1 /\ l + n - 1 = m + n BY <1>3, <1>7, <3>1
    <3>4. v[n] = h[l + n - 1] BY <1>2, <1>3, <3>2, <3>3, SubSeqProperties
    <3>5. QED BY <3>3, <3>4
  <2>5. QED BY <2>2, <2>3, <2>4
<1>11. PICK q : q = p + m OBVIOUS
<1>12. q \in p..Len(s) /\ Len(v) = Len(s) - q BY <1>1, <1>3, <1>7, <1>10, <1>11
<1>13. ASSUME NEW n \in 1..Len(v)
       PROVE  v[n] = [start |-> s[q + n - 1].at, end |-> s[q + n].at, clipped |-> s[q + n - 1].limit]
  <2>1. PICK i : i = m + n OBVIOUS
  <2>2. i \in 1..k /\ p + i = q + n /\ p + i - 1 = q + n - 1
    BY <1>1, <1>3, <1>7, <1>10, <1>11, <2>1
  <2>3. v[n] = h[i] BY <1>10, <2>1
  <2>4. QED BY <1>3, <2>2, <2>3
<1>14. Recorded(s, q, v) BY <1>12, <1>13 DEF Recorded
<1>15. ASSUME NEW n \in 1..Len(v) PROVE c < v[n].end
  <2>1. PICK i, j : i = m + 1 /\ j = m + n OBVIOUS
  <2>2. i \in 1..k /\ j \in 1..k /\ i <= j /\ v[n] = h[j] BY <1>3, <1>7, <1>10, <2>1
  <2>3. i \notin T BY <1>6, <1>7, <2>1
  <2>4. i \in 0..k BY <2>2
  <2>5. PICK l \in 1..i : ~(h[l].end <= c) BY <1>5, <2>3, <2>4
  <2>6. l \notin 1..m BY <1>7, <2>5
  <2>7. l = i BY <1>7, <2>1, <2>5, <2>6
  <2>8. h[i].end = s[p + i].at /\ h[j].end = s[p + j].at BY <1>4, <2>2
  <2>9. PICK x, y : x = p + i /\ y = p + j OBVIOUS
  <2>10. x \in 1..Len(s) /\ y \in 1..Len(s) /\ (x = y \/ x < y) BY <1>1, <1>3, <2>2, <2>9
  <2>11. s[x].at = s[y].at \/ s[x].at < s[y].at BY <2>10 DEF Ordered
  <2>12. s[x].at \in Nat /\ s[y].at \in Nat /\ ~(s[x].at <= c)
    BY <1>1, <2>5, <2>7, <2>8, <2>9, <2>10
  <2>13. c < s[y].at BY <1>3, <2>11, <2>12
  <2>14. QED BY <2>2, <2>8, <2>9, <2>13
<1>16. q = p \/ s[q].at <= c
  <2>1. CASE m = 0 BY <1>1, <1>11, <2>1
  <2>2. CASE m # 0
    <3>1. m \in 1..k /\ m \in 1..m BY <1>7, <2>2
    <3>2. h[m].end <= c BY <1>7, <3>1
    <3>3. h[m].end = s[p + m].at BY <1>4, <3>1
    <3>4. QED BY <1>11, <3>2, <3>3
  <2>3. QED BY <2>1, <2>2
<1>17. QED BY <1>2, <1>10, <1>12, <1>14, <1>15, <1>16

(* The states of the detector.                                             *)
Detectors ==
  [history : Seq(Interval), lastTick : Int, atLimit : BOOLEAN, belowExit : BOOLEAN,
   limitRun : Nat, belowRun : Nat, clipping : BOOLEAN, clipped : Nat]

(* The samples below the exit threshold.                                   *)
Belows(s) == {i \in DOMAIN s : s[i].below}

(* n is the length of the run over samples in G up to the last one.        *)
IsRun(s, G, n) ==
  \E r \in 1..Len(s) : /\ n = s[Len(s)].at - s[r].at
                       /\ r..Len(s) - 1 \subseteq G /\ (r = 1 \/ r - 1 \notin G)

(* u is s with one more sample.                                            *)
Adds(s, x, u) == /\ Ordered(s) /\ Len(s) # 0 /\ x \in Sample /\ s[Len(s)].at < x.at
                 /\ u = Append(s, x)

(* The new sample is the last one, and the others stay.                    *)
LEMMA AddsOne ==
  ASSUME NEW s, NEW x, NEW u, Adds(s, x, u)
  PROVE  /\ Ordered(u) /\ Len(u) = Len(s) + 1 /\ u[Len(u)] = x /\ Len(s) \in 1..Len(s)
         /\ Len(s) \in Nat /\ \A i \in 1..Len(s) : u[i] = s[i]
<1>1. s \in Seq(Sample) /\ x \in Sample /\ u = Append(s, x) /\ Len(s) # 0
  BY DEF Adds, Ordered
<1>2. /\ u \in Seq(Sample) /\ Len(s) \in Nat /\ Len(u) = Len(s) + 1 /\ u[Len(u)] = x
      /\ \A i \in 1..Len(s) : u[i] = s[i]
  BY <1>1
<1>3. Len(s) \in 1..Len(s) BY <1>1, <1>2
<1>4. ASSUME NEW i \in 1..Len(u), NEW j \in 1..Len(u), i < j PROVE u[i].at < u[j].at
  <2>1. i \in 1..Len(s) /\ u[i] = s[i] BY <1>2, <1>4
  <2>2. \A k \in 1..Len(s) : s[k].at \in Nat BY SamplesAre DEF Adds
  <2>3. CASE j \in 1..Len(s)
    <3>1. u[j] = s[j] BY <1>2, <2>3
    <3>2. s[i].at < s[j].at BY <1>4, <2>1, <2>3 DEF Adds, Ordered
    <3>3. QED BY <2>1, <3>1, <3>2
  <2>4. CASE j = Len(u)
    <3>1. s[i].at <= s[Len(s)].at
      <4>1. CASE i = Len(s) BY <2>1, <2>2, <4>1
      <4>2. CASE i # Len(s)
        <5>1. i < Len(s) BY <1>2, <2>1, <4>2
        <5>2. s[i].at < s[Len(s)].at BY <1>3, <2>1, <5>1 DEF Adds, Ordered
        <5>3. QED BY <1>3, <2>1, <2>2, <5>2
      <4>3. QED BY <4>1, <4>2
    <3>2. s[Len(s)].at < x.at /\ x.at \in Nat BY DEF Adds, Sample
    <3>3. s[i].at < x.at BY <1>3, <2>1, <2>2, <3>1, <3>2
    <3>4. QED BY <1>2, <2>1, <2>4, <3>3
  <2>5. QED BY <1>2, <2>3, <2>4
<1>5. Ordered(u) BY <1>2, <1>4 DEF Ordered
<1>6. QED BY <1>2, <1>3, <1>5

(* A run over G grows by the time of the last sample if that is in G, and  *)
(* otherwise a new one begins: what Tick does to its two run lengths.      *)
LEMMA RunGoesOn ==
  ASSUME NEW s, NEW x, NEW u, Adds(s, x, u), NEW G, NEW H, \A i \in 1..Len(s) : i \in H <=> i \in G,
         NEW n, Len(s) \in G => IsRun(s, G, n)
  PROVE  IsRun(u, H, IF Len(s) \in G THEN n + (x.at - s[Len(s)].at) ELSE 0)
<1>1. PICK l, m : l = Len(s) /\ m = Len(u) OBVIOUS
<1>2. /\ Ordered(u) /\ m = l + 1 /\ u[m] = x /\ l \in 1..l /\ l \in Nat
      /\ \A i \in 1..l : u[i] = s[i]
  BY <1>1, AddsOne
<1>3. \A i \in 1..l : s[i].at \in Nat BY <1>1, SamplesAre DEF Adds
<1>4. x.at \in Nat BY DEF Adds, Sample
<1>5. CASE l \in G
  <2>1. PICK r \in 1..l : n = s[l].at - s[r].at /\ r..l - 1 \subseteq G /\ (r = 1 \/ r - 1 \notin G)
    BY <1>1, <1>5 DEF IsRun
  <2>2. r \in 1..m /\ u[r] = s[r] BY <1>2, <2>1
  <2>3. n + (x.at - s[l].at) = u[m].at - u[r].at
    <3>1. s[r].at \in Nat /\ s[l].at \in Nat BY <1>2, <1>3
    <3>2. n + (x.at - s[l].at) = x.at - s[r].at BY <1>4, <2>1, <3>1
    <3>3. QED BY <1>2, <2>2, <3>2
  <2>4. r..m - 1 \subseteq H
    <3>1. ASSUME NEW i \in r..m - 1 PROVE i \in H
      <4>1. i \in 1..l /\ (i = l \/ i \in r..l - 1) BY <1>2
      <4>2. QED BY <1>1, <1>5, <2>1, <4>1
    <3>2. QED BY <3>1
  <2>5. r = 1 \/ r - 1 \notin H
    <3>1. CASE r # 1
      <4>1. r - 1 \in 1..l BY <1>2, <3>1
      <4>2. QED BY <1>1, <2>1, <3>1, <4>1
    <3>2. QED BY <3>1
  <2>6. IsRun(u, H, n + (x.at - s[l].at)) BY <1>1, <2>2, <2>3, <2>4, <2>5 DEF IsRun
  <2>7. QED BY <1>1, <1>5, <2>6
<1>6. CASE l \notin G
  <2>1. m \in 1..m /\ m - 1 = l /\ m # 1 BY <1>2
  <2>2. m - 1 \notin H BY <1>1, <1>2, <1>6, <2>1
  <2>3. m..m - 1 \subseteq H BY <2>1
  <2>4. 0 = u[m].at - u[m].at BY <1>2, <1>4
  <2>5. IsRun(u, H, 0) BY <1>1, <2>1, <2>2, <2>3, <2>4 DEF IsRun
  <2>6. QED BY <1>1, <1>6, <2>5
<1>7. QED BY <1>5, <1>6

(* The interval that Tick appends is the one up to the new sample.         *)
LEMMA RecordGoesOn ==
  ASSUME NEW s, NEW x, NEW u, Adds(s, x, u), NEW p \in 1..Len(s), NEW h \in Seq(Interval),
         Recorded(s, p, h), NEW i,
         i = [start |-> s[Len(s)].at, end |-> x.at, clipped |-> s[Len(s)].limit]
  PROVE  Recorded(u, p, Append(h, i)) /\ Append(h, i) \in Seq(Interval)
<1>1. PICK l, m, k, g : l = Len(s) /\ m = Len(u) /\ k = Len(h) /\ g = Append(h, i) OBVIOUS
<1>2. /\ m = l + 1 /\ u[m] = x /\ l \in 1..l /\ l \in Nat
      /\ \A j \in 1..l : u[j] = s[j]
  BY <1>1, AddsOne
<1>3. i \in Interval
  <2>1. s[l] \in Sample /\ x \in Sample BY <1>1, <1>2, SamplesAre DEF Adds
  <2>2. s[l].at \in Nat /\ x.at \in Nat /\ s[l].limit \in BOOLEAN BY <2>1 DEF Sample
  <2>3. QED BY <1>1, <2>2 DEF Interval
<1>4. g \in Seq(Interval) /\ Len(g) = k + 1 /\ g[k + 1] = i /\ \A n \in 1..k : g[n] = h[n]
  BY <1>1, <1>3
<1>5. k \in Nat /\ k = l - p BY <1>1 DEF Recorded
<1>6. ASSUME NEW n \in 1..k + 1
      PROVE  g[n] = [start |-> u[p + n - 1].at, end |-> u[p + n].at, clipped |-> u[p + n - 1].limit]
  <2>1. CASE n \in 1..k
    <3>1. h[n] = [start |-> s[p + n - 1].at, end |-> s[p + n].at, clipped |-> s[p + n - 1].limit]
      BY <1>1, <2>1 DEF Recorded
    <3>2. p + n - 1 \in 1..l /\ p + n \in 1..l BY <1>1, <1>5, <2>1
    <3>3. u[p + n - 1] = s[p + n - 1] /\ u[p + n] = s[p + n] BY <1>2, <3>2
    <3>4. QED BY <1>4, <2>1, <3>1, <3>3
  <2>2. CASE n = k + 1
    <3>1. p + n - 1 = l /\ p + n = m BY <1>1, <1>2, <1>5, <2>2
    <3>2. u[l] = s[l] BY <1>2
    <3>3. QED BY <1>1, <1>2, <1>4, <2>2, <3>1, <3>2
  <2>3. QED BY <1>5, <2>1, <2>2
<1>7. Len(g) = m - p BY <1>1, <1>2, <1>4, <1>5
<1>8. QED BY <1>1, <1>4, <1>6, <1>7, <1>5 DEF Recorded

(* No level is at the limit and below the exit threshold.                  *)
Quarrels(s) == \E i \in DOMAIN s : s[i].limit /\ s[i].below

(* What the fields of the detector d say, by the record s.  The last tick. *)
LastSeen(d, s) ==
  /\ d.lastTick = s[Len(s)].at /\ d.atLimit = s[Len(s)].limit /\ d.belowExit = s[Len(s)].below

(* Its intervals, which begin at the end of the last episode, x, or where a*)
(* window let go, at y at the latest.                                      *)
Held(d, s, x, y) ==
  \E p \in 1..Len(s) : /\ Recorded(s, p, d.history)
                       /\ x <= s[p].at /\ (s[p].at <= x \/ s[p].at <= y)

(* Its two runs; EndEpisode resets that at the limit, while the level is   *)
(* below the exit threshold.                                               *)
Runs(d, s) ==
  /\ IsRun(s, Limits(s), d.limitRun) \/ (d.limitRun = 0 /\ d.belowExit)
  /\ IsRun(s, Belows(s), d.belowRun)

(* All of them: the detector follows the record.                           *)
Follows(d, s, x, y) ==
  /\ Ordered(s) /\ Len(s) # 0 /\ ~Quarrels(s)
  /\ LastSeen(d, s) /\ Held(d, s, x, y) /\ Runs(d, s)

(* The detector follows the record of the specification, if there is one.  *)
RecordHolds ==
  /\ detector \in Detectors /\ since \in Nat /\ forgotten \in Nat
  /\ IF samples = <<>> THEN detector = D!Quiet(D!Never) /\ since = 0 /\ forgotten = 0
     ELSE Follows(detector, samples, since, forgotten) /\ detector.lastTick <= clock

(* What a tick adds to the record.                                         *)
Seen(level) == [at |-> clock, limit |-> level = "limit", below |-> level = "below"]

(* It is a sample of this time, and does not quarrel.                      *)
LEMMA SeenIsASample ==
  ASSUME clock \in Nat, NEW level, NEW x, x = Seen(level)
  PROVE  /\ x \in Sample /\ x.at = clock /\ ~(x.limit /\ x.below)
         /\ x.limit = (level = "limit") /\ x.below = (level = "below")
BY DEF Seen, Sample

(* A record that begins has no runs and no intervals.                      *)
LEMMA OneSample ==
  ASSUME NEW x \in Sample, NEW s, s = <<x>>
  PROVE  /\ Ordered(s) /\ Len(s) = 1 /\ s[1] = x
         /\ \A G : IsRun(s, G, 0)
         /\ Recorded(s, 1, <<>>)
<1>1. s \in Seq(Sample) /\ Len(s) = 1 /\ s[1] = x OBVIOUS
<1>2. Ordered(s) BY <1>1 DEF Ordered
<1>3. x.at \in Nat BY DEF Sample
<1>4. ASSUME NEW G PROVE IsRun(s, G, 0)
  <2>1. 1 \in 1..Len(s) /\ 0 = s[Len(s)].at - s[1].at BY <1>1, <1>3
  <2>2. 1..Len(s) - 1 \subseteq G BY <1>1
  <2>3. QED BY <2>1, <2>2 DEF IsRun
<1>5. Recorded(s, 1, <<>>) BY <1>1 DEF Recorded
<1>6. QED BY <1>1, <1>2, <1>4, <1>5

(* A tick that is connected adds the interval since the last one and its   *)
(* length to the runs that go on.                                          *)
LEMMA ConnectedFollows ==
  ASSUME RecordHolds, clock \in Nat, detector.lastTick < clock, samples # <<>>, NEW level,
         NEW u, u = Append(samples, Seen(level)),
         NEW d, d = [D!Connected(detector) EXCEPT !.lastTick = clock, !.atLimit = level = "limit",
                                                  !.belowExit = level = "below"]
  PROVE  /\ d \in Detectors /\ d.clipping = detector.clipping
         /\ Follows(d, u, since, forgotten)
         /\ IsRun(u, Limits(u), d.limitRun)
<1>1. PICK s, x, l, e : s = samples /\ x = Seen(level) /\ l = Len(s) /\ e = detector OBVIOUS
<1>2. /\ e \in Detectors /\ Ordered(s) /\ l # 0 /\ ~Quarrels(s) /\ LastSeen(e, s)
      /\ Held(e, s, since, forgotten) /\ Runs(e, s)
  BY <1>1 DEF RecordHolds, Follows
<1>3. /\ x \in Sample /\ x.at = clock /\ ~(x.limit /\ x.below)
      /\ x.limit = (level = "limit") /\ x.below = (level = "below")
  BY <1>1, SeenIsASample
<1>4. Adds(s, x, u) BY <1>1, <1>2, <1>3 DEF Adds, LastSeen
<1>5. /\ Ordered(u) /\ Len(u) = l + 1 /\ u[Len(u)] = x /\ l \in 1..l /\ l \in Nat
      /\ \A i \in 1..l : u[i] = s[i]
  BY <1>1, <1>4, AddsOne
<1>6. DOMAIN s = 1..l /\ DOMAIN u = 1..l + 1 /\ \A i \in 1..l : s[i] \in Sample /\ s[i].at \in Nat
  <2>1. DOMAIN s = 1..Len(s) /\ \A i \in 1..Len(s) : s[i] \in Sample /\ s[i].at \in Nat
    BY <1>2, SamplesAre
  <2>2. DOMAIN u = 1..Len(u) BY <1>5, SamplesAre
  <2>3. QED BY <1>1, <1>5, <2>1, <2>2
<1>7. PICK i, t : /\ i = [start |-> e.lastTick, end |-> clock, clipped |-> e.atLimit]
                  /\ t = clock - e.lastTick
  OBVIOUS
<1>8. /\ d.history = Append(e.history, i)
      /\ d.limitRun = (IF e.atLimit THEN e.limitRun + t ELSE 0)
      /\ d.belowRun = (IF e.belowExit THEN e.belowRun + t ELSE 0)
      /\ d.lastTick = clock /\ d.atLimit = (level = "limit") /\ d.belowExit = (level = "below")
      /\ d.clipping = e.clipping /\ d.clipped = e.clipped
  BY <1>1, <1>2, <1>7 DEF D!Connected, Detectors
<1>9. t \in Nat /\ e.lastTick = s[l].at /\ t = x.at - s[l].at /\ e.lastTick \in Nat
  BY <1>1, <1>2, <1>3, <1>5, <1>6, <1>7 DEF LastSeen
<1>10. i \in Interval /\ i = [start |-> s[l].at, end |-> x.at, clipped |-> s[l].limit]
  <2>1. e.atLimit \in BOOLEAN BY <1>2 DEF Detectors
  <2>2. QED BY <1>1, <1>2, <1>3, <1>7, <1>9, <2>1 DEF Interval, LastSeen
<1>11. d \in Detectors
  <2>1. Append(e.history, i) \in Seq(Interval)
    <3>1. e.history \in Seq(Interval) BY <1>2 DEF Detectors
    <3>2. QED BY <1>10, <3>1
  <2>2. e.limitRun \in Nat /\ e.belowRun \in Nat BY <1>2 DEF Detectors
  <2>3. (IF e.atLimit THEN e.limitRun + t ELSE 0) \in Nat BY <1>9, <2>2
  <2>4. (IF e.belowExit THEN e.belowRun + t ELSE 0) \in Nat BY <1>9, <2>2
  <2>5. PICK h, a, b : /\ h = Append(e.history, i) /\ a = (IF e.atLimit THEN e.limitRun + t ELSE 0)
                       /\ b = (IF e.belowExit THEN e.belowRun + t ELSE 0)
    OBVIOUS
  <2>6. d = [e EXCEPT !.history = h, !.limitRun = a, !.belowRun = b, !.lastTick = clock,
                      !.atLimit = level = "limit", !.belowExit = level = "below"]
    BY <1>1, <1>7, <2>5 DEF D!Connected
  <2>7. h \in Seq(Interval) /\ a \in Nat /\ b \in Nat /\ clock \in Int
    BY <2>1, <2>3, <2>4, <2>5
  <2>8. QED BY <1>2, <2>6, <2>7 DEF Detectors
<1>12. LastSeen(d, u) BY <1>3, <1>5, <1>8 DEF LastSeen
<1>13. Held(d, u, since, forgotten)
  <2>1. PICK p \in 1..l : /\ Recorded(s, p, e.history)
                          /\ since <= s[p].at /\ (s[p].at <= since \/ s[p].at <= forgotten)
    BY <1>1, <1>2 DEF Held
  <2>2. e.history \in Seq(Interval) BY <1>2 DEF Detectors
  <2>3. Recorded(u, p, Append(e.history, i)) BY <1>1, <1>4, <1>10, <2>1, <2>2, RecordGoesOn
  <2>4. p \in 1..Len(u) /\ u[p] = s[p] BY <1>5, <2>1
  <2>5. QED BY <1>8, <2>1, <2>3, <2>4 DEF Held
<1>14. /\ \A j \in 1..l : (j \in Limits(u) <=> j \in Limits(s)) /\ (j \in Belows(u) <=> j \in Belows(s))
       /\ (l \in Limits(s) <=> e.atLimit) /\ (l \in Belows(s) <=> e.belowExit)
  <2>1. \A j \in 1..l : j \in DOMAIN s /\ j \in DOMAIN u /\ u[j] = s[j] BY <1>5, <1>6
  <2>2. l \in DOMAIN s BY <1>5, <1>6
  <2>3. QED BY <1>1, <1>2, <2>1, <2>2 DEF Limits, Belows, LastSeen
<1>15. ~Quarrels(u)
  <2>1. SUFFICES ASSUME NEW j \in DOMAIN u, u[j].limit, u[j].below PROVE FALSE
    BY DEF Quarrels
  <2>2. CASE j \in 1..l
    <3>1. j \in DOMAIN s /\ s[j] = u[j] BY <1>5, <1>6, <2>2
    <3>2. QED BY <1>2, <2>1, <3>1 DEF Quarrels
  <2>3. CASE j = Len(u) BY <1>3, <1>5, <2>1, <2>3
  <2>4. QED BY <1>5, <1>6, <2>2, <2>3
<1>16. IsRun(u, Limits(u), d.limitRun)
  <2>1. l \in Limits(s) => IsRun(s, Limits(s), e.limitRun)
    <3>1. SUFFICES ASSUME l \in Limits(s) PROVE IsRun(s, Limits(s), e.limitRun) OBVIOUS
    <3>2. s[l].limit /\ l \in DOMAIN s BY <3>1 DEF Limits
    <3>3. ~s[l].below BY <1>2, <3>2 DEF Quarrels
    <3>4. ~e.belowExit BY <1>1, <1>2, <3>3 DEF LastSeen
    <3>5. QED BY <1>2, <3>4 DEF Runs
  <2>2. IsRun(u, Limits(u), IF l \in Limits(s) THEN e.limitRun + (x.at - s[l].at) ELSE 0)
    BY <1>1, <1>4, <1>14, <2>1, RunGoesOn
  <2>3. d.limitRun = IF l \in Limits(s) THEN e.limitRun + (x.at - s[l].at) ELSE 0
    BY <1>8, <1>9, <1>14
  <2>4. QED BY <2>2, <2>3
<1>17. IsRun(u, Belows(u), d.belowRun)
  <2>1. IsRun(s, Belows(s), e.belowRun) BY <1>2 DEF Runs
  <2>2. IsRun(u, Belows(u), IF l \in Belows(s) THEN e.belowRun + (x.at - s[l].at) ELSE 0)
    BY <1>1, <1>4, <1>14, <2>1, RunGoesOn
  <2>3. d.belowRun = IF l \in Belows(s) THEN e.belowRun + (x.at - s[l].at) ELSE 0
    BY <1>8, <1>9, <1>14
  <2>4. QED BY <2>2, <2>3
<1>18. Follows(d, u, since, forgotten)
  BY <1>5, <1>12, <1>13, <1>15, <1>16, <1>17 DEF Follows, Runs
<1>19. QED BY <1>1, <1>8, <1>11, <1>16, <1>18

(* A tick that is not connected starts a new record.                       *)
LEMMA DisconnectedFollows ==
  ASSUME RecordHolds, clock \in Nat, NEW level, NEW u, u = <<Seen(level)>>, NEW y \in Nat,
         NEW d, d = [D!Disconnected(detector) EXCEPT !.lastTick = clock, !.atLimit = level = "limit",
                                                     !.belowExit = level = "below"]
  PROVE  /\ d \in Detectors /\ d.clipping = detector.clipping
         /\ Follows(d, u, clock, y)
         /\ IsRun(u, Limits(u), d.limitRun)
<1>1. PICK x, e : x = Seen(level) /\ e = detector OBVIOUS
<1>2. e \in Detectors BY <1>1 DEF RecordHolds
<1>3. /\ x \in Sample /\ x.at = clock /\ ~(x.limit /\ x.below)
      /\ x.limit = (level = "limit") /\ x.below = (level = "below")
  BY <1>1, SeenIsASample
<1>4. /\ Ordered(u) /\ Len(u) = 1 /\ u[1] = x /\ Recorded(u, 1, <<>>)
      /\ \A G : IsRun(u, G, 0)
  BY <1>1, <1>3, OneSample
<1>5. /\ d.history = <<>> /\ d.limitRun = 0 /\ d.belowRun = 0 /\ d.clipping = e.clipping
      /\ d.lastTick = clock /\ d.atLimit = (level = "limit") /\ d.belowExit = (level = "below")
  BY <1>1, <1>2 DEF D!Disconnected, Detectors
<1>6. d \in Detectors
  <2>1. d = [e EXCEPT !.history = <<>>, !.limitRun = 0, !.belowRun = 0, !.lastTick = clock,
                      !.atLimit = level = "limit", !.belowExit = level = "below"]
    BY <1>1 DEF D!Disconnected
  <2>2. PICK h, n : h = <<>> /\ n = 0 OBVIOUS
  <2>3. h \in Seq(Interval) /\ n \in Nat /\ clock \in Int BY <2>2
  <2>4. d = [e EXCEPT !.history = h, !.limitRun = n, !.belowRun = n, !.lastTick = clock,
                      !.atLimit = level = "limit", !.belowExit = level = "below"]
    BY <2>1, <2>2
  <2>5. QED BY <1>2, <2>3, <2>4 DEF Detectors
<1>7. LastSeen(d, u) BY <1>3, <1>4, <1>5 DEF LastSeen
<1>8. Held(d, u, clock, y)
  <2>1. 1 \in 1..Len(u) /\ u[1].at = clock BY <1>3, <1>4
  <2>2. QED BY <1>4, <1>5, <2>1 DEF Held
<1>9. IsRun(u, Limits(u), d.limitRun) /\ IsRun(u, Belows(u), d.belowRun) BY <1>4, <1>5
<1>10. ~Quarrels(u)
  <2>1. DOMAIN u = 1..1 BY <1>4, SamplesAre
  <2>2. QED BY <1>3, <1>4, <2>1 DEF Quarrels
<1>11. QED BY <1>1, <1>4, <1>5, <1>6, <1>7, <1>8, <1>9, <1>10 DEF Follows, Runs

(* k is the time at the limit from a on, and a is what the window c, the   *)
(* end of the last episode x and what was forgotten z make of it.          *)
Measures(s, a, k, c, x, z) ==
  /\ k = Count(s, Limits(s), a, s[Len(s)].at)
  /\ c <= a /\ x <= a /\ s[1].at <= a /\ (a <= c \/ a <= x \/ a <= z)

(* The ratio w of a detector d that follows its record.                    *)
Rates(d, s, x, y, z, w) ==
  /\ d \in Detectors /\ x \in Nat /\ y \in Nat /\ Follows(d, s, x, y)
  /\ IsRun(s, Limits(s), d.limitRun) /\ d.lastTick = clock
  /\ z = D!Max({y, D!Cutoff}) /\ w = D!WithRatio(d)

Rated(d, s, x, z, w) ==
  /\ w \in Detectors /\ w.clipping = d.clipping /\ w.lastTick = clock
  /\ w.belowExit = d.belowExit /\ w.limitRun = d.limitRun /\ w.belowRun = d.belowRun
  /\ Follows(w, s, x, z) /\ IsRun(s, Limits(s), w.limitRun)
  /\ w.clipped <= clock /\ \E a \in Int : Measures(s, a, w.clipped, D!Cutoff, x, z)

(* CalculateRatio lets go of what is behind the window only, and computes  *)
(* the time at the limit of the rest.                                      *)
LEMMA RatioFollows ==
  ASSUME clock \in Nat, D!Cutoff \in Int, D!Cutoff <= clock,
         NEW d, NEW s, NEW x, NEW y, NEW z, NEW w, Rates(d, s, x, y, z, w)
  PROVE  Rated(d, s, x, z, w)
<1> USE DEF Rates, Rated
<1>1. PICK h, v, c, k : h = d.history /\ v = D!Visible(h) /\ c = D!Cutoff /\ k = D!ClippedTime(v)
  OBVIOUS
<1>2. Ordered(s) /\ Len(s) # 0 /\ ~Quarrels(s) /\ LastSeen(d, s) /\ Held(d, s, x, y) /\ Runs(d, s)
  BY DEF Follows
<1>3. Len(s) \in Nat /\ Len(s) \in 1..Len(s) /\ \A j \in 1..Len(s) : s[j].at \in Nat
  <2>1. Len(s) \in Nat /\ \A j \in 1..Len(s) : s[j].at \in Nat BY <1>2, SamplesAre
  <2>2. QED BY <1>2, <2>1
<1>4. h \in Seq(Interval) BY <1>1 DEF Detectors
<1>5. c \in Int /\ c <= clock BY <1>1
<1>6. z \in Nat /\ y <= z /\ c <= z
  <2>1. z = IF y >= c THEN y ELSE c BY <1>1, <1>5, MaxOfTwo
  <2>2. QED BY <1>5, <2>1
<1>7. PICK p \in 1..Len(s) : /\ Recorded(s, p, h) /\ x <= s[p].at
                             /\ s[p].at <= x \/ s[p].at <= y
  BY <1>1, <1>2 DEF Held
<1>8. PICK q \in p..Len(s) : /\ Recorded(s, q, v) /\ v \in Seq(Interval)
                             /\ \A n \in 1..Len(v) : c < v[n].end
                             /\ q = p \/ s[q].at <= c
  BY <1>1, <1>2, <1>4, <1>5, <1>7, VisibleIs
<1>9. q \in 1..Len(s) BY <1>3, <1>7, <1>8
<1>10. PICK b, a : b = s[q].at /\ a = D!Max({b, c}) OBVIOUS
<1>11. b \in Nat /\ x <= b /\ (b <= x \/ b <= z)
  <2>1. b \in Nat /\ s[p].at \in Nat BY <1>3, <1>7, <1>9, <1>10
  <2>2. s[p].at <= b
    <3>1. CASE q = p BY <1>10, <2>1, <3>1
    <3>2. CASE q # p
      <4>1. p < q BY <1>3, <1>7, <1>8, <3>2
      <4>2. s[p].at < s[q].at BY <1>2, <1>7, <1>9, <4>1 DEF Ordered
      <4>3. QED BY <1>10, <2>1, <4>2
    <3>3. QED BY <3>1, <3>2
  <2>3. x <= b BY <1>7, <2>1, <2>2
  <2>4. CASE q = p BY <1>6, <1>7, <1>10, <2>1, <2>3, <2>4
  <2>5. CASE s[q].at <= c BY <1>5, <1>6, <1>10, <2>1, <2>3, <2>5
  <2>6. QED BY <1>8, <2>4, <2>5
<1>12. a \in Int /\ c <= a /\ b <= a /\ (a = b \/ a = c)
  <2>1. a = IF b >= c THEN b ELSE c BY <1>5, <1>10, <1>11, MaxOfTwo
  <2>2. QED BY <1>5, <1>11, <2>1
<1>13. s[Len(s)].at = clock BY <1>2 DEF LastSeen
<1>14. k = Count(s, Limits(s), a, clock)
  <2>1. D!Cutoff \in Int /\ \A n \in 1..Len(v) : D!Cutoff < v[n].end BY <1>1, <1>5, <1>8
  <2>2. D!ClippedTime(v) = Count(s, Limits(s), D!Max({s[q].at, D!Cutoff}), s[Len(s)].at)
    BY <1>2, <1>8, <1>9, <2>1, ClippedTimeIs
  <2>3. QED BY <1>1, <1>10, <1>13, <2>2
<1>15. k \in Nat /\ k <= clock
  <2>1. k \in Nat /\ k <= IF a > clock THEN 0 ELSE clock - a
    BY <1>12, <1>14, PartIsFinite
  <2>2. 0 <= a BY <1>11, <1>12
  <2>3. QED BY <1>12, <2>1, <2>2
<1>16. w = [d EXCEPT !.history = v, !.clipped = k] BY <1>1 DEF D!WithRatio
<1>17. w \in Detectors BY <1>8, <1>15, <1>16 DEF Detectors
<1>18. /\ w.history = v /\ w.clipped = k /\ w.clipping = d.clipping /\ w.lastTick = d.lastTick
       /\ w.atLimit = d.atLimit /\ w.belowExit = d.belowExit
       /\ w.limitRun = d.limitRun /\ w.belowRun = d.belowRun
  BY <1>16 DEF Detectors
<1>19. Held(w, s, x, z) BY <1>8, <1>9, <1>10, <1>11, <1>18 DEF Held
<1>20. LastSeen(w, s) /\ Runs(w, s) BY <1>2, <1>18 DEF LastSeen, Runs
<1>21. Follows(w, s, x, z) BY <1>2, <1>19, <1>20 DEF Follows
<1>22. x <= a /\ (a <= c \/ a <= x \/ a <= z)
  <2>1. x <= a BY <1>11, <1>12
  <2>2. CASE a = b BY <1>11, <2>1, <2>2
  <2>3. CASE a = c BY <1>5, <2>1, <2>3
  <2>4. QED BY <1>12, <2>1, <2>2, <2>3
<1>23. s[1].at <= a
  <2>1. 1 \in 1..Len(s) /\ s[1].at \in Nat BY <1>3
  <2>2. s[1].at <= s[q].at
    <3>1. CASE q = 1 BY <2>1, <3>1
    <3>2. CASE q # 1
      <4>1. 1 < q BY <1>3, <1>9, <3>2
      <4>2. s[1].at < s[q].at BY <1>2, <1>9, <2>1, <4>1 DEF Ordered
      <4>3. QED BY <1>10, <1>11, <2>1, <4>2
    <3>3. QED BY <3>1, <3>2
  <2>3. QED BY <1>10, <1>11, <1>12, <2>1, <2>2
<1>24. Measures(s, a, w.clipped, D!Cutoff, x, z)
  BY <1>1, <1>12, <1>13, <1>14, <1>18, <1>22, <1>23 DEF Measures
<1>25. QED BY <1>1, <1>12, <1>15, <1>17, <1>18, <1>21, <1>24

(* The maximum of three numbers.                                           *)
LEMMA MaxOfThree ==
  ASSUME NEW x \in Int, NEW y \in Int, NEW z \in Int
  PROVE  D!Max({x, y, z}) = D!Max({D!Max({x, y}), z}) /\ D!Max({x, y}) \in Int
<1>1. PICK m : m = D!Max({x, y}) OBVIOUS
<1>2. m = IF x >= y THEN x ELSE y BY <1>1, MaxOfTwo
<1>3. m \in {x, y} /\ m \in Int /\ m >= x /\ m >= y BY <1>2
<1>4. PICK n : n = D!Max({m, z}) OBVIOUS
<1>5. n = IF m >= z THEN m ELSE z BY <1>3, <1>4, MaxOfTwo
<1>6. n \in {x, y, z} /\ \A k \in {x, y, z} : n >= k BY <1>3, <1>5
<1>7. {x, y, z} \subseteq Int OBVIOUS
<1>8. D!Max({x, y, z}) = n BY <1>6, <1>7, MaxIs
<1>9. QED BY <1>1, <1>3, <1>4, <1>8

-----------------------------------------------------------------------------
(* The times that the properties of Detector read off the record, as       *)
(* operators on the record, so that one lemma serves for a state and the   *)
(* next one.                                                               *)

TimeOver(s, c, f) ==
  D!Cardinality({t \in D!Max({f, s[1].at})..c - 1 : s[Index(s, t)].limit})
LimitRunOver(s, c) ==
  D!Max({n \in 0..c - s[1].at : \A t \in c - n..c - 1 : s[Index(s, t)].limit})
BelowRunOver(s, c) ==
  D!Max({n \in 0..c - s[1].at : \A t \in c - n..c - 1 : s[Index(s, t)].below})

(* They are the times of this state.                                       *)
LEMMA ReadNow ==
  /\ \A f : D!LimitTime(f) = TimeOver(samples, clock, f)
  /\ D!LimitRun = LimitRunOver(samples, clock)
  /\ D!BelowRun = BelowRunOver(samples, clock)
BY DEF D!LimitTime, D!LimitRun, D!BelowRun, D!RunUpToNow, D!InForce, D!First, Index,
       TimeOver, LimitRunOver, BelowRunOver

(* They are the times of the next state.                                   *)
LEMMA ReadNext ==
  /\ \A f : D!LimitTime(f)' = TimeOver(samples', clock', f)
  /\ D!LimitRun' = LimitRunOver(samples', clock')
  /\ D!BelowRun' = BelowRunOver(samples', clock')
BY DEF D!LimitTime, D!LimitRun, D!BelowRun, D!RunUpToNow, D!InForce, D!First, Index,
       TimeOver, LimitRunOver, BelowRunOver

(* The time at the limit is a number of moments.                           *)
LEMMA TimeOverIs ==
  ASSUME NEW s, Ordered(s), Len(s) # 0, NEW c, c = s[Len(s)].at, NEW f \in Int
  PROVE  TimeOver(s, c, f) = Count(s, Limits(s), D!Max({f, s[1].at}), c)
<1>1. /\ Len(s) \in Nat /\ DOMAIN s = 1..Len(s) /\ 1 \in 1..Len(s) /\ Len(s) \in 1..Len(s)
      /\ \A j \in 1..Len(s) : s[j].at \in Nat
  <2>1. Len(s) \in Nat /\ DOMAIN s = 1..Len(s) /\ \A j \in 1..Len(s) : s[j].at \in Nat
    BY SamplesAre
  <2>2. QED BY <2>1
<1>2. PICK a : a = D!Max({f, s[1].at}) OBVIOUS
<1>3. a \in Int /\ s[1].at <= a
  <2>1. s[1].at \in Int BY <1>1
  <2>2. a = IF f >= s[1].at THEN f ELSE s[1].at BY <1>2, <2>1, MaxOfTwo
  <2>3. QED BY <2>1, <2>2
<1>4. ASSUME NEW t \in a..c - 1 PROVE s[Index(s, t)].limit <=> Index(s, t) \in Limits(s)
  <2>1. t \in Int /\ s[1].at <= t /\ t < s[Len(s)].at BY <1>1, <1>3
  <2>2. \E i \in 1..Len(s) - 1 : Index(s, t) = i BY <1>1, <2>1, Between
  <2>3. Index(s, t) \in DOMAIN s BY <1>1, <2>2
  <2>4. QED BY <2>3 DEF Limits
<1>5. {t \in a..c - 1 : s[Index(s, t)].limit} = Part(s, Limits(s), a, c)
  BY <1>4 DEF Part
<1>6. \A S : D!Cardinality(S) = Cardinality(S) BY DEF D!Cardinality, Cardinality
<1>7. QED BY <1>2, <1>5, <1>6 DEF TimeOver, Count

(* The runs of the record are those that the invariant speaks of.          *)
LEMMA RunsAre ==
  ASSUME NEW s, Ordered(s), Len(s) # 0, NEW c, c = s[Len(s)].at
  PROVE  /\ \A n : IsRun(s, Limits(s), n) => LimitRunOver(s, c) = n
         /\ \A n : IsRun(s, Belows(s), n) => BelowRunOver(s, c) = n
<1>1. /\ Len(s) \in Nat /\ DOMAIN s = 1..Len(s) /\ 1 \in 1..Len(s) /\ Len(s) \in 1..Len(s)
      /\ \A j \in 1..Len(s) : s[j].at \in Nat
  <2>1. Len(s) \in Nat /\ DOMAIN s = 1..Len(s) /\ \A j \in 1..Len(s) : s[j].at \in Nat
    BY SamplesAre
  <2>2. QED BY <2>1
<1>2. ASSUME NEW n \in 0..c - s[1].at, NEW t \in c - n..c - 1 PROVE Index(s, t) \in DOMAIN s
  <2>1. s[1].at \in Nat /\ c \in Nat BY <1>1
  <2>2. t \in Int /\ s[1].at <= t /\ t < s[Len(s)].at BY <2>1
  <2>3. \E i \in 1..Len(s) - 1 : Index(s, t) = i BY <1>1, <2>2, Between
  <2>4. QED BY <1>1, <2>3
<1>3. LimitRunOver(s, c) = RunOver(s, Limits(s))
  <2>1. \A n \in 0..c - s[1].at : (\A t \in c - n..c - 1 : s[Index(s, t)].limit)
          <=> (\A t \in c - n..c - 1 : Index(s, t) \in Limits(s))
    BY <1>2 DEF Limits
  <2>2. {n \in 0..c - s[1].at : \A t \in c - n..c - 1 : s[Index(s, t)].limit}
          = {n \in 0..c - s[1].at : \A t \in c - n..c - 1 : Index(s, t) \in Limits(s)}
    BY <2>1
  <2>3. QED BY <2>2 DEF LimitRunOver, RunOver
<1>4. BelowRunOver(s, c) = RunOver(s, Belows(s))
  <2>1. \A n \in 0..c - s[1].at : (\A t \in c - n..c - 1 : s[Index(s, t)].below)
          <=> (\A t \in c - n..c - 1 : Index(s, t) \in Belows(s))
    BY <1>2 DEF Belows
  <2>2. {n \in 0..c - s[1].at : \A t \in c - n..c - 1 : s[Index(s, t)].below}
          = {n \in 0..c - s[1].at : \A t \in c - n..c - 1 : Index(s, t) \in Belows(s)}
    BY <2>1
  <2>3. QED BY <2>2 DEF BelowRunOver, RunOver
<1>5. ASSUME NEW G, NEW n, IsRun(s, G, n) PROVE RunOver(s, G) = n
  <2>1. PICK r \in 1..Len(s) : /\ n = s[Len(s)].at - s[r].at
                               /\ r..Len(s) - 1 \subseteq G /\ (r = 1 \/ r - 1 \notin G)
    BY <1>5 DEF IsRun
  <2>2. QED BY <2>1, RunIs
<1>6. QED BY <1>3, <1>4, <1>5

(* Such a time lies between the two that RatioIsTrue names.                *)
LEMMA MeasureTells ==
  ASSUME NEW s, Ordered(s), Len(s) # 0, NEW c \in Int, NEW x \in Int, NEW z \in Int,
         NEW a \in Int, NEW k, Measures(s, a, k, c, x, z)
  PROVE  /\ k \in Nat
         /\ k <= TimeOver(s, s[Len(s)].at, D!Max({c, x}))
         /\ k >= TimeOver(s, s[Len(s)].at, D!Max({c, x, z}))
         /\ TimeOver(s, s[Len(s)].at, D!Max({c, x})) \in Nat
         /\ TimeOver(s, s[Len(s)].at, D!Max({c, x, z})) \in Nat
<1>1. Len(s) \in Nat /\ \A j \in 1..Len(s) : s[j].at \in Nat BY SamplesAre
<1>2. 1 \in 1..Len(s) /\ Len(s) \in 1..Len(s) BY <1>1
<1>3. PICK t, f, m, n, g : /\ t = s[Len(s)].at /\ f = s[1].at /\ m = D!Max({c, x})
                           /\ n = D!Max({c, x, z}) /\ g = Limits(s)
  OBVIOUS
<1>4. t \in Nat /\ f \in Nat BY <1>1, <1>2, <1>3
<1>5. m \in Int /\ c <= m /\ x <= m /\ (m = c \/ m = x)
  <2>1. m = IF c >= x THEN c ELSE x BY <1>3, MaxOfTwo
  <2>2. QED BY <2>1
<1>6. n \in Int /\ m <= n /\ z <= n
  <2>1. n = D!Max({m, z}) BY <1>3, MaxOfThree
  <2>2. n = IF m >= z THEN m ELSE z BY <1>5, <2>1, MaxOfTwo
  <2>3. QED BY <1>5, <2>2
<1>7. PICK b, e : b = D!Max({m, f}) /\ e = D!Max({n, f}) OBVIOUS
<1>8. b \in Int /\ (b = m \/ b = f)
  <2>1. b = IF m >= f THEN m ELSE f BY <1>4, <1>5, <1>7, MaxOfTwo
  <2>2. QED BY <1>4, <1>5, <2>1
<1>9. e \in Int /\ n <= e
  <2>1. e = IF n >= f THEN n ELSE f BY <1>4, <1>6, <1>7, MaxOfTwo
  <2>2. QED BY <1>4, <1>6, <2>1
<1>10. c <= a /\ x <= a /\ f <= a /\ (a <= c \/ a <= x \/ a <= z) BY <1>3 DEF Measures
<1>11. b <= a BY <1>5, <1>8, <1>10
<1>12. a <= e BY <1>5, <1>6, <1>9, <1>10
<1>13. TimeOver(s, t, m) = Count(s, g, b, t) BY <1>3, <1>5, <1>7, TimeOverIs
<1>14. TimeOver(s, t, n) = Count(s, g, e, t) BY <1>3, <1>6, <1>7, TimeOverIs
<1>15. k = Count(s, g, a, t) BY <1>3 DEF Measures
<1>16. Count(s, g, a, t) <= Count(s, g, b, t) BY <1>4, <1>8, <1>11, LaterIsLess
<1>17. Count(s, g, e, t) <= Count(s, g, a, t) BY <1>4, <1>9, <1>12, LaterIsLess
<1>18. /\ Count(s, g, a, t) \in Nat /\ Count(s, g, b, t) \in Nat
       /\ Count(s, g, e, t) \in Nat
  BY <1>4, <1>8, <1>9, PartIsFinite
<1>19. k <= TimeOver(s, t, m) BY <1>13, <1>15, <1>16
<1>20. k >= TimeOver(s, t, n) BY <1>14, <1>15, <1>17, <1>18
<1>21. QED BY <1>3, <1>13, <1>14, <1>15, <1>18, <1>19, <1>20

(* From the last sample on no time has passed.                             *)
LEMMA NothingMeasured ==
  ASSUME NEW s, Ordered(s), Len(s) # 0, NEW c \in Int, NEW z \in Int, c <= s[Len(s)].at
  PROVE  Measures(s, s[Len(s)].at, 0, c, s[Len(s)].at, z)
<1>1. Len(s) \in Nat /\ \A j \in 1..Len(s) : s[j].at \in Nat BY SamplesAre
<1>2. 1 \in 1..Len(s) /\ Len(s) \in 1..Len(s) BY <1>1
<1>3. PICK t : t = s[Len(s)].at OBVIOUS
<1>4. t \in Nat /\ c <= t BY <1>1, <1>2, <1>3
<1>5. s[1].at <= t
  <2>1. CASE Len(s) = 1 BY <1>3, <1>4, <2>1
  <2>2. CASE Len(s) # 1
    <3>1. PICK l : l = Len(s) OBVIOUS
    <3>2. l \in Nat /\ l # 0 /\ l # 1 BY <1>1, <2>2, <3>1
    <3>3. 1 < Len(s) BY <3>1, <3>2
    <3>4. s[1].at < s[Len(s)].at BY <1>2, <3>3 DEF Ordered
    <3>5. QED BY <1>1, <1>2, <1>3, <3>4
  <2>3. QED BY <2>1, <2>2
<1>6. Count(s, Limits(s), t, t) \in Nat /\ Count(s, Limits(s), t, t) <= IF t > t THEN 0 ELSE t - t
  BY <1>4, PartIsFinite
<1>7. Count(s, Limits(s), t, t) = 0 BY <1>4, <1>6
<1>8. QED BY <1>3, <1>4, <1>5, <1>7 DEF Measures

(* The verdict d on a detector w that follows its record.                  *)
Verdict(w, d, s, x, y, z) ==
  /\ w \in Detectors /\ x \in Nat /\ z \in Nat /\ clock \in Nat
  /\ Follows(w, s, x, z) /\ IsRun(s, Limits(s), w.limitRun)
  /\ w.lastTick = clock /\ w.clipped <= clock
  /\ D!Cutoff \in Int /\ D!Cutoff <= clock
  /\ \E a \in Int : Measures(s, a, w.clipped, D!Cutoff, x, z)
  /\ settings.limit \in Nat /\ settings.window \in Nat
  /\ settings.trigger \in Nat /\ settings.hold \in Nat
  /\ d = D!Judged(w) /\ y = IF w.clipping /\ ~d.clipping THEN clock ELSE x

(* The three ways a verdict goes: an episode begins, ends, or neither.     *)
Begins(w, d) == ~w.clipping /\ D!Triggers(w) /\ d = [w EXCEPT !.clipping = TRUE]
Ends(w, d)   == w.clipping /\ D!Releases(w) /\ d = D!EndEpisode(w)
Stays(w, d)  == d = w /\ (w.clipping => ~D!Releases(w)) /\ (D!Triggers(w) => w.clipping)

(* It is one of the three, and only an end moves the end of the last       *)
(* episode.                                                                *)
LEMMA Verdicts ==
  ASSUME NEW w, NEW d, NEW s, NEW x, NEW y, NEW z, Verdict(w, d, s, x, y, z)
  PROVE  /\ Begins(w, d) \/ Ends(w, d) \/ Stays(w, d)
         /\ Begins(w, d) => d.clipping /\ y = x
         /\ Ends(w, d) => ~d.clipping /\ y = clock
         /\ Stays(w, d) => d.clipping = w.clipping /\ y = x
<1>1. w \in Detectors /\ d = D!Judged(w) /\ y = IF w.clipping /\ ~d.clipping THEN clock ELSE x
  BY DEF Verdict
<1>2. w.clipping \in BOOLEAN BY <1>1 DEF Detectors
<1>3. Begins(w, d) \/ Ends(w, d) \/ Stays(w, d)
  <2>1. CASE ~w.clipping /\ D!Triggers(w)
    <3>1. d = [w EXCEPT !.clipping = TRUE] BY <1>1, <2>1 DEF D!Judged
    <3>2. QED BY <2>1, <3>1 DEF Begins
  <2>2. CASE w.clipping /\ D!Releases(w)
    <3>1. d = D!EndEpisode(w) BY <1>1, <2>2 DEF D!Judged
    <3>2. QED BY <2>2, <3>1 DEF Ends
  <2>3. CASE ~(~w.clipping /\ D!Triggers(w)) /\ ~(w.clipping /\ D!Releases(w))
    <3>1. d = w BY <1>1, <2>3 DEF D!Judged
    <3>2. QED BY <2>3, <3>1 DEF Stays
  <2>4. QED BY <2>1, <2>2, <2>3
<1>4. Begins(w, d) => d.clipping /\ y = x BY <1>1 DEF Begins, Detectors
<1>5. Ends(w, d) => ~d.clipping /\ y = clock BY <1>1 DEF Ends, D!EndEpisode, Detectors
<1>6. Stays(w, d) => d.clipping = w.clipping /\ y = x BY <1>1, <1>2 DEF Stays
<1>7. QED BY <1>3, <1>4, <1>5, <1>6

(* The detector follows its record after the verdict, with the end of the  *)
(* episode at this tick if one ends.                                       *)
LEMMA VerdictFollows ==
  ASSUME NEW w, NEW d, NEW s, NEW x, NEW y, NEW z, Verdict(w, d, s, x, y, z)
  PROVE  /\ d \in Detectors /\ Follows(d, s, y, z) /\ d.lastTick = clock
         /\ d.clipped <= clock /\ y \in Nat
         /\ \E a \in Int : Measures(s, a, d.clipped, D!Cutoff, y, z)
<1>1. /\ w \in Detectors /\ x \in Nat /\ z \in Nat /\ clock \in Nat /\ w.lastTick = clock
      /\ w.clipped <= clock /\ D!Cutoff \in Int /\ D!Cutoff <= clock
      /\ Ordered(s) /\ Len(s) # 0 /\ ~Quarrels(s) /\ LastSeen(w, s) /\ Held(w, s, x, z)
      /\ Runs(w, s) /\ IsRun(s, Limits(s), w.limitRun) /\ Follows(w, s, x, z)
      /\ \E a \in Int : Measures(s, a, w.clipped, D!Cutoff, x, z)
  BY DEF Verdict, Follows
<1>2. /\ Begins(w, d) \/ Ends(w, d) \/ Stays(w, d)
      /\ Begins(w, d) => y = x
      /\ Ends(w, d) => y = clock
      /\ Stays(w, d) => y = x
  BY Verdicts
<1>3. CASE Stays(w, d) BY <1>1, <1>2, <1>3 DEF Stays
<1>4. CASE Begins(w, d)
  <2>1. d = [w EXCEPT !.clipping = TRUE] /\ y = x BY <1>2, <1>4 DEF Begins
  <2>2. /\ d.history = w.history /\ d.lastTick = w.lastTick /\ d.atLimit = w.atLimit
        /\ d.belowExit = w.belowExit /\ d.limitRun = w.limitRun /\ d.belowRun = w.belowRun
        /\ d.clipped = w.clipped
    BY <1>1, <2>1 DEF Detectors
  <2>3. d \in Detectors BY <1>1, <2>1 DEF Detectors
  <2>4. Follows(d, s, y, z) BY <1>1, <2>1, <2>2 DEF Follows, LastSeen, Held, Runs
  <2>5. QED BY <1>1, <2>1, <2>2, <2>3, <2>4
<1>5. CASE Ends(w, d)
  <2>1. /\ d = [w EXCEPT !.clipping = FALSE, !.history = <<>>, !.clipped = 0, !.limitRun = 0]
        /\ y = clock /\ w.belowExit
    BY <1>2, <1>5 DEF Ends, D!EndEpisode, D!Releases
  <2>2. /\ d.history = <<>> /\ d.lastTick = w.lastTick /\ d.atLimit = w.atLimit
        /\ d.belowExit = w.belowExit /\ d.limitRun = 0 /\ d.belowRun = w.belowRun
        /\ d.clipped = 0
    BY <1>1, <2>1 DEF Detectors
  <2>3. d \in Detectors
    <3>1. PICK h, n : h = <<>> /\ n = 0 OBVIOUS
    <3>2. h \in Seq(Interval) /\ n \in Nat BY <3>1
    <3>3. d = [w EXCEPT !.clipping = FALSE, !.history = h, !.clipped = n, !.limitRun = n]
      BY <2>1, <3>1
    <3>4. QED BY <1>1, <3>2, <3>3 DEF Detectors
  <2>4. s[Len(s)].at = clock BY <1>1 DEF LastSeen
  <2>5. Held(d, s, y, z)
    <3>1. Len(s) \in 1..Len(s)
      <4>1. PICK l : l = Len(s) OBVIOUS
      <4>2. l \in Nat /\ l # 0 BY <1>1, <4>1, SamplesAre
      <4>3. QED BY <4>1, <4>2
    <3>2. Recorded(s, Len(s), <<>>)
      <4>1. Len(s) \in Nat BY <1>1, SamplesAre
      <4>2. Len(<<>>) = 0 /\ Len(s) - Len(s) = 0 BY <4>1
      <4>3. QED BY <4>2 DEF Recorded
    <3>3. QED BY <1>1, <2>1, <2>2, <2>4, <3>1, <3>2 DEF Held
  <2>6. Runs(d, s)
    <3>1. IsRun(s, Belows(s), w.belowRun) BY <1>1 DEF Runs
    <3>2. QED BY <2>1, <2>2, <3>1 DEF Runs
  <2>7. Follows(d, s, y, z)
    <3>1. LastSeen(d, s) BY <1>1, <2>2 DEF LastSeen
    <3>2. QED BY <1>1, <2>5, <2>6, <3>1 DEF Follows
  <2>8. Measures(s, clock, d.clipped, D!Cutoff, y, z)
    <3>1. z \in Int /\ D!Cutoff <= s[Len(s)].at BY <1>1, <2>4
    <3>2. Measures(s, s[Len(s)].at, 0, D!Cutoff, s[Len(s)].at, z)
      BY <1>1, <3>1, NothingMeasured
    <3>3. QED BY <2>1, <2>2, <2>4, <3>2
  <2>9. QED BY <1>1, <2>1, <2>2, <2>3, <2>7, <2>8
<1>6. QED BY <1>2, <1>3, <1>4, <1>5

(* What the record demands of a verdict.                                   *)
Answers(w, d, s, y, z) ==
  LET full(time) == time * 100 >= settings.trigger * settings.window IN
  /\ \/ LimitRunOver(s, clock) >= settings.limit
     \/ full(TimeOver(s, clock, D!Max({D!Cutoff, y, z})))
     => d.clipping \/ w.belowExit
  /\ w.belowExit /\ BelowRunOver(s, clock) >= settings.hold => ~d.clipping \/ ~w.clipping
  /\ ~w.clipping /\ d.clipping => \/ LimitRunOver(s, clock) >= settings.limit
                                  \/ full(TimeOver(s, clock, D!Max({D!Cutoff, y})))
  /\ w.clipping /\ ~d.clipping => w.belowExit /\ BelowRunOver(s, clock) >= settings.hold

(* Every verdict answers to the record.                                    *)
LEMMA VerdictAnswers ==
  ASSUME NEW w, NEW d, NEW s, NEW x, NEW y, NEW z, Verdict(w, d, s, x, y, z)
  PROVE  Answers(w, d, s, y, z)
<1>1. /\ w \in Detectors /\ x \in Nat /\ z \in Nat /\ clock \in Nat /\ D!Cutoff \in Int
      /\ Ordered(s) /\ Len(s) # 0 /\ LastSeen(w, s) /\ w.lastTick = clock
      /\ IsRun(s, Limits(s), w.limitRun) /\ IsRun(s, Belows(s), w.belowRun)
      /\ \E a \in Int : Measures(s, a, w.clipped, D!Cutoff, x, z)
      /\ settings.limit \in Nat /\ settings.hold \in Nat
      /\ settings.trigger \in Nat /\ settings.window \in Nat
  BY DEF Verdict, Follows, Runs
<1>2. /\ Begins(w, d) \/ Ends(w, d) \/ Stays(w, d)
      /\ Begins(w, d) => d.clipping /\ y = x
      /\ Ends(w, d) => ~d.clipping /\ y = clock
      /\ Stays(w, d) => d.clipping = w.clipping /\ y = x
  BY Verdicts
<1>3. s[Len(s)].at = clock BY <1>1 DEF LastSeen
<1>4. LimitRunOver(s, clock) = w.limitRun /\ BelowRunOver(s, clock) = w.belowRun
  BY <1>1, <1>3, RunsAre
<1>5. w.limitRun \in Nat /\ w.belowRun \in Nat /\ w.clipped \in Nat /\ w.clipping \in BOOLEAN
  BY <1>1 DEF Detectors
<1>6. PICK k, few, more : /\ k = settings.trigger * settings.window
                          /\ few = TimeOver(s, clock, D!Max({D!Cutoff, x, z}))
                          /\ more = TimeOver(s, clock, D!Max({D!Cutoff, x}))
  OBVIOUS
<1>7. k \in Nat
  <2>1. \A m, n \in Nat : m * n \in Nat OBVIOUS
  <2>2. QED BY <1>1, <1>6, <2>1
<1>8. few \in Nat /\ more \in Nat /\ few <= w.clipped /\ w.clipped <= more
  <2>1. PICK a \in Int : Measures(s, a, w.clipped, D!Cutoff, x, z) BY <1>1
  <2>2. x \in Int /\ z \in Int BY <1>1
  <2>3. PICK n : n = w.clipped OBVIOUS
  <2>4. Measures(s, a, n, D!Cutoff, x, z) BY <2>1, <2>3
  <2>5. /\ n \in Nat
        /\ n <= TimeOver(s, s[Len(s)].at, D!Max({D!Cutoff, x}))
        /\ n >= TimeOver(s, s[Len(s)].at, D!Max({D!Cutoff, x, z}))
        /\ TimeOver(s, s[Len(s)].at, D!Max({D!Cutoff, x})) \in Nat
        /\ TimeOver(s, s[Len(s)].at, D!Max({D!Cutoff, x, z})) \in Nat
    BY <1>1, <2>2, <2>4, MeasureTells
  <2>6. n \in Nat /\ n <= more /\ n >= few /\ more \in Nat /\ few \in Nat
    BY <1>3, <1>6, <2>5
  <2>7. QED BY <2>3, <2>6
<1>9. D!Triggers(w) <=> w.limitRun >= settings.limit \/ w.clipped * 100 >= k
  BY <1>6 DEF D!Triggers
<1>10. D!Releases(w) <=> w.belowExit /\ w.belowRun >= settings.hold BY DEF D!Releases
<1> DEFINE full(time) == time * 100 >= settings.trigger * settings.window
<1>11. w.limitRun >= settings.limit \/ full(TimeOver(s, clock, D!Max({D!Cutoff, y, z})))
         => d.clipping \/ w.belowExit
  <2>1. SUFFICES ASSUME ~d.clipping, ~w.belowExit
                 PROVE  ~(w.limitRun >= settings.limit)
                        /\ ~full(TimeOver(s, clock, D!Max({D!Cutoff, y, z})))
    OBVIOUS
  <2>2. Stays(w, d) BY <1>2, <1>10, <2>1 DEF Ends
  <2>3. y = x /\ ~D!Triggers(w) BY <1>2, <2>1, <2>2 DEF Stays
  <2>4. ~(w.clipped * 100 >= k) /\ ~(w.limitRun >= settings.limit) BY <1>9, <2>3
  <2>5. ~(few * 100 >= k) BY <1>5, <1>7, <1>8, <2>4
  <2>6. QED BY <1>6, <2>3, <2>4, <2>5
<1>12. w.belowExit /\ w.belowRun >= settings.hold => ~d.clipping \/ ~w.clipping
  <2>1. SUFFICES ASSUME w.belowExit, w.belowRun >= settings.hold, w.clipping PROVE ~d.clipping
    OBVIOUS
  <2>2. Ends(w, d) BY <1>2, <1>10, <2>1 DEF Begins, Stays
  <2>3. QED BY <1>2, <2>2
<1>13. ~w.clipping /\ d.clipping
         => w.limitRun >= settings.limit \/ full(TimeOver(s, clock, D!Max({D!Cutoff, y})))
  <2>1. SUFFICES ASSUME ~w.clipping, d.clipping, ~(w.limitRun >= settings.limit)
                 PROVE  full(TimeOver(s, clock, D!Max({D!Cutoff, y})))
    OBVIOUS
  <2>2. Begins(w, d) BY <1>2, <2>1
  <2>3. y = x /\ w.clipped * 100 >= k BY <1>2, <1>9, <2>1, <2>2 DEF Begins
  <2>4. more * 100 >= k BY <1>5, <1>7, <1>8, <2>3
  <2>5. QED BY <1>6, <2>3, <2>4
<1>14. w.clipping /\ ~d.clipping => w.belowExit /\ w.belowRun >= settings.hold
  <2>1. SUFFICES ASSUME w.clipping, ~d.clipping PROVE D!Releases(w) BY <1>10
  <2>2. Ends(w, d) BY <1>2, <2>1
  <2>3. QED BY <2>2 DEF Ends
<1>15. QED BY <1>4, <1>11, <1>12, <1>13, <1>14 DEF Answers

(* What a reliable tick that sees level leaves: the detector d, the record *)
(* u, the end of the last episode y and what is forgotten z.               *)
Ticks(level, joined, d, u, y, z) ==
  /\ joined = D!IsConnected(detector)
  /\ d = D!Judged(D!WithRatio(D!Sampled(detector, level)))
  /\ u = IF joined THEN Append(samples, Seen(level)) ELSE <<Seen(level)>>
  /\ y = IF ~joined \/ (detector.clipping /\ ~d.clipping) THEN clock ELSE since
  /\ z = IF joined THEN D!Max({forgotten, D!Cutoff}) ELSE clock

(* A reliable tick passes a verdict on a detector that follows the record  *)
(* with the tick's sample.                                                 *)
LEMMA TickFollows ==
  ASSUME RecordHolds, clock \in Nat, detector.lastTick < clock, settings \in AllSettings,
         NEW level, NEW joined, NEW d, NEW u, NEW y, NEW z, Ticks(level, joined, d, u, y, z)
  PROVE  \E w, x : Verdict(w, d, u, x, y, z) /\ w.clipping = detector.clipping
<1> USE DEF Ticks
<1>1. /\ settings.limit \in Nat /\ settings.window \in Nat
      /\ settings.trigger \in Nat /\ settings.hold \in Nat
  BY DetectorConstants
<1>2. D!Cutoff \in Int /\ D!Cutoff <= clock BY <1>1 DEF D!Cutoff
<1>3. since \in Nat /\ forgotten \in Nat BY DEF RecordHolds
<1>4. PICK e, w : e = D!Sampled(detector, level) /\ w = D!WithRatio(e) OBVIOUS
<1>5. \E x, f \in Nat : /\ e \in Detectors /\ e.clipping = detector.clipping /\ e.lastTick = clock
                        /\ Follows(e, u, x, f) /\ IsRun(u, Limits(u), e.limitRun)
                        /\ z = D!Max({f, D!Cutoff})
                        /\ y = IF e.clipping /\ ~d.clipping THEN clock ELSE x
  <2>1. CASE joined
    <3>1. samples # <<>>
      <4>1. SUFFICES ASSUME samples = <<>> PROVE FALSE OBVIOUS
      <4>2. detector = D!Quiet(D!Never) BY <4>1 DEF RecordHolds
      <4>3. detector.lastTick = D!Never BY <4>2 DEF D!Quiet
      <4>4. QED BY <2>1, <4>3 DEF D!IsConnected
    <3>2. e = [D!Connected(detector) EXCEPT !.lastTick = clock, !.atLimit = level = "limit",
                                            !.belowExit = level = "below"]
      BY <1>4, <2>1 DEF D!Sampled
    <3>3. u = Append(samples, Seen(level)) BY <2>1
    <3>4. /\ e \in Detectors /\ e.clipping = detector.clipping
          /\ Follows(e, u, since, forgotten) /\ IsRun(u, Limits(u), e.limitRun)
      BY <3>1, <3>2, <3>3, ConnectedFollows
    <3>5. e.lastTick = clock
      <4>1. detector \in Detectors BY DEF RecordHolds
      <4>2. QED BY <3>2, <4>1 DEF D!Connected, Detectors
    <3>6. z = D!Max({forgotten, D!Cutoff}) BY <2>1
    <3>7. y = IF e.clipping /\ ~d.clipping THEN clock ELSE since BY <2>1, <3>4
    <3>8. QED BY <1>3, <3>4, <3>5, <3>6, <3>7
  <2>2. CASE ~joined
    <3>1. e = [D!Disconnected(detector) EXCEPT !.lastTick = clock, !.atLimit = level = "limit",
                                               !.belowExit = level = "below"]
      BY <1>4, <2>2 DEF D!Sampled
    <3>2. u = <<Seen(level)>> BY <2>2
    <3>3. /\ e \in Detectors /\ e.clipping = detector.clipping
          /\ Follows(e, u, clock, clock) /\ IsRun(u, Limits(u), e.limitRun)
      BY <3>1, <3>2, DisconnectedFollows
    <3>4. e.lastTick = clock
      <4>1. detector \in Detectors BY DEF RecordHolds
      <4>2. QED BY <3>1, <4>1 DEF D!Disconnected, Detectors
    <3>5. z = D!Max({clock, D!Cutoff})
      <4>1. D!Max({clock, D!Cutoff}) = IF clock >= D!Cutoff THEN clock ELSE D!Cutoff
        BY <1>2, MaxOfTwo
      <4>2. QED BY <1>2, <2>2, <4>1
    <3>6. y = IF e.clipping /\ ~d.clipping THEN clock ELSE clock BY <2>2
    <3>7. QED BY <3>3, <3>4, <3>5, <3>6
  <2>3. QED BY <2>1, <2>2
<1>6. PICK x, f \in Nat : /\ e \in Detectors /\ e.clipping = detector.clipping
                          /\ e.lastTick = clock
                          /\ Follows(e, u, x, f) /\ IsRun(u, Limits(u), e.limitRun)
                          /\ z = D!Max({f, D!Cutoff})
                          /\ y = IF e.clipping /\ ~d.clipping THEN clock ELSE x
  BY <1>5
<1>7. z \in Nat
  <2>1. z = IF f >= D!Cutoff THEN f ELSE D!Cutoff BY <1>2, <1>6, MaxOfTwo
  <2>2. QED BY <1>2, <2>1
<1>8. /\ w \in Detectors /\ w.clipping = e.clipping /\ w.lastTick = clock
      /\ Follows(w, u, x, z) /\ IsRun(u, Limits(u), w.limitRun) /\ w.clipped <= clock
      /\ \E a \in Int : Measures(u, a, w.clipped, D!Cutoff, x, z)
  <2>1. Rates(e, u, x, f, z, w) BY <1>4, <1>6 DEF Rates
  <2>2. Rated(e, u, x, z, w) BY <1>2, <2>1, RatioFollows
  <2>3. QED BY <2>2 DEF Rated
<1>9. y = IF w.clipping /\ ~d.clipping THEN clock ELSE x BY <1>6, <1>8
<1>10. d = D!Judged(w) BY <1>4
<1>11. Verdict(w, d, u, x, y, z)
  BY <1>1, <1>2, <1>6, <1>7, <1>8, <1>9, <1>10 DEF Verdict
<1>12. QED BY <1>6, <1>8, <1>11

(* The two properties of the detector as what a record s, a detector d, a  *)
(* time t and settings j have to do with each other.                       *)
RatioReads(s, d, t, j, x, z) ==
  s # <<>> /\ d.lastTick = t =>
    /\ d.clipped <= TimeOver(s, t, D!Max({t - j.window, x}))
    /\ d.clipped >= TimeOver(s, t, D!Max({D!Max({t - j.window, x}), z}))

TimelyReads(s, d, t, j, x, z, bad, b) ==
  s # <<>> /\ d.lastTick = t /\ ~bad =>
    /\ \/ LimitRunOver(s, t) >= j.limit
       \/ TimeOver(s, t, D!Max({t - j.window, x, z})) * 100 >= j.trigger * j.window
       => d.clipping \/ s[Len(s)].below
    /\ s[Len(s)].below /\ BelowRunOver(s, t) >= j.hold => ~d.clipping \/ b = t

(* They are the properties in this state.                                  *)
LEMMA ReadingsNow ==
  /\ D!RatioIsTrue <=> RatioReads(samples, detector, clock, judged, since, forgotten)
  /\ D!DetectsInTime
       <=> TimelyReads(samples, detector, clock, judged, since, forgotten, broken, begun)
BY ReadNow DEF D!RatioIsTrue, D!DetectsInTime, D!JustTicked, D!Last, RatioReads, TimelyReads

(* They are the properties in the next state.                              *)
LEMMA ReadingsNext ==
  /\ D!RatioIsTrue' <=> RatioReads(samples', detector', clock', judged', since', forgotten')
  /\ D!DetectsInTime'
       <=> TimelyReads(samples', detector', clock', judged', since', forgotten', broken', begun')
BY ReadNext DEF D!RatioIsTrue, D!DetectsInTime, D!JustTicked, D!Last, RatioReads, TimelyReads

(* A verdict makes both properties true.                                   *)
LEMMA VerdictReads ==
  ASSUME NEW w, NEW d, NEW s, NEW x, NEW y, NEW z, Verdict(w, d, s, x, y, z), NEW bad,
         NEW b, ~w.clipping /\ d.clipping => b = clock
  PROVE  /\ RatioReads(s, d, clock, settings, y, z)
         /\ TimelyReads(s, d, clock, settings, y, z, bad, b)
<1>1. /\ w \in Detectors /\ z \in Nat /\ y \in Nat /\ D!Cutoff \in Int
      /\ LastSeen(w, s) /\ LastSeen(d, s) /\ Ordered(s) /\ Len(s) # 0
      /\ w.lastTick = clock /\ w.clipping \in BOOLEAN /\ d \in Detectors
      /\ \E a \in Int : Measures(s, a, d.clipped, D!Cutoff, y, z)
  BY VerdictFollows DEF Verdict, Follows, Detectors
<1>2. s[Len(s)].at = clock /\ s[Len(s)].below = w.belowExit BY <1>1 DEF LastSeen
<1>3. D!Cutoff = clock - settings.window BY DEF D!Cutoff
<1>4. Answers(w, d, s, y, z) BY VerdictAnswers
<1>5. RatioReads(s, d, clock, settings, y, z)
  <2>1. PICK n, a : /\ n = d.clipped /\ a \in Int
                    /\ Measures(s, a, n, D!Cutoff, y, z)
    BY <1>1
  <2>2. y \in Int /\ z \in Int BY <1>1
  <2>3. /\ n <= TimeOver(s, s[Len(s)].at, D!Max({D!Cutoff, y}))
        /\ n >= TimeOver(s, s[Len(s)].at, D!Max({D!Cutoff, y, z}))
    BY <1>1, <2>1, <2>2, MeasureTells
  <2>4. D!Max({D!Cutoff, y, z}) = D!Max({D!Max({D!Cutoff, y}), z})
    BY <1>1, <2>2, MaxOfThree
  <2>5. /\ n <= TimeOver(s, clock, D!Max({D!Cutoff, y}))
        /\ n >= TimeOver(s, clock, D!Max({D!Max({D!Cutoff, y}), z}))
    BY <1>2, <2>3, <2>4
  <2>6. QED BY <1>3, <2>1, <2>5 DEF RatioReads
<1>6. TimelyReads(s, d, clock, settings, y, z, bad, b)
  <2>1. LimitRunOver(s, clock) >= settings.limit
        \/ TimeOver(s, clock, D!Max({D!Cutoff, y, z})) * 100 >= settings.trigger * settings.window
        => d.clipping \/ w.belowExit
    BY <1>4 DEF Answers
  <2>2. w.belowExit /\ BelowRunOver(s, clock) >= settings.hold => ~d.clipping \/ ~w.clipping
    BY <1>4 DEF Answers
  <2>3. ~d.clipping \/ ~w.clipping => ~d.clipping \/ b = clock OBVIOUS
  <2>4. QED BY <1>2, <1>3, <2>1, <2>2, <2>3 DEF TimelyReads
<1>7. QED BY <1>5, <1>6

-----------------------------------------------------------------------------
(* The inductive invariant of the detector: it follows the record, and the *)
(* two properties hold.  That it follows the record is what makes them     *)
(* inductive: neither speaks of a time between ticks.                      *)
DetectorHolds ==
  /\ clock \in 0..DetectorHorizon /\ {settings, judged} \subseteq AllSettings
  /\ broken \in BOOLEAN /\ RecordHolds /\ detector.clipped <= clock
  /\ D!RatioIsTrue /\ D!DetectsInTime

(* What is known of a detector made quiet at t, and of the record then.    *)
IsQuiet(q, t) ==
  /\ q \in Detectors /\ q.history = <<>> /\ q.lastTick = t /\ q.atLimit = FALSE
  /\ q.belowExit = TRUE /\ q.limitRun = 0 /\ q.belowRun = 0 /\ q.clipping = FALSE
  /\ q.clipped = 0

IsNothing(s, t) == s = <<[at |-> t, limit |-> FALSE, below |-> TRUE]>>

(* Quiet leaves what IsQuiet says.                                         *)
LEMMA QuietIs ==
  ASSUME NEW t \in Int
  PROVE  IsQuiet(D!Quiet(t), t)
<1>1. PICK q, h, n : q = D!Quiet(t) /\ h = <<>> /\ n = 0 OBVIOUS
<1>2. h \in Seq(Interval) /\ n \in Nat BY <1>1
<1>3. q = [history |-> h, lastTick |-> t, atLimit |-> FALSE, belowExit |-> TRUE,
           limitRun |-> n, belowRun |-> n, clipping |-> FALSE, clipped |-> n]
  BY <1>1 DEF D!Quiet
<1>4. q \in Detectors BY <1>2, <1>3 DEF Detectors
<1>5. QED BY <1>1, <1>3, <1>4 DEF IsQuiet

(* The invariant holds at the beginning.                                   *)
LEMMA DetectorStarts == EngineInit => DetectorHolds
<1>1. SUFFICES ASSUME D!Init PROVE DetectorHolds BY DEF EngineInit
<1>2. /\ clock = 0 /\ settings \in AllSettings /\ broken = FALSE
      /\ detector = D!Quiet(D!Never) /\ samples = <<>> /\ since = 0 /\ forgotten = 0
      /\ judged = settings
  BY <1>1 DEF D!Init
<1>3. IsQuiet(D!Quiet(D!Never), D!Never)
  <2>1. D!Never \in Int BY DEF D!Never
  <2>2. QED BY <2>1, QuietIs
<1>4. detector \in Detectors /\ detector.clipped = 0 BY <1>2, <1>3 DEF IsQuiet
<1>5. RecordHolds BY <1>2, <1>4 DEF RecordHolds
<1>6. RatioReads(samples, detector, clock, judged, since, forgotten)
      /\ TimelyReads(samples, detector, clock, judged, since, forgotten, broken, begun)
  BY <1>2 DEF RatioReads, TimelyReads
<1>7. clock \in 0..DetectorHorizon BY <1>2, DetectorConstants
<1>8. D!RatioIsTrue /\ D!DetectsInTime BY <1>6, ReadingsNow, Zenon
<1>9. detector.clipped <= clock BY <1>2, <1>4
<1>10. QED BY <1>2, <1>5, <1>7, <1>8, <1>9 DEF DetectorHolds

(* A detector that is made quiet follows a record of nothing.              *)
LEMMA QuietFollows ==
  ASSUME clock \in Nat, NEW q, IsQuiet(q, clock), NEW s, IsNothing(s, clock),
         NEW j, j.window \in Nat, NEW bad, NEW b
  PROVE  /\ q \in Detectors /\ Follows(q, s, clock, clock) /\ q.lastTick = clock
         /\ q.clipped = 0 /\ ~q.clipping /\ s # <<>>
         /\ RatioReads(s, q, clock, j, clock, clock)
         /\ TimelyReads(s, q, clock, j, clock, clock, bad, b)
<1>1. PICK x : x = [at |-> clock, limit |-> FALSE, below |-> TRUE] OBVIOUS
<1>2. x \in Sample /\ x.at = clock /\ x.limit = FALSE /\ x.below = TRUE BY <1>1 DEF Sample
<1>3. /\ Ordered(s) /\ Len(s) = 1 /\ s[1] = x /\ Recorded(s, 1, <<>>)
      /\ \A G : IsRun(s, G, 0)
  <2>1. s = <<x>> BY <1>1 DEF IsNothing
  <2>2. QED BY <1>2, <2>1, OneSample
<1>4. /\ q \in Detectors /\ q.history = <<>> /\ q.lastTick = clock /\ q.atLimit = FALSE
      /\ q.belowExit = TRUE /\ q.limitRun = 0 /\ q.belowRun = 0 /\ q.clipping = FALSE
      /\ q.clipped = 0
  BY DEF IsQuiet
<1>5. LastSeen(q, s) BY <1>2, <1>3, <1>4 DEF LastSeen
<1>6. Held(q, s, clock, clock)
  <2>1. 1 \in 1..Len(s) /\ s[1].at = clock BY <1>2, <1>3
  <2>2. QED BY <1>3, <1>4, <2>1 DEF Held
<1>7. ~Quarrels(s)
  <2>1. DOMAIN s = 1..1 BY <1>3, SamplesAre
  <2>2. QED BY <1>2, <1>3, <2>1 DEF Quarrels
<1>8. Follows(q, s, clock, clock)
  BY <1>3, <1>4, <1>5, <1>6, <1>7 DEF Follows, Runs
<1>9. PICK c : c = clock - j.window OBVIOUS
<1>10. c \in Int /\ c <= clock BY <1>9
<1>11. RatioReads(s, q, clock, j, clock, clock)
  <2>1. s[Len(s)].at = clock BY <1>2, <1>3
  <2>2. Measures(s, s[Len(s)].at, 0, c, s[Len(s)].at, clock)
    <3>1. Len(s) # 0 /\ clock \in Int /\ c <= s[Len(s)].at BY <1>3, <1>10, <2>1
    <3>2. QED BY <1>3, <1>10, <3>1, NothingMeasured
  <2>3. PICK k, n : k = 0 /\ n = clock OBVIOUS
  <2>4. n \in Int /\ Measures(s, n, k, c, n, n) BY <2>1, <2>2, <2>3
  <2>5. Len(s) # 0 BY <1>3
  <2>6. /\ k <= TimeOver(s, s[Len(s)].at, D!Max({c, n}))
        /\ k >= TimeOver(s, s[Len(s)].at, D!Max({c, n, n}))
    BY <1>3, <1>10, <2>4, <2>5, MeasureTells
  <2>7. D!Max({c, n, n}) = D!Max({D!Max({c, n}), n}) BY <1>10, <2>4, MaxOfThree
  <2>8. /\ 0 <= TimeOver(s, clock, D!Max({c, clock}))
        /\ 0 >= TimeOver(s, clock, D!Max({D!Max({c, clock}), clock}))
    BY <2>1, <2>3, <2>6, <2>7
  <2>9. QED BY <1>4, <1>9, <2>8 DEF RatioReads
<1>12. TimelyReads(s, q, clock, j, clock, clock, bad, b)
  BY <1>2, <1>3, <1>4 DEF TimelyReads
<1>13. s # <<>> BY DEF IsNothing
<1>14. QED BY <1>4, <1>8, <1>11, <1>12, <1>13

(* TickUnreliable and Invalidate keep the invariant.                       *)
LEMMA DetectorForgets ==
  ASSUME DetectorHolds, detector' = D!Quiet(clock), D!Forget, clock' = clock,
         settings' = settings, judged' = judged, broken' \in BOOLEAN
  PROVE  DetectorHolds'
<1>1. clock \in Nat /\ judged \in AllSettings BY DetectorConstants DEF DetectorHolds
<1>2. judged.window \in Nat BY <1>1, DetectorConstants
<1>3. IsNothing(samples', clock) /\ since' = clock /\ forgotten' = clock
  BY DEF D!Forget, IsNothing
<1>4. IsQuiet(detector', clock)
  <2>1. clock \in Int BY <1>1
  <2>2. QED BY <2>1, QuietIs
<1>5. /\ detector' \in Detectors /\ Follows(detector', samples', clock, clock)
      /\ detector'.lastTick = clock /\ detector'.clipped = 0 /\ samples' # <<>>
      /\ RatioReads(samples', detector', clock, judged, clock, clock)
      /\ TimelyReads(samples', detector', clock, judged, clock, clock, broken', begun')
  BY <1>1, <1>2, <1>3, <1>4, QuietFollows
<1>6. RecordHolds' BY <1>1, <1>3, <1>5 DEF RecordHolds
<1>7. D!RatioIsTrue' /\ D!DetectsInTime'
  <2>1. /\ RatioReads(samples', detector', clock', judged', since', forgotten')
        /\ TimelyReads(samples', detector', clock', judged', since', forgotten', broken', begun')
    BY <1>3, <1>5
  <2>2. QED BY <2>1, ReadingsNext, Zenon
<1>8. detector'.clipped <= clock' BY <1>1, <1>5
<1>9. QED BY <1>6, <1>7, <1>8 DEF DetectorHolds

(* TickReliable passes a verdict on what follows the record.               *)
LEMMA TickVerdict ==
  ASSUME DetectorHolds, D!TickReliable
  PROVE  /\ \E w, x : /\ Verdict(w, detector', samples', x, since', forgotten')
                      /\ w.clipping = detector.clipping
         /\ ~detector.clipping /\ detector'.clipping => begun' = clock
         /\ judged' = settings /\ clock' = clock /\ settings' = settings /\ broken' = broken
<1>1. /\ clock \in Nat /\ settings \in AllSettings /\ RecordHolds
      /\ detector \in Detectors
  BY DetectorConstants DEF DetectorHolds, RecordHolds
<1>2. PICK level \in D!Levels :
        LET d      == D!Judged(D!WithRatio(D!Sampled(detector, level)))
            joined == D!IsConnected(detector)
        IN /\ detector' = d
           /\ samples' = IF joined THEN Append(samples, Seen(level)) ELSE <<Seen(level)>>
           /\ since' = IF ~joined \/ (detector.clipping /\ ~d.clipping) THEN clock ELSE since
           /\ forgotten' = IF joined THEN D!Max({forgotten, D!Cutoff}) ELSE clock
           /\ begun' = IF ~detector.clipping /\ d.clipping THEN clock ELSE begun
  BY DEF D!TickReliable, Seen
<1>3. /\ clock > detector.lastTick /\ judged' = settings /\ clock' = clock
      /\ settings' = settings /\ broken' = broken
  BY DEF D!TickReliable
<1>4. detector.lastTick < clock
  <2>1. detector.lastTick \in Int BY <1>1 DEF Detectors
  <2>2. QED BY <1>1, <1>3, <2>1
<1>5. PICK joined : joined = D!IsConnected(detector) OBVIOUS
<1>6. /\ detector' = D!Judged(D!WithRatio(D!Sampled(detector, level)))
      /\ samples' = IF joined THEN Append(samples, Seen(level)) ELSE <<Seen(level)>>
      /\ since' = IF ~joined \/ (detector.clipping /\ ~detector'.clipping) THEN clock ELSE since
      /\ forgotten' = IF joined THEN D!Max({forgotten, D!Cutoff}) ELSE clock
      /\ begun' = IF ~detector.clipping /\ detector'.clipping THEN clock ELSE begun
  BY <1>2, <1>5
<1>7. \E w, x : /\ Verdict(w, detector', samples', x, since', forgotten')
                /\ w.clipping = detector.clipping
  <2>1. Ticks(level, joined, detector', samples', since', forgotten') BY <1>5, <1>6 DEF Ticks
  <2>2. QED BY <1>1, <1>4, <2>1, TickFollows
<1>8. QED BY <1>3, <1>6, <1>7

(* TickReliable keeps the invariant.                                       *)
LEMMA DetectorTicks ==
  ASSUME DetectorHolds, D!TickReliable
  PROVE  DetectorHolds'
<1>1. PICK w, x : /\ Verdict(w, detector', samples', x, since', forgotten')
                  /\ w.clipping = detector.clipping
  BY TickVerdict
<1>2. /\ ~detector.clipping /\ detector'.clipping => begun' = clock
      /\ judged' = settings /\ clock' = clock /\ settings' = settings /\ broken' = broken
  BY TickVerdict
<1>3. /\ detector' \in Detectors /\ Follows(detector', samples', since', forgotten')
      /\ detector'.lastTick = clock /\ detector'.clipped <= clock /\ since' \in Nat
  BY <1>1, VerdictFollows
<1>4. forgotten' \in Nat /\ clock \in Nat BY <1>1 DEF Verdict
<1>5. samples' # <<>>
  <2>1. Len(samples') # 0 BY <1>3 DEF Follows
  <2>2. Len(<<>>) = 0 OBVIOUS
  <2>3. QED BY <2>1, <2>2
<1>6. RecordHolds' BY <1>2, <1>3, <1>4, <1>5 DEF RecordHolds
<1>7. /\ RatioReads(samples', detector', clock, settings, since', forgotten')
      /\ TimelyReads(samples', detector', clock, settings, since', forgotten', broken', begun')
  <2>1. ~w.clipping /\ detector'.clipping => begun' = clock BY <1>1, <1>2
  <2>2. QED BY <1>1, <2>1, VerdictReads
<1>8. D!RatioIsTrue' /\ D!DetectsInTime'
  <2>1. /\ RatioReads(samples', detector', clock', judged', since', forgotten')
        /\ TimelyReads(samples', detector', clock', judged', since', forgotten', broken', begun')
    BY <1>2, <1>7
  <2>2. QED BY <2>1, ReadingsNext, Zenon
<1>9. QED BY <1>2, <1>3, <1>6, <1>8 DEF DetectorHolds

(* Readings of a time without a tick say nothing.                          *)
LEMMA DetectorWaits ==
  ASSUME DetectorHolds, clock' \in clock..DetectorHorizon, settings' \in AllSettings,
         UNCHANGED <<broken, detector, samples, since, forgotten, judged, begun>>,
         clock' = clock \/ clock' = clock + 1
  PROVE  DetectorHolds'
<1>1. clock \in Nat /\ clock \in 0..DetectorHorizon /\ RecordHolds /\ detector.clipped <= clock
      /\ judged \in AllSettings /\ broken \in BOOLEAN /\ detector \in Detectors
  BY DetectorConstants DEF DetectorHolds, RecordHolds
<1>2. clock' \in 0..DetectorHorizon /\ clock <= clock' BY <1>1, DetectorConstants
<1>3. detector.lastTick \in Int /\ detector.clipped \in Nat BY <1>1 DEF Detectors
<1>4. detector'.clipped <= clock' BY <1>1, <1>2, <1>3
<1>5. RecordHolds'
  <2>1. CASE samples = <<>> BY <1>1, <2>1 DEF RecordHolds
  <2>2. CASE samples # <<>>
    <3>1. Follows(detector, samples, since, forgotten) /\ detector.lastTick <= clock
          /\ since \in Nat /\ forgotten \in Nat
      BY <1>1, <2>2 DEF RecordHolds
    <3>2. detector.lastTick <= clock' BY <1>1, <1>2, <1>3, <3>1
    <3>3. QED BY <1>1, <2>2, <3>1, <3>2 DEF RecordHolds
  <2>3. QED BY <2>1, <2>2
<1>6. D!RatioIsTrue' /\ D!DetectsInTime'
  <2>1. CASE clock' = clock
    <3>1. /\ RatioReads(samples, detector, clock, judged, since, forgotten)
          /\ TimelyReads(samples, detector, clock, judged, since, forgotten, broken, begun)
      BY ReadingsNow, Zenon DEF DetectorHolds
    <3>2. /\ RatioReads(samples', detector', clock', judged', since', forgotten')
          /\ TimelyReads(samples', detector', clock', judged', since', forgotten', broken', begun')
      BY <2>1, <3>1
    <3>3. QED BY <3>2, ReadingsNext, Zenon
  <2>2. CASE clock' = clock + 1
    <3>1. samples # <<>> => detector.lastTick <= clock BY <1>1 DEF RecordHolds
    <3>2. samples # <<>> => detector.lastTick # clock' BY <1>1, <1>3, <2>2, <3>1
    <3>3. samples' # <<>> => detector'.lastTick # clock' BY <3>2
    <3>4. /\ RatioReads(samples', detector', clock', judged', since', forgotten')
          /\ TimelyReads(samples', detector', clock', judged', since', forgotten', broken', begun')
      BY <3>3 DEF RatioReads, TimelyReads
    <3>5. QED BY <3>4, ReadingsNext, Zenon
  <2>3. QED BY <2>1, <2>2
<1>7. QED BY <1>1, <1>2, <1>4, <1>5, <1>6 DEF DetectorHolds

(* Every step of the engine keeps the invariant of the detector.           *)
LEMMA DetectorSteps ==
  ASSUME DetectorHolds, [EngineNext]_<<part, vars, engineVars, detectorVars>>
  PROVE  DetectorHolds'
<1>1. clock \in Nat /\ clock \in 0..DetectorHorizon /\ settings \in AllSettings
      /\ broken \in BOOLEAN
  BY DetectorConstants DEF DetectorHolds
<1>2. CASE UNCHANGED detectorVars
  <2>1. clock' = clock /\ settings' = settings
        /\ UNCHANGED <<broken, detector, samples, since, forgotten, judged, begun>>
    BY <1>2 DEF detectorVars
  <2>2. clock' \in clock..DetectorHorizon BY <1>1, <2>1, DetectorConstants
  <2>3. QED BY <1>1, <2>1, <2>2, DetectorWaits
<1>3. CASE D!TickUnreliable
  BY <1>1, <1>3, DetectorForgets DEF D!TickUnreliable
<1>4. CASE D!TickReliable BY <1>4, DetectorTicks
<1>5. CASE D!Invalidate
  <2>1. broken' \in BOOLEAN BY <1>5 DEF D!Invalidate
  <2>2. QED BY <1>5, <2>1, DetectorForgets DEF D!Invalidate
<1>6. CASE D!UpdateSettings
  <2>1. clock' = clock /\ settings' \in AllSettings
        /\ UNCHANGED <<broken, detector, samples, since, forgotten, judged, begun>>
    BY <1>6 DEF D!UpdateSettings, D!history
  <2>2. clock' \in clock..DetectorHorizon BY <1>1, <2>1, DetectorConstants
  <2>3. QED BY <2>1, <2>2, DetectorWaits
<1>7. CASE D!Pass
  <2>1. clock' = clock + 1 /\ clock < DetectorHorizon /\ settings' = settings
        /\ UNCHANGED <<broken, detector, samples, since, forgotten, judged, begun>>
    BY <1>7 DEF D!Pass, D!history
  <2>2. clock' \in clock..DetectorHorizon BY <1>1, <2>1, DetectorConstants
  <2>3. QED BY <1>1, <2>1, <2>2, DetectorWaits
<1>8. CASE UNCHANGED <<part, vars, engineVars, detectorVars>> BY <1>2, <1>8
<1>9. QED BY <1>2, <1>3, <1>4, <1>5, <1>6, <1>7, <1>8 DEF EngineNext, D!Next

(* The invariant gives the types, and no run is longer than the time.      *)
LEMMA DetectorTypes == DetectorHolds => D!TypeOK
<1>1. SUFFICES ASSUME DetectorHolds PROVE D!TypeOK OBVIOUS
<1>2. clock \in Nat /\ RecordHolds /\ detector \in Detectors /\ detector.clipped <= clock
  BY <1>1, DetectorConstants DEF DetectorHolds, RecordHolds
<1>3. /\ detector.history \in Seq(Interval) /\ detector.limitRun \in Nat
      /\ detector.belowRun \in Nat /\ detector.clipped \in Nat /\ detector.lastTick \in Int
      /\ {detector.atLimit, detector.belowExit, detector.clipping} \subseteq BOOLEAN
  BY <1>2 DEF Detectors
<1>4. /\ detector.lastTick \in {D!Never} \cup 0..clock
      /\ detector.limitRun <= clock /\ detector.belowRun <= clock
  <2>1. CASE samples = <<>>
    <3>1. IsQuiet(D!Quiet(D!Never), D!Never)
      <4>1. D!Never \in Int BY DEF D!Never
      <4>2. QED BY <4>1, QuietIs
    <3>2. detector = D!Quiet(D!Never) BY <1>2, <2>1 DEF RecordHolds
    <3>3. QED BY <1>2, <3>1, <3>2 DEF IsQuiet
  <2>2. CASE samples # <<>>
    <3>1. Follows(detector, samples, since, forgotten) /\ detector.lastTick <= clock
      BY <1>2, <2>2 DEF RecordHolds
    <3>2. /\ Ordered(samples) /\ detector.lastTick = samples[Len(samples)].at /\ Len(samples) # 0
          /\ IsRun(samples, Limits(samples), detector.limitRun) \/ detector.limitRun = 0
          /\ IsRun(samples, Belows(samples), detector.belowRun)
      BY <3>1 DEF Follows, LastSeen, Runs
    <3>3. Len(samples) \in Nat /\ \A j \in 1..Len(samples) : samples[j].at \in Nat
      BY <3>2, SamplesAre
    <3>4. Len(samples) \in 1..Len(samples) BY <3>2, <3>3
    <3>5. detector.lastTick \in 0..clock BY <1>2, <3>1, <3>2, <3>3, <3>4
    <3>6. ASSUME NEW G, NEW n, IsRun(samples, G, n) PROVE n <= clock
      <4>1. PICK r \in 1..Len(samples) : n = samples[Len(samples)].at - samples[r].at
        BY <3>6 DEF IsRun
      <4>2. samples[r].at \in Nat /\ n = detector.lastTick - samples[r].at BY <3>2, <3>3, <4>1
      <4>3. QED BY <1>2, <3>5, <4>2
    <3>7. detector.limitRun <= clock BY <1>2, <3>2, <3>6
    <3>8. QED BY <3>2, <3>5, <3>6, <3>7
  <2>3. QED BY <2>1, <2>2
<1>5. {detector.limitRun, detector.belowRun, detector.clipped} \subseteq 0..clock
  BY <1>2, <1>3, <1>4
<1>6. QED BY <1>1, <1>3, <1>4, <1>5 DEF DetectorHolds, D!TypeOK, Interval

(* Whatever the times and levels of the ticks, the settings and their      *)
(* changes: what the detector has added up is what the record says, and it *)
(* shows clipping in time.                                                 *)
THEOREM DetectorTellsTheTruth == EngineSpec => []DetectsTheTruth
<1>1. DetectorHolds /\ [EngineNext]_<<part, vars, engineVars, detectorVars>> => DetectorHolds'
  BY DetectorSteps
<1>2. DetectorHolds => DetectsTheTruth BY DetectorTypes DEF DetectorHolds, DetectsTheTruth
<1>3. QED BY DetectorStarts, <1>1, <1>2, PTL DEF EngineSpec

(* An episode begins and ends for times that were seen, each for its own.  *)
Earned ==
  /\ ~detector.clipping /\ detector'.clipping =>
       \/ D!LimitRun' >= settings.limit
       \/ D!LimitTime(D!Max({D!Cutoff, since}))' * 100 >= settings.trigger * settings.window
  /\ detector.clipping /\ ~detector'.clipping =>
       D!Last(samples').below /\ (D!BelowRun' >= settings.hold \/ Len(samples') = 1)

(* A tick begins or ends an episode for what the record shows.             *)
LEMMA TicksAreEarned ==
  ASSUME DetectorHolds, D!TickReliable
  PROVE  Earned
<1>1. PICK w, x : /\ Verdict(w, detector', samples', x, since', forgotten')
                  /\ w.clipping = detector.clipping
  BY TickVerdict
<1>2. clock' = clock /\ settings' = settings BY TickVerdict
<1>3. Answers(w, detector', samples', since', forgotten') BY <1>1, VerdictAnswers
<1>4. w.belowExit = samples'[Len(samples')].below BY <1>1 DEF Verdict, Follows, LastSeen
<1>5. D!LimitRun' = LimitRunOver(samples', clock) /\ D!BelowRun' = BelowRunOver(samples', clock)
  BY <1>2, ReadNext
<1>6. D!LimitTime(D!Max({D!Cutoff, since}))' = TimeOver(samples', clock, D!Max({D!Cutoff, since'}))
  BY <1>2 DEF D!LimitTime, D!InForce, D!First, D!Cutoff, Index, TimeOver
<1>7. ~w.clipping /\ detector'.clipping
        => \/ LimitRunOver(samples', clock) >= settings.limit
           \/ TimeOver(samples', clock, D!Max({D!Cutoff, since'})) * 100
                >= settings.trigger * settings.window
  BY <1>3 DEF Answers
<1>8. w.clipping /\ ~detector'.clipping
        => w.belowExit /\ BelowRunOver(samples', clock) >= settings.hold
  BY <1>3 DEF Answers
<1>9. QED BY <1>1, <1>4, <1>5, <1>6, <1>7, <1>8 DEF Earned, D!Last

(* A source that is no longer reliable ends its episode below the limit.   *)
LEMMA QuietIsEarned ==
  ASSUME DetectorHolds, detector' = D!Quiet(clock), D!Forget
  PROVE  Earned
<1>1. ~detector'.clipping BY DEF D!Quiet
<1>2. samples' = <<[at |-> clock, limit |-> FALSE, below |-> TRUE]>> BY DEF D!Forget
<1>3. Len(samples') = 1 /\ samples'[1].below BY <1>2
<1>4. QED BY <1>1, <1>3 DEF Earned, D!Last

(* No episode begins or ends in any behaviour but for times that were seen *)
(* since the last one.                                                     *)
THEOREM EpisodesAlwaysEarned == EngineSpec => EpisodesAreEarned
<1>1. DetectorHolds /\ [EngineNext]_<<part, vars, engineVars, detectorVars>> => DetectorHolds'
  BY DetectorSteps
<1>2. DetectorHolds /\ [EngineNext]_<<part, vars, engineVars, detectorVars>> => [Earned]_D!vars
  <2>1. SUFFICES ASSUME DetectorHolds, [EngineNext]_<<part, vars, engineVars, detectorVars>>
                 PROVE  Earned \/ UNCHANGED D!vars
    OBVIOUS
  <2>2. CASE UNCHANGED detectorVars BY <2>2 DEF detectorVars, D!vars, D!history
  <2>3. CASE D!TickUnreliable BY <2>1, <2>3, QuietIsEarned DEF D!TickUnreliable
  <2>4. CASE D!TickReliable BY <2>1, <2>4, TicksAreEarned
  <2>5. CASE D!Invalidate BY <2>1, <2>5, QuietIsEarned DEF D!Invalidate
  <2>6. CASE D!UpdateSettings \/ D!Pass
    <3>1. detector' = detector BY <2>6 DEF D!UpdateSettings, D!Pass
    <3>2. QED BY <3>1 DEF Earned
  <2>7. CASE UNCHANGED <<part, vars, engineVars, detectorVars>> BY <2>2, <2>7
  <2>8. QED BY <2>1, <2>2, <2>3, <2>4, <2>5, <2>6, <2>7 DEF EngineNext, D!Next
<1>3. EngineSpec => [][Earned]_D!vars BY DetectorStarts, <1>1, <1>2, PTL DEF EngineSpec
<1>4. [][Earned]_D!vars <=> EpisodesAreEarned BY DEF Earned, EpisodesAreEarned, D!EpisodesAreEarned
<1>5. QED BY <1>3, <1>4

-----------------------------------------------------------------------------
(* What frames do to the sources.  ClippingEngineProofs proves this of     *)
(* ClippingEngine for any effects and frames; here it is taken with those  *)
(* of this run, under the name FP.  F and FP instantiate one module, so    *)
(* what they define is the same.                                           *)

FP == INSTANCE ClippingEngineProofs WITH Effects <- EngineEffects, Frames <- AllFrames

(* The frames of this run are frames that the decoder produces.            *)
LEMMA AllFramesFit == \A f \in AllFrames : f \in FP!AnyFrame
<1>1. EngineEffects = {<<1, 1>>, <<1, 2>>, <<2, 3>>} BY DEF EngineEffects, E1, E2, E3
<1>2. 1 \in FP!Devices /\ 2 \in FP!Devices BY <1>1 DEF FP!Devices
<1>3. E1 \in EngineEffects /\ E2 \in EngineEffects /\ E3 \in EngineEffects BY DEF EngineEffects
<1>4. \A n \in Nat : [type |-> "DropNotice", count |-> n] \in FP!AnyFrame BY DEF FP!AnyFrame
<1>5. [type |-> "Failed"] \in FP!AnyFrame BY DEF FP!AnyFrame
<1>6. [type |-> "DeviceCreated", device |-> 2] \in FP!AnyFrame BY <1>2 DEF FP!AnyFrame
<1>7. \A e \in EngineEffects, t \in {"absent", "none", "button"}, b \in BOOLEAN :
        /\ [type |-> "EffectCreated", effect |-> e, trigger |-> t] \in FP!AnyFrame
        /\ [type |-> "EffectParameters", effect |-> e, trigger |-> t, start |-> b]
             \in FP!AnyFrame
  BY DEF FP!AnyFrame, FP!Triggers
<1>8. \A e \in EngineEffects, b \in BOOLEAN, k \in {"Stop", "Release"} :
        /\ [type |-> "Start", effect |-> e, solo |-> b] \in FP!AnyFrame
        /\ [type |-> k, effect |-> e] \in FP!AnyFrame
  BY DEF FP!AnyFrame
<1>9. \A bits \in SUBSET FP!Bits :
        [type |-> "DeviceCommand", device |-> 1, bits |-> bits] \in FP!AnyFrame
  BY <1>2 DEF FP!AnyFrame
<1>10. \A bits \in {{"Reset"}, {"StopAll", "Pause"}, {"Pause"}, {"Continue", "On"}, {"Off"}} :
         [type |-> "DeviceCommand", device |-> 1, bits |-> bits] \in FP!AnyFrame
  BY <1>9 DEF FP!Bits
<1>11. QED BY <1>3, <1>4, <1>5, <1>6, <1>7, <1>8, <1>10 DEF AllFrames

LEMMA FramesFit == FP!EngineConstants
<1>1. IsFiniteSet(EngineEffects)
  <2>1. IsFiniteSet({E1}) /\ IsFiniteSet({E1} \union {E2})
        /\ IsFiniteSet({E1} \union {E2} \union {E3})
    BY FS_Singleton, FS_AddElement
  <2>2. EngineEffects = {E1} \union {E2} \union {E3} BY DEF EngineEffects
  <2>3. QED BY <2>1, <2>2
<1>2. \A S : FP!IsFiniteSet(S) <=> IsFiniteSet(S) BY DEF FP!IsFiniteSet, IsFiniteSet
<1>3. QED BY <1>1, <1>2, FramesConstants, AllFramesFit DEF FP!EngineConstants

LEMMA SameInit == F!Init <=> FP!Init
BY DEF F!Init, FP!Init, F!NewSource, FP!NewSource, F!Silence, FP!Silence

LEMMA SameStep == F!Next <=> FP!Next
BY DEF F!Devices, F!Triggers, F!Bits, F!DeviceRoom, F!EffectRoom, F!Capacity, F!WithDevice,
       F!WithEffect, F!Begin, F!StopEffects, F!OnDevice, F!SetTrigger, F!EffectCreated,
       F!EffectParameters, F!StartEffect, F!ReleaseEffect, F!DeviceCommand, F!NewSource,
       F!InvalidateAfterDrop, F!IsNewLoss, F!DropNotice, F!Apply, F!Cardinality, F!GateIsFree,
       F!Transition, F!When, F!Enqueued, F!RecordEdges, F!Meaning, F!Hear, F!EndsEpisode,
       F!Connected, F!Latest, F!Touch, F!SourceRoom, F!Evictable, F!Victims, F!Refuse, F!Join,
       F!Connect, F!ResetAfterDisconnect, F!Leave, F!Disconnect, F!Receive, F!ProcessFrame,
       F!EstimateReliable, F!MayClip, F!ClippingAfterTick, F!Orders, F!Tick, F!TicketFits,
       F!Uncount, F!EnqueueCount, F!EnqueueInsert, F!EnqueueShed, F!DequeueTake, F!DequeueCount,
       F!registry, F!queueing, F!history, F!vars, F!Next, FP!Devices, FP!Triggers, FP!Bits,
       FP!DeviceRoom, FP!EffectRoom, FP!Capacity, FP!WithDevice, FP!WithEffect, FP!Begin,
       FP!StopEffects, FP!OnDevice, FP!SetTrigger, FP!EffectCreated, FP!EffectParameters,
       FP!StartEffect, FP!ReleaseEffect, FP!DeviceCommand, FP!NewSource, FP!InvalidateAfterDrop,
       FP!IsNewLoss, FP!DropNotice, FP!Apply, FP!Cardinality, FP!GateIsFree, FP!Transition,
       FP!When, FP!Enqueued, FP!RecordEdges, FP!Meaning, FP!Hear, FP!EndsEpisode, FP!Connected,
       FP!Latest, FP!Touch, FP!SourceRoom, FP!Evictable, FP!Victims, FP!Refuse, FP!Join,
       FP!Connect, FP!ResetAfterDisconnect, FP!Leave, FP!Disconnect, FP!Receive, FP!ProcessFrame,
       FP!EstimateReliable, FP!MayClip, FP!ClippingAfterTick, FP!Orders, FP!Tick, FP!TicketFits,
       FP!Uncount, FP!EnqueueCount, FP!EnqueueInsert, FP!EnqueueShed, FP!DequeueTake,
       FP!DequeueCount, FP!registry, FP!queueing, FP!history, FP!vars, FP!Next

LEMMA SameTypes == F!TypeOK <=> FP!TypeOK
BY DEF F!Playback, F!Sources, F!Transitions, F!Devices, F!Issues, F!TypeOK, F!Cardinality,
       FP!Playback, FP!Sources, FP!Transitions, FP!Devices, FP!Issues, FP!TypeOK, FP!Cardinality

LEMMA SameTruth == F!ReliableIsTrue <=> FP!ReliableIsTrue
BY DEF F!ReliableIsTrue, F!DataReliable, F!Connected, F!EstimateReliable, FP!ReliableIsTrue,
       FP!DataReliable, FP!Connected, FP!EstimateReliable

(* Whichever part of the engine takes steps, the state that a peer can make*)
(* the plug-in keep stays within its bounds, and what is called reliable is*)
(* true (Apply, Connect, Disconnect and the snapshot's DataReliable).      *)
THEOREM EngineStaysReliable == EngineSpec => []ReliableIsTrue
<1>1. EngineInit => FP!Init BY SameInit DEF EngineInit
<1>2. [EngineNext]_<<part, vars, engineVars, detectorVars>> => [FP!Next]_FP!vars
  BY SameStep DEF EngineNext, engineVars, FP!vars, FP!registry, FP!queueing, FP!history
<1>3. FP!Spec => []FP!TypeOK BY FramesFit, FP!EngineTypes
<1>4. FP!Spec => []FP!ReliableIsTrue BY FramesFit, FP!ReliableStaysTrue
<1>5. FP!TypeOK /\ FP!ReliableIsTrue => ReliableIsTrue
  BY SameTypes, SameTruth DEF ReliableIsTrue
<1>6. QED BY <1>1, <1>2, <1>3, <1>4, <1>5, PTL DEF EngineSpec, FP!Spec
=============================================================================
