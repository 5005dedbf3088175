------------------------------ MODULE Detector -------------------------------
(***************************************************************************)
(* The clipping detector of one source of the plug-in: SourceState.Tick    *)
(* and CalculateRatio in src/simhub/FFBInterceptor.Core/ClippingEngine.cs. *)
(*                                                                         *)
(* The detector sees the command level at its ticks only and takes the     *)
(* level of one tick to last until the next.  It adds the time at the limit*)
(* up as it goes, over a run without a break and over a window that moves, *)
(* and forgets what has left the window.  Against that stands the record of*)
(* all that it has seen, from which the same times can be read off.        *)
(***************************************************************************)
EXTENDS Integers, FiniteSets, SequencesExt

CONSTANTS
  AllSettings,     \* settings the user may choose: limit, window, trigger, hold,
                   \* in units of time and percent
  LongGap,         \* the 250 ms after which ticks are no longer connected
  Horizon          \* bound of the clock

VARIABLES
  now,             \* the clock of the plug-in
  settings,        \* DetectorSettings
  broken,          \* a persistent reliability issue: lost frames, reconnection
  detector,        \* the detector's part of SourceState
  samples,         \* history: what ticks saw since they were last connected
  since,           \* history: the end of the last episode among the samples
  forgotten,       \* history: no window has reached further back than this
  judged,          \* history: the settings of the last tick
  begun            \* history: the time of the last ClippingStarted

history == <<samples, since, forgotten, judged, begun>>
vars    == <<now, settings, broken, detector, history>>

Never  == -1
Levels == {"limit", "between", "below"}   \* at the entry threshold, below that of exit

(* Nothing is known of the output: it counts as below the exit threshold.  *)
Quiet(time) ==
  [history |-> <<>>, lastTick |-> time, atLimit |-> FALSE, belowExit |-> TRUE,
   limitRun |-> 0, belowRun |-> 0, clipping |-> FALSE, clipped |-> 0]

Init ==
  /\ now = 0 /\ settings \in AllSettings /\ broken = FALSE /\ detector = Quiet(Never)
  /\ samples = <<>> /\ since = 0 /\ forgotten = 0 /\ judged = settings /\ begun = Never

-----------------------------------------------------------------------------
(* One tick of the detector.                                               *)

(* The first tick, or one so late that what was in between is not known.   *)
IsConnected(d) ==
  d.lastTick # Never /\ now - d.lastTick <= Max({LongGap, settings.window})

Disconnected(d) == [d EXCEPT !.history = <<>>, !.limitRun = 0, !.belowRun = 0]

(* Variant with a fault: only the last interval of a run counts.           *)
ShortRun(d) ==
  LET delta == now - d.lastTick IN
  [d EXCEPT !.history  = Append(@, [start |-> d.lastTick, end |-> now, clipped |-> d.atLimit]),
            !.limitRun = IF d.atLimit THEN delta ELSE 0,
            !.belowRun = IF d.belowExit THEN @ + delta ELSE 0]

(* The level of the last tick has lasted until this one.                   *)
Connected(d) ==
  LET delta == now - d.lastTick IN
  [d EXCEPT !.history  = Append(@, [start |-> d.lastTick, end |-> now, clipped |-> d.atLimit]),
            !.limitRun = IF d.atLimit THEN @ + delta ELSE 0,
            !.belowRun = IF d.belowExit THEN @ + delta ELSE 0]

Sampled(d, level) ==
  [(IF IsConnected(d) THEN Connected(d) ELSE Disconnected(d))
     EXCEPT !.lastTick = now, !.atLimit = level = "limit", !.belowExit = level = "below"]

Cutoff == now - settings.window

(* Variant with a fault: an interval counts as long as any of it is visible.*)
WholeIntervals(intervals) ==
  FoldLeft(LAMBDA sum, i : IF i.clipped THEN sum + i.end - i.start ELSE sum, 0, intervals)

ClippedTime(intervals) ==
  LET sum[n \in 0..Len(intervals)] ==
        IF n = 0 THEN 0
        ELSE sum[n - 1] + (IF intervals[n].clipped
                           THEN intervals[n].end - Max({intervals[n].start, Cutoff}) ELSE 0)
  IN sum[Len(intervals)]

(* The intervals behind the window leave at the front.                     *)
Visible(intervals) ==
  LET gone == {n \in 0..Len(intervals) : \A i \in 1..n : intervals[i].end <= Cutoff}
  IN SubSeq(intervals, Max(gone) + 1, Len(intervals))

(* CalculateRatio, as a time: the ratio is this time over the window.      *)
WithRatio(d) ==
  [d EXCEPT !.history = Visible(d.history), !.clipped = ClippedTime(Visible(d.history))]

Triggers(d) ==
  d.limitRun >= settings.limit \/ d.clipped * 100 >= settings.trigger * settings.window

Releases(d) == d.belowExit /\ d.belowRun >= settings.hold

(* Variant with a fault: the window keeps the samples of the episode.      *)
KeepsWindow(d) == [d EXCEPT !.clipping = FALSE, !.limitRun = 0]

(* The samples of an episode that is over must not trigger the next one.   *)
EndEpisode(d) ==
  [d EXCEPT !.clipping = FALSE, !.history = <<>>, !.clipped = 0, !.limitRun = 0]

Judged(d) ==
  CASE ~d.clipping /\ Triggers(d) -> [d EXCEPT !.clipping = TRUE]
    [] d.clipping /\ Releases(d)  -> EndEpisode(d)
    [] OTHER                      -> d

-----------------------------------------------------------------------------
Forget ==
  samples' = <<[at |-> now, limit |-> FALSE, below |-> TRUE]>> /\ since' = now /\ forgotten' = now

(* A tick while the estimate is not reliable, for good or because an effect*)
(* waits for a button that telemetry does not report.  Ticks do not overlap*)
(* and read a clock that is much finer than their period.                  *)
TickUnreliable ==
  /\ now > detector.lastTick
  /\ detector' = Quiet(now) /\ Forget
  /\ UNCHANGED <<now, settings, broken, judged, begun>>

TickReliable ==
  /\ now > detector.lastTick /\ ~broken
  /\ \E level \in Levels :
       LET seen   == [at |-> now, limit |-> level = "limit", below |-> level = "below"]
           d      == Judged(WithRatio(Sampled(detector, level)))
           joined == IsConnected(detector)
       IN /\ detector' = d
          /\ samples' = IF joined THEN Append(samples, seen) ELSE <<seen>>
          /\ since' = IF ~joined \/ (detector.clipping /\ ~d.clipping) THEN now ELSE since
          /\ forgotten' = IF joined THEN Max({forgotten, Cutoff}) ELSE now
          /\ begun' = IF ~detector.clipping /\ d.clipping THEN now ELSE begun
  /\ judged' = settings
  /\ UNCHANGED <<now, settings, broken>>

(* InvalidateAfterDrop or ResetAfterDisconnect.                            *)
Invalidate ==
  /\ ~broken
  /\ broken' = TRUE /\ detector' = Quiet(now) /\ Forget
  /\ UNCHANGED <<now, settings, judged, begun>>

UpdateSettings ==
  /\ settings' \in AllSettings \ {settings}
  /\ UNCHANGED <<now, broken, detector, history>>

Pass ==
  /\ now < Horizon /\ now' = now + 1
  /\ UNCHANGED <<settings, broken, detector, history>>

Next == TickUnreliable \/ TickReliable \/ Invalidate \/ UpdateSettings \/ Pass

Spec == Init /\ [][Next]_vars

-----------------------------------------------------------------------------
TypeOK ==
  /\ now \in 0..Horizon /\ {settings, judged} \subseteq AllSettings /\ broken \in BOOLEAN
  /\ detector.history \in Seq([start : Nat, end : Nat, clipped : BOOLEAN])
  /\ detector.lastTick \in {Never} \cup 0..now
  /\ {detector.limitRun, detector.belowRun, detector.clipped} \subseteq 0..now
  /\ {detector.atLimit, detector.belowExit, detector.clipping} \subseteq BOOLEAN

(* What the record says: the sample in force during the unit of time that  *)
(* begins at t, the time at the limit from a point of time on, and the     *)
(* length of the run that reaches up to now.                               *)
First      == samples[1].at
InForce(t) == samples[Max({i \in DOMAIN samples : samples[i].at <= t})]

LimitTime(from) == Cardinality({t \in Max({from, First})..now - 1 : InForce(t).limit})

RunUpToNow(holds(_)) ==
  Max({n \in 0..now - First : \A t \in now - n..now - 1 : holds(InForce(t))})

LimitRun == RunUpToNow(LAMBDA s : s.limit)
BelowRun == RunUpToNow(LAMBDA s : s.below)

JustTicked == samples # <<>> /\ detector.lastTick = now

(* The times that the detector has added up are those of the record: it    *)
(* counts no time twice, none outside the window and none of an episode    *)
(* that is over, and misses none that the window still covers, however     *)
(* irregular the ticks and whatever the user changes; only a window that   *)
(* was made longer lacks what an earlier one had let go.                   *)
RatioIsTrue ==
  JustTicked =>
    LET visible == Max({now - judged.window, since}) IN
    /\ detector.clipped <= LimitTime(visible)
    /\ detector.clipped >= LimitTime(Max({visible, forgotten}))

(* An episode begins only after so much time at the limit, none of it from *)
(* before the end of the last one, and ends only after so much time below  *)
(* the exit threshold, or with the reliability of the source.              *)
EpisodesAreEarned ==
  [][/\ ~detector.clipping /\ detector'.clipping =>
          \/ LimitRun' >= settings.limit
          \/ LimitTime(Max({Cutoff, since}))' * 100 >= settings.trigger * settings.window
     /\ detector.clipping /\ ~detector'.clipping =>
          Last(samples').below /\ (BelowRun' >= settings.hold \/ Len(samples') = 1)]_vars

(* At every tick clipping is shown where the record demands it, unless the *)
(* output is already below the exit threshold, and is no longer shown when *)
(* that has lasted, except by the tick that began the episode.             *)
DetectsInTime ==
  JustTicked /\ ~broken =>
    /\ \/ LimitRun >= judged.limit
       \/ LimitTime(Max({now - judged.window, since, forgotten})) * 100
            >= judged.trigger * judged.window
       => detector.clipping \/ Last(samples).below
    /\ Last(samples).below /\ BelowRun >= judged.hold => ~detector.clipping \/ begun = now
=============================================================================
