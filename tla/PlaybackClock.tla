---------------------------- MODULE PlaybackClock ----------------------------
(***************************************************************************)
(* What the user of the plug-in is promised of the playback of effects: a  *)
(* clock for every effect that is playing.  It counts the time since the   *)
(* effect was started, stands still while the device is paused, and ends   *)
(* the effect when delay and length are over.  Nothing but a start makes   *)
(* an effect play, and a change of its plan never touches its clock.       *)
(***************************************************************************)
EXTENDS Integers

CONSTANTS Effects, Forever

VARIABLES
  playing,         \* the effects that are playing, or waiting for their delay
  elapsed,         \* elapsed[e]: the clock of e, 0 when e is not playing
  plan,            \* plan[e]: delay, and length of all iterations
  paused           \* the devices on which the clocks stand still

clockVars == <<playing, elapsed, plan, paused>>

OnDevice(d) == {e \in Effects : e[1] = d}

Over(p, t) == p.length # Forever /\ t >= p.delay + p.length

ClockInit ==
  /\ playing = {} /\ paused = {}
  /\ elapsed = [e \in Effects |-> 0]
  /\ plan = [e \in Effects |-> [delay |-> 0, length |-> Forever]]

(* Of the effects in P, with clocks at t, those go on whose plan is not    *)
(* over.                                                                   *)
Settle(P, t) ==
  /\ playing' = {e \in P : ~Over(plan'[e], t[e])}
  /\ elapsed' = [e \in Effects |-> IF e \in playing' THEN t[e] ELSE 0]

Pass ==
  /\ Settle(playing, [e \in Effects |-> IF e[1] \in paused THEN elapsed[e] ELSE elapsed[e] + 1])
  /\ UNCHANGED <<plan, paused>>

OnlyPlanOf(e) == \A f \in Effects \ {e} : plan'[f] = plan[f]

(* Starts e anew, on its own or together with others.                      *)
Start(e) ==
  /\ OnlyPlanOf(e)
  /\ \E others \in {{}, OnDevice(e[1])} :
       Settle((playing \ others) \union {e}, [elapsed EXCEPT ![e] = 0])
  /\ UNCHANGED paused

Change(e) == OnlyPlanOf(e) /\ Settle(playing, elapsed) /\ UNCHANGED paused

Halt(e) == OnlyPlanOf(e) /\ Settle(playing \ {e}, elapsed) /\ UNCHANGED paused

Command(d) ==
  /\ \E halted \in {{}, OnDevice(d)} : Settle(playing \ halted, elapsed)
  /\ paused' \in {paused \union {d}, paused \ {d}}
  /\ UNCHANGED plan

ClockNext ==
  \/ Pass
  \/ \E e \in Effects : Start(e) \/ Change(e) \/ Halt(e) \/ Command(e[1])

ClockSpec == ClockInit /\ [][ClockNext]_clockVars

(* The effects that move the wheel, if the actuators are on.               *)
Producing == {e \in playing : elapsed[e] >= plan[e].delay /\ e[1] \notin paused}
=============================================================================
