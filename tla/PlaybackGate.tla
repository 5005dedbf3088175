---------------------------- MODULE PlaybackGate -----------------------------
(***************************************************************************)
(* When a wrapped device says that it has stopped: Acquire, Unacquire and  *)
(* the polling calls of src/src/wrapper_device8.cpp.                       *)
(*                                                                         *)
(* A device that is not acquired plays nothing.  The proxy learns this     *)
(* from results of the driver only, and sends StopAll.  The flag           *)
(* playback_invalidated lets one StopAll through per acquisition, because  *)
(* a game in the background polls in every frame and fails every time.     *)
(* The call of the driver, the exchange of the flag and the emission are   *)
(* three steps of a thread.                                                *)
(***************************************************************************)
EXTENDS Integers, FiniteSets

CONSTANTS
  Threads,     \* threads of the game that use the device
  MaxAcquires  \* bound: calls of Acquire that succeed

VARIABLES
  acquired,    \* the driver: the device is acquired
  playing,     \* the driver: an effect of the device plays
  gate,        \* WrapperDevice8State::playback_invalidated
  at,          \* at[t]: where thread t is
  hears,       \* what the receivers of telemetry believe of playing
  acquires, stops,  \* history: successful Acquires, StopAlls sent
  known,       \* history: a call reported the loss of this acquisition and returned
  overlapped   \* history: two calls were under way at once

vars == <<acquired, playing, gate, at, hears, acquires, stops, known, overlapped>>

Init ==
  /\ acquired = FALSE /\ playing = FALSE
  /\ gate = TRUE
  /\ at = [t \in Threads |-> "idle"]
  /\ hears = FALSE
  /\ acquires = 0 /\ stops = 0
  /\ known = FALSE /\ overlapped = FALSE

(* Thread t, idle, enters a call and comes out of its call of the driver.  *)
Enter(t, label) ==
  /\ at[t] = "idle"
  /\ at' = [at EXCEPT ![t] = label]
  /\ overlapped' = (overlapped \/ \E u \in Threads : at[u] # "idle")

Leave(t) == at' = [at EXCEPT ![t] = "idle"]

(***************************************************************************)
(* The environment: the device is lost, or its effect ends.                *)
(***************************************************************************)
DeviceLost ==
  /\ acquired
  /\ acquired' = FALSE /\ playing' = FALSE
  /\ UNCHANGED <<gate, at, hears, acquires, stops, known, overlapped>>

(***************************************************************************)
(* Acquire succeeds and opens the gate.                                    *)
(***************************************************************************)
Acquire(t) ==
  /\ acquires < MaxAcquires
  /\ acquired' = TRUE
  /\ acquires' = acquires + 1
  /\ known' = FALSE
  /\ Enter(t, "open")
  /\ UNCHANGED <<playing, gate, hears, stops>>

GateLeftClosed(t) ==
  /\ at[t] = "open"
  /\ Leave(t)
  /\ UNCHANGED <<acquired, playing, gate, hears, acquires, stops, known, overlapped>>

OpenGate(t) ==
  /\ at[t] = "open"
  /\ gate' = FALSE
  /\ Leave(t)
  /\ UNCHANGED <<acquired, playing, hears, acquires, stops, known, overlapped>>

(***************************************************************************)
(* Unacquire succeeds; or Poll, GetDeviceState, GetDeviceData or Acquire   *)
(* reports that the device is not acquired.                                *)
(***************************************************************************)
Unacquire(t) ==
  /\ acquired
  /\ acquired' = FALSE /\ playing' = FALSE
  /\ Enter(t, "invalidate")
  /\ UNCHANGED <<gate, hears, acquires, stops, known>>

ReportsLoss(t) ==
  /\ ~acquired
  /\ Enter(t, "invalidate")
  /\ UNCHANGED <<acquired, playing, gate, hears, acquires, stops, known>>

MustTell == ~gate

(* invalidate_playback: whoever closes the gate sends StopAll.             *)
Invalidate(t) ==
  /\ at[t] = "invalidate"
  /\ gate' = TRUE
  /\ IF MustTell
       THEN at' = [at EXCEPT ![t] = "stop"] /\ UNCHANGED known
       ELSE Leave(t) /\ known' = ~acquired
  /\ UNCHANGED <<acquired, playing, hears, acquires, stops, overlapped>>

EmitStopAll(t) ==
  /\ at[t] = "stop"
  /\ hears' = FALSE
  /\ stops' = stops + 1
  /\ known' = ~acquired
  /\ Leave(t)
  /\ UNCHANGED <<acquired, playing, gate, acquires, overlapped>>

(***************************************************************************)
(* An effect of the device is started, in the driver and then for the      *)
(* receivers.                                                              *)
(***************************************************************************)
Start(t) ==
  /\ acquired
  /\ playing' = TRUE
  /\ Enter(t, "start")
  /\ UNCHANGED <<acquired, gate, hears, acquires, stops, known>>

EmitStart(t) ==
  /\ at[t] = "start"
  /\ hears' = TRUE
  /\ Leave(t)
  /\ UNCHANGED <<acquired, playing, gate, acquires, stops, known, overlapped>>

Next ==
  \/ DeviceLost
  \/ \E t \in Threads :
       Acquire(t) \/ OpenGate(t) \/ Unacquire(t) \/ ReportsLoss(t)
       \/ Invalidate(t) \/ EmitStopAll(t) \/ Start(t) \/ EmitStart(t)

Spec == Init /\ [][Next]_vars

-----------------------------------------------------------------------------

AllIdle == \A t \in Threads : at[t] = "idle"

(* Every variable has its type.                                            *)
TypeOK ==
  /\ {acquired, playing, gate, hears, known, overlapped} \subseteq BOOLEAN
  /\ at \in [Threads -> {"idle", "open", "invalidate", "stop", "start"}]
  /\ acquires \in Nat
  /\ stops \in Nat

(* A device that stays lost is announced once, however often and by how    *)
(* many threads it is polled: no more StopAlls than acquisitions.          *)
StopsAreEarned ==
  stops + Cardinality({t \in Threads : at[t] = "stop"})
    + Cardinality({t \in Threads : at[t] = "open"}) + (IF gate THEN 0 ELSE 1) <= acquires

(* While the calls of the game do not overlap, the receivers know what the *)
(* driver does once a call has reported a loss, and never hear of a stop   *)
(* that did not take place.                                                *)
SerialIsExact ==
  ~overlapped /\ AllIdle =>
    /\ playing => hears
    /\ known => ~hears

(* wrapper_device8.cpp:357-359: "... Reuse STOPALL on the wire so          *)
(* consumers retain cached parameters without reporting stale output":     *)
(* after a call has reported the loss of the device nothing is shown as    *)
(* playing for good, that is, with the gate closed to a further StopAll.   *)
NoStaleOutput == known /\ AllIdle /\ gate => ~hears
=============================================================================
