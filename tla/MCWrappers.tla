----------------------------- MODULE MCWrappers ------------------------------
(* Instances of the three wrapper modules for one run of TLC.  They share  *)
(* no variable, so part chooses, once, which of them takes steps.          *)
EXTENDS DeviceWrappers

CONSTANTS Effects, MaxAcquires

VARIABLES
  part,
  driver, wrapper, refs, registered, eKept, eBare, eThread, heard,        \* EffectWrappers
  acquired, playing, gate, at, hears, acquires, stops, known, overlapped  \* PlaybackGate

effectVars == <<driver, wrapper, refs, registered, eKept, eBare, eThread, heard>>
gateVars   == <<acquired, playing, gate, at, hears, acquires, stops, known, overlapped>>

E == INSTANCE EffectWrappers WITH kept <- eKept, bare <- eBare, thread <- eThread
G == INSTANCE PlaybackGate

WrappersInit ==
  /\ part \in {"device", "effect", "gate"}
  /\ Init /\ E!Init /\ G!Init

WrappersNext ==
  /\ \/ part = "device" /\ Next /\ UNCHANGED <<effectVars, gateVars>>
     \/ part = "effect" /\ E!Next /\ UNCHANGED <<vars, gateVars>>
     \/ part = "gate" /\ G!Next /\ UNCHANGED <<vars, effectVars>>
  /\ UNCHANGED part

WrappersSpec == WrappersInit /\ [][WrappersNext]_<<part, vars, effectVars, gateVars>>

(* Every reference to a device, of the game, of a wrapper or of a call     *)
(* under way, is counted once on both sides, and no count goes below zero. *)
DeviceRefsExact == TypeOK /\ RefsAreOwned /\ DeviceRefsBalanced

(* The same of effects: a wrapper is found and used only while it has      *)
(* references, no reference to the driver's effect is leaked or released   *)
(* twice, and nothing is heard of an effect after its one Release.         *)
EffectRefsExact == E!TypeOK /\ E!WrapperRefsExact /\ E!DriverRefsExact /\ E!ReleaseIsLast

(* At most one StopAll per acquisition, and receivers that are right about *)
(* playback while calls do not overlap.                                    *)
StopsAreExact == G!TypeOK /\ G!StopsAreEarned /\ G!SerialIsExact
=============================================================================
