------------------------------ MODULE MCEngine -------------------------------
(* The parts of the engine in one run of TLC: what frames do to a source   *)
(* and to the transition queue (ClippingEngine), the schedules of the      *)
(* effects of one source (EffectPlayback) and its detector (Detector).     *)
(* They share no variable, so part chooses, once, which takes steps.       *)
EXTENDS MCEffectPlayback, MCFrames, FiniteSets, TLC

CONSTANTS
  AllSettings, Keys, Conns, MaximumSources, MaximumDevices, MaximumEffects, MaximumQueuedTransitions, NoKey,
  LongGap, DetectorHorizon

VARIABLES
  part,
  clock, settings, broken, detector, samples, since, forgotten, judged, begun,   \* Detector
  sources, tracked, order, sourceDrops, owner, phase, outbox, ticket, transitions,
  queuedCount, taken, edge, heard, disturbed, evicted                \* ClippingEngine

engineVars ==
  <<sources, tracked, order, sourceDrops, owner, phase, outbox, ticket, transitions,
    queuedCount, taken, edge, heard, disturbed, evicted>>

F == INSTANCE ClippingEngine WITH Effects <- EngineEffects, Frames <- AllFrames

detectorVars == <<clock, settings, broken, detector, samples, since, forgotten, judged, begun>>

(* With the first the window is full before the run is long enough, with   *)
(* the second the run is long enough before the window is full.            *)
MCSettings ==
  {[limit |-> 3, window |-> 2, trigger |-> 100, hold |-> 2],
   [limit |-> 2, window |-> 4, trigger |-> 75, hold |-> 0]}

D == INSTANCE Detector WITH now <- clock, Horizon <- DetectorHorizon

ASSUME DetectorConstants ==
  /\ LongGap \in Nat /\ DetectorHorizon \in Nat
  /\ \A s \in AllSettings :
       s.limit \in Nat /\ s.window \in Nat /\ s.trigger \in Nat /\ s.hold \in Nat

ASSUME FramesConstants ==
  /\ IsFiniteSet(Keys) /\ NoKey \notin Keys
  /\ MaximumSources \in Nat /\ MaximumDevices \in Nat /\ MaximumEffects \in Nat
  /\ MaximumQueuedTransitions \in Nat

(* A part that takes no steps needs one initial state only.                *)
EngineInit ==
  /\ part \in {"frames", "schedules", "detector"}
  /\ Init /\ F!Init /\ D!Init
  /\ part # "detector" => settings = CHOOSE s \in AllSettings : TRUE

EngineNext ==
  /\ \/ part = "frames" /\ F!Next /\ UNCHANGED <<vars, detectorVars>>
     \/ part = "schedules" /\ Next /\ UNCHANGED <<engineVars, detectorVars>>
     \/ part = "detector" /\ D!Next /\ UNCHANGED <<vars, engineVars>>
  /\ UNCHANGED part

EngineSpec == EngineInit /\ [][EngineNext]_<<part, vars, engineVars, detectorVars>>

(* The state that a peer can make the plug-in keep stays within its        *)
(* bounds, and what is called reliable is true, whatever the frames.       *)
ReliableIsTrue == F!TypeOK /\ F!ReliableIsTrue

(* The detector sums up what the record of its ticks says, no more and no  *)
(* less, and shows clipping in time.                                       *)
DetectsTheTruth == D!TypeOK /\ D!RatioIsTrue /\ D!DetectsInTime

(* Episodes begin and end for times that were seen, each for its own.      *)
EpisodesAreEarned == D!EpisodesAreEarned

EngineSymmetry == Permutations(Conns) \union Permutations(EffectIds)
=============================================================================
