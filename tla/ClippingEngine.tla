--------------------------- MODULE ClippingEngine ----------------------------
(***************************************************************************)
(* The detection engine of the SimHub plug-in: class ClippingEngine of     *)
(* src/simhub/FFBInterceptor.Core/ClippingEngine.cs.                       *)
(*                                                                         *)
(* Reader threads of the pipe server call Connect, ProcessFrame and        *)
(* Disconnect, a 60 Hz timer calls Tick; each call runs under _gate and is *)
(* one step, followed by one step per transition it enqueues, for the      *)
(* thread that drains the transition queue (TryDequeueTransition) takes no *)
(* lock.                                                                   *)
(*                                                                         *)
(* A source is the state of one producer session.  Times, levels and       *)
(* schedules are left out: an effect is started or not, whether or not its *)
(* duration has run out, and Tick may find any reliable source clipping.   *)
(***************************************************************************)
EXTENDS Integers, Sequences, FiniteSets

CONSTANTS
  Keys,            \* producer sessions (process id and session id)
  Conns,           \* connection ids, one per accepted pipe client
  Effects,         \* effects a producer may create: pairs <<device, id>>
  Frames,          \* frames that a connection may carry
  MaximumSources, MaximumDevices, MaximumEffects, MaximumQueuedTransitions,
  NoKey            \* a connection without a source yet

Devices == {e[1] : e \in Effects}

Triggers == {"absent", "none", "button"}   \* what a frame says of the trigger

Bits == {"Reset", "StopAll", "Pause", "Continue", "On", "Off"}

Issues == {"FrameGap", "SessionReconnect", "StateCapacityExceeded"}

(* A frame of the decoder, by what Apply() tells apart.                    *)
AnyFrame ==
  [type : {"DropNotice"}, count : Nat] \union [type : {"Failed"}]
    \union [type : {"DeviceCreated"}, device : Devices]
    \union [type : {"EffectCreated"}, effect : Effects, trigger : Triggers]
    \union [type : {"EffectParameters"}, effect : Effects, trigger : Triggers, start : BOOLEAN]
    \union [type : {"Start"}, effect : Effects, solo : BOOLEAN]
    \union [type : {"Stop", "Release"}, effect : Effects]
    \union [type : {"DeviceCommand"}, device : Devices, bits : SUBSET Bits]

ASSUME EngineConstants ==
  /\ IsFiniteSet(Keys) /\ IsFiniteSet(Effects)
  /\ NoKey \notin Keys
  /\ MaximumSources \in Nat /\ MaximumDevices \in Nat /\ MaximumEffects \in Nat
  /\ MaximumQueuedTransitions \in Nat
  /\ \A f \in Frames : f \in AnyFrame

VARIABLES
  sources,        \* sources[k]: SourceState of session k
  tracked,        \* the sessions in _sources
  order,          \* pairs of tracked sessions, the one silent for longer first
  sourceDrops,    \* _sourceStateDrops # 0
  owner,          \* owner[c]: the session that connection c introduced
  phase,          \* phase[c]: "new", "open" or "closed" for the reader of c
  outbox,         \* transitions the call under _gate has still to enqueue
  ticket,         \* what Increment returned for the first of them, or 0
  transitions,    \* _transitions
  queuedCount,    \* _queuedTransitionCount
  taken,          \* the draining thread has dequeued and not yet decremented
  edge,           \* history: edge[k], the last clipping transition of k
  heard,          \* history: heard[k], what all frames of k say of playback
  disturbed,      \* history: sessions that lost frames or a connection
  evicted         \* history: sessions that lost their source

registry == <<sources, tracked, order, sourceDrops, owner, phase>>
queueing == <<outbox, ticket, transitions, queuedCount, taken>>
history  == <<edge, heard, disturbed, evicted>>
vars     == <<registry, queueing, history>>

Silence == [started |-> {}, paused |-> {}, muted |-> {}]

NewSource ==
  [conns |-> {}, dropped |-> 0, issues |-> {}, devices |-> {}, paused |-> {}, muted |-> {},
   effects |-> {}, started |-> {}, triggered |-> {}, clipping |-> FALSE]

Init ==
  /\ sources = [k \in Keys |-> NewSource]
  /\ tracked = {} /\ order = {} /\ sourceDrops = FALSE
  /\ owner = [c \in Conns |-> NoKey] /\ phase = [c \in Conns |-> "new"]
  /\ outbox = <<>> /\ ticket = 0 /\ transitions = <<>> /\ queuedCount = 0
  /\ taken = FALSE
  /\ edge = [k \in Keys |-> "ClippingEnded"] /\ heard = [k \in Keys |-> Silence]
  /\ disturbed = {} /\ evicted = {}

-----------------------------------------------------------------------------
(* What a frame does to the state of its source.                           *)

SilentCapacity(s) == s

Capacity(s) == [s EXCEPT !.issues = @ \union {"StateCapacityExceeded"}]

DeviceRoom(s, d) == d \in s.devices \/ Cardinality(s.devices) < MaximumDevices

WithDevice(s, d) ==
  IF DeviceRoom(s, d) THEN [s EXCEPT !.devices = @ \union {d}] ELSE Capacity(s)

TightRoom(s, e) ==
  e \in s.effects \/ (Cardinality(s.effects) + 1 < MaximumEffects /\ DeviceRoom(s, e[1]))

EffectRoom(s, e) ==
  /\ e \in s.effects \/ Cardinality(s.effects) < MaximumEffects
  /\ DeviceRoom(s, e[1])

(* A new EffectState replaces an older one of the same effect.             *)
WithEffect(s, e) ==
  IF EffectRoom(s, e)
  THEN [s EXCEPT !.devices = @ \union {e[1]}, !.effects = @ \union {e}]
  ELSE Capacity(s)

Begin(s, e) == [s EXCEPT !.started = @ \union {e}]

StopEffects(s, E) == [s EXCEPT !.started = @ \ E]

OnDevice(d) == {e \in Effects : e[1] = d}

(* Only a frame that carries the trigger button changes it.                *)
SetTrigger(s, e, trigger) ==
  [s EXCEPT !.triggered = CASE trigger = "button" -> @ \union {e}
                            [] trigger = "none"   -> @ \ {e}
                            [] trigger = "absent" -> @]

EffectCreated(s, f) ==
  IF EffectRoom(s, f.effect)
  THEN SetTrigger([StopEffects(WithEffect(s, f.effect), {f.effect})
                     EXCEPT !.triggered = @ \ {f.effect}], f.effect, f.trigger)
  ELSE Capacity(s)

(* SetParameters creates an effect it does not know, and may start it.     *)
EffectParameters(s, f) ==
  IF f.effect \in s.effects \/ EffectRoom(s, f.effect)
  THEN LET t == SetTrigger(WithEffect(s, f.effect), f.effect, f.trigger)
       IN IF f.start THEN Begin(t, f.effect) ELSE t
  ELSE Capacity(s)

(* A Start of an unknown effect creates it; a solo Start stops the others. *)
StartEffect(s, f) ==
  IF f.effect \in s.effects \/ EffectRoom(s, f.effect)
  THEN LET others == IF f.solo THEN OnDevice(f.effect[1]) \ {f.effect} ELSE {}
       IN Begin(StopEffects(WithEffect(s, f.effect), others), f.effect)
  ELSE Capacity(s)

ReleaseEffect(s, e) ==
  [s EXCEPT !.effects = @ \ {e}, !.started = @ \ {e}, !.triggered = @ \ {e}]

(* The bits of a device command, in the order in which they are tested.    *)
DeviceCommand(s, f) ==
  LET d == f.device
      device == WithDevice(s, d)
      stopped == IF f.bits \intersect {"Reset", "StopAll"} # {}
                 THEN [StopEffects(device, OnDevice(d)) EXCEPT !.paused = @ \ {d}]
                 ELSE device
      paused == IF "Pause" \in f.bits THEN stopped.paused \union {d} ELSE stopped.paused
      muted == IF f.bits \intersect {"Reset", "Off"} # {} THEN s.muted \union {d} ELSE s.muted
  IN IF DeviceRoom(s, d)
     THEN [stopped EXCEPT !.paused = IF "Continue" \in f.bits THEN paused \ {d} ELSE paused,
                          !.muted = IF "On" \in f.bits THEN muted \ {d} ELSE muted]
     ELSE device

(* A lost frame may have been a Stop: all that was known is forgotten.     *)
InvalidateAfterDrop(s) ==
  [NewSource EXCEPT !.conns = s.conns, !.dropped = s.dropped,
                    !.issues = s.issues \union {"FrameGap"}]

(* A count that a notice of this session already stated is no new loss.    *)
IsNewLoss(s, n) == n > s.dropped

DropNotice(s, f) ==
  IF IsNewLoss(s, f.count)
  THEN [InvalidateAfterDrop(s) EXCEPT !.dropped = f.count]
  ELSE s

(* Apply(): a frame that reports a failed call changes nothing.            *)
Apply(s, f) ==
  CASE f.type = "DropNotice"       -> DropNotice(s, f)
    [] f.type = "Failed"           -> s
    [] f.type = "DeviceCreated"    -> WithDevice(s, f.device)
    [] f.type = "EffectCreated"    -> EffectCreated(s, f)
    [] f.type = "EffectParameters" -> EffectParameters(s, f)
    [] f.type = "Start"            -> StartEffect(s, f)
    [] f.type = "Stop"             -> StopEffects(s, {f.effect})
    [] f.type = "Release"          -> ReleaseEffect(s, f.effect)
    [] f.type = "DeviceCommand"    -> DeviceCommand(s, f)

(* There is no replay of the state on a reconnect.                         *)
ResetAfterDisconnect(s) ==
  [s EXCEPT !.started = {}, !.clipping = FALSE, !.issues = @ \union {"SessionReconnect"}]

Connected(s) == s.conns # {}

EstimateReliable(s) == s.issues = {} /\ s.triggered = {}

(* DataReliable of the snapshot, were k the selected source.               *)
DataReliable(k) ==
  k \in tracked /\ Connected(sources[k]) /\ ~sourceDrops /\ EstimateReliable(sources[k])

-----------------------------------------------------------------------------
(* The calls made under _gate.                                             *)

GateIsFree == outbox = <<>>

Transition(kind, k) == [kind |-> kind, source |-> k]

When(condition, s) == IF condition THEN s ELSE <<>>

Enqueued(kind, k) == \E i \in DOMAIN outbox' : outbox'[i] = Transition(kind, k)

(* The last clipping transition that each source has announced.            *)
RecordEdges ==
  edge' = [k \in Keys |-> IF Enqueued("ClippingStarted", k) THEN "ClippingStarted"
                          ELSE IF Enqueued("ClippingEnded", k) THEN "ClippingEnded"
                          ELSE edge[k]]

(* What a frame says of playback, remembered without bound or reset.       *)
Meaning(w, f) ==
  LET on(d) == {e \in w.started : e[1] = d}
  IN CASE f.type = "Start" ->
            [w EXCEPT !.started = {f.effect} \union (IF f.solo THEN @ \ on(f.effect[1]) ELSE @)]
       [] f.type = "EffectParameters" ->
            [w EXCEPT !.started = IF f.start THEN @ \union {f.effect} ELSE @]
       [] f.type \in {"EffectCreated", "Stop", "Release"} ->
            [w EXCEPT !.started = @ \ {f.effect}]
       [] f.type = "DeviceCommand" ->
            [started |-> IF f.bits \intersect {"Reset", "StopAll"} # {}
                         THEN w.started \ on(f.device) ELSE w.started,
             paused  |-> IF "Continue" \in f.bits THEN w.paused \ {f.device}
                         ELSE IF "Pause" \in f.bits THEN w.paused \union {f.device}
                         ELSE IF f.bits \intersect {"Reset", "StopAll"} # {}
                         THEN w.paused \ {f.device} ELSE w.paused,
             muted   |-> IF "On" \in f.bits THEN w.muted \ {f.device}
                         ELSE IF f.bits \intersect {"Reset", "Off"} # {}
                         THEN w.muted \union {f.device} ELSE w.muted]
       [] OTHER -> w

Hear(k, f) == heard' = [heard EXCEPT ![k] = Meaning(@, f)]

AlwaysEnds(before, after) == ~after.clipping

EndsEpisode(before, after) == before.clipping /\ ~after.clipping

(* Session k is the latest of the sessions S that was active.              *)
Latest(k, S) ==
  LET others == S \ {k} IN (order \intersect (others \X others)) \union (others \X {k})

Touch(k) == order' = Latest(k, tracked)

SourceRoom(S) == Cardinality(S) < MaximumSources

Evictable == {k \in tracked : ~Connected(sources[k])}

(* TryMakeSourceRoom(): the source that makes room for session k, the one  *)
(* that has been silent for longest.                                       *)
Victims(k) ==
  IF k \in tracked \/ SourceRoom(tracked)
  THEN {} ELSE {l \in Evictable : \A m \in Evictable \ {l} : <<l, m>> \in order}

RefuseSilently == UNCHANGED sourceDrops

(* The global flag outlives every source.                                  *)
Refuse == sourceDrops' = TRUE

(* Hello of connection c: session k gets a source or another connection.   *)
Join(k, c) ==
  LET kept == tracked \ Victims(k)
  IN IF k \in tracked \/ SourceRoom(kept)
     THEN /\ tracked' = kept \union {k}
          /\ sources' = [l \in Keys |->
               IF l = k THEN [sources[k] EXCEPT !.conns = @ \union {c}]
               ELSE IF l \in Victims(k) THEN NewSource ELSE sources[l]]
          /\ order' = Latest(k, tracked')
          /\ outbox' = When(~Connected(sources[k]), <<Transition("SourceConnected", k)>>)
          /\ evicted' = evicted \union Victims(k)
          /\ UNCHANGED sourceDrops
     ELSE /\ Refuse
          /\ UNCHANGED <<sources, tracked, order, outbox, evicted>>

Connect(k, c) ==
  /\ GateIsFree /\ phase[c] = "new"
  /\ owner' = [owner EXCEPT ![c] = k]
  /\ phase' = [phase EXCEPT ![c] = "open"]
  /\ Join(k, c)
  /\ UNCHANGED <<ticket, transitions, queuedCount, taken, edge, heard, disturbed>>

(* The last connection of a session takes its playback state along.        *)
Leave(k, c) ==
  LET left == [sources[k] EXCEPT !.conns = @ \ {c}]
  IN IF k \notin tracked
     THEN UNCHANGED <<sources, outbox>>
     ELSE IF Connected(left)
     THEN sources' = [sources EXCEPT ![k] = left] /\ UNCHANGED outbox
     ELSE /\ sources' = [sources EXCEPT ![k] = ResetAfterDisconnect(left)]
          /\ outbox' = When(left.clipping, <<Transition("ClippingEnded", k)>>)
                         \o <<Transition("SourceDisconnected", k)>>

(* A session all of whose connections are gone may have done anything.     *)
Disconnect(c) ==
  /\ GateIsFree /\ phase[c] = "open"
  /\ phase' = [phase EXCEPT ![c] = "closed"]
  /\ Leave(owner[c], c)
  /\ RecordEdges
  /\ disturbed' = IF \E d \in Conns \ {c} : phase[d] = "open" /\ owner[d] = owner[c]
                  THEN disturbed ELSE disturbed \union {owner[c]}
  /\ UNCHANGED <<tracked, order, sourceDrops, owner, ticket, transitions, queuedCount, taken,
                 heard, evicted>>

(* A frame of a refused or disconnected session is not looked at.          *)
Receive(k, f) ==
  IF k \notin tracked \/ ~Connected(sources[k])
  THEN UNCHANGED <<sources, order, outbox>>
  ELSE LET after == Apply(sources[k], f) IN
       /\ sources' = [sources EXCEPT ![k] = after]
       /\ Touch(k)
       /\ outbox' = When(EndsEpisode(sources[k], after), <<Transition("ClippingEnded", k)>>)

ProcessFrame(c, f) ==
  /\ GateIsFree /\ phase[c] = "open"
  /\ Receive(owner[c], f)
  /\ RecordEdges
  /\ Hear(owner[c], f)
  /\ disturbed' = IF f.type = "DropNotice" /\ f.count > 0
                  THEN disturbed \union {owner[c]} ELSE disturbed
  /\ UNCHANGED <<tracked, sourceDrops, owner, phase, ticket, transitions, queuedCount, taken,
                 evicted>>

MayClip(k) == EstimateReliable(sources[k])

ClippingAfterTick(C) ==
  [k \in Keys |-> IF k \in tracked THEN [sources[k] EXCEPT !.clipping = k \in C] ELSE sources[k]]

(* The order in which the dictionary of sources is walked.                 *)
Orders(S) == {q \in [1 .. Cardinality(S) -> S] : \A x \in S : \E i \in DOMAIN q : q[i] = x}

(* Every source is evaluated; an unreliable one stops clipping.            *)
Tick ==
  /\ GateIsFree
  /\ \E C \in SUBSET {k \in tracked : MayClip(k)} :
       LET clipped == {k \in tracked : sources[k].clipping}
       IN /\ sources' = ClippingAfterTick(C)
          /\ outbox' \in Orders({Transition("ClippingStarted", k) : k \in C \ clipped}
                            \union {Transition("ClippingEnded", k) : k \in clipped \ C})
  /\ RecordEdges
  /\ UNCHANGED <<tracked, order, sourceDrops, owner, phase, ticket, transitions, queuedCount,
                 taken, heard, disturbed, evicted>>

-----------------------------------------------------------------------------
(* The transition queue.                                                   *)

(* Interlocked.Increment comes first, then the test of what it returned.   *)
EnqueueCount ==
  /\ outbox # <<>> /\ ticket = 0
  /\ queuedCount' = queuedCount + 1 /\ ticket' = queuedCount'
  /\ UNCHANGED <<registry, outbox, transitions, taken, history>>

TicketFits == ticket <= MaximumQueuedTransitions

EnqueueInsert ==
  /\ ticket # 0 /\ TicketFits
  /\ transitions' = Append(transitions, Head(outbox))
  /\ outbox' = Tail(outbox) /\ ticket' = 0
  /\ UNCHANGED <<registry, queuedCount, taken, history>>

NoUncount == UNCHANGED queuedCount

Uncount == queuedCount' = queuedCount - 1

(* The transition is shed, even if the queue was drained since the test.   *)
EnqueueShed ==
  /\ ticket # 0 /\ ~TicketFits
  /\ outbox' = Tail(outbox) /\ ticket' = 0
  /\ Uncount
  /\ UNCHANGED <<registry, transitions, taken, history>>

DequeueTake ==
  /\ ~taken /\ transitions # <<>>
  /\ transitions' = Tail(transitions) /\ taken' = TRUE
  /\ UNCHANGED <<registry, outbox, ticket, queuedCount, history>>

DequeueCount ==
  /\ taken
  /\ taken' = FALSE /\ Uncount
  /\ UNCHANGED <<registry, outbox, ticket, transitions, history>>

-----------------------------------------------------------------------------
Next ==
  \/ \E c \in Conns : \/ \E k \in Keys : Connect(k, c)
                      \/ Disconnect(c)
                      \/ \E f \in Frames : ProcessFrame(c, f)
  \/ Tick
  \/ EnqueueCount \/ EnqueueInsert \/ EnqueueShed
  \/ DequeueTake \/ DequeueCount

Spec == Init /\ [][Next]_vars

-----------------------------------------------------------------------------
Playback == [started : SUBSET Effects, paused : SUBSET Devices, muted : SUBSET Devices]

Sources ==
  [conns : SUBSET Conns, dropped : Nat, issues : SUBSET Issues, devices : SUBSET Devices,
   paused : SUBSET Devices, muted : SUBSET Devices, effects : SUBSET Effects,
   started : SUBSET Effects, triggered : SUBSET Effects, clipping : BOOLEAN]

Transitions ==
  [kind : {"SourceConnected", "SourceDisconnected", "ClippingStarted", "ClippingEnded"},
   source : Keys]

(* The types, and the bounds of the state a peer can make the plug-in keep *)
(* (MaximumSources, MaximumDevices, MaximumEffects and                     *)
(* MaximumQueuedTransitions).                                              *)
TypeOK ==
  /\ sources \in [Keys -> Sources] /\ tracked \subseteq Keys
  /\ order \subseteq tracked \X tracked
  /\ \A k, l \in tracked : <<k, l>> \in order <=> k # l /\ <<l, k>> \notin order
  /\ sourceDrops \in BOOLEAN /\ owner \in [Conns -> Keys \union {NoKey}]
  /\ phase \in [Conns -> {"new", "open", "closed"}]
  /\ outbox \in Seq(Transitions) /\ ticket \in Nat
  /\ transitions \in Seq(Transitions) /\ queuedCount \in Nat /\ taken \in BOOLEAN
  /\ edge \in [Keys -> {"ClippingStarted", "ClippingEnded"}]
  /\ heard \in [Keys -> Playback] /\ disturbed \subseteq Keys /\ evicted \subseteq Keys
  /\ Cardinality(tracked) <= MaximumSources
  /\ \A k \in Keys : /\ Cardinality(sources[k].devices) <= MaximumDevices
                     /\ Cardinality(sources[k].effects) <= MaximumEffects
  /\ Len(transitions) <= MaximumQueuedTransitions

(* The atomic counter beside the lock-free queue (EnqueueTransition and    *)
(* TryDequeueTransition) counts the queued transitions and those between   *)
(* the two steps of an insertion or a removal, and never drifts: a lost    *)
(* decrement would close the queue for good, a double one would unbound it.*)
QueueCountExact ==
  queuedCount = Len(transitions) + (IF ticket # 0 THEN 1 ELSE 0) + (IF taken THEN 1 ELSE 0)

(* Connect, ProcessFrame, Disconnect and Tick announce every change of     *)
(* IsClipping: the last edge of a source tells whether it is clipping, so  *)
(* no episode stays open when its source loses frames, disconnects or is   *)
(* evicted; and no call announces the start of an episode that is on, the  *)
(* end of one that is over, or an episode of a session that has no source. *)
EdgesTellClipping ==
  /\ [](\A k \in Keys : sources[k].clipping <=> edge[k] = "ClippingStarted")
  /\ [][\A k \in Keys, kind \in {"ClippingStarted", "ClippingEnded"} :
          GateIsFree /\ Enqueued(kind, k) => edge[k] # kind /\ k \in tracked]_vars

(* What the snapshot presents as reliable is true: a session that has not  *)
(* been evicted is reliable only if it never lost a frame (DropNotice) or  *)
(* all its connections, and then the bounded, resettable state of the      *)
(* engine says the same of playback as all the frames the session ever     *)
(* sent.  No frame was refused, forgotten at a limit or taken while the    *)
(* session was away.                                                       *)
ReliableIsTrue ==
  \A k \in Keys \ evicted :
    DataReliable(k) =>
      /\ k \notin disturbed
      /\ [started |-> sources[k].started, paused |-> sources[k].paused,
          muted |-> sources[k].muted] = heard[k]

(* README.md:101-102: a source that lost frames or reconnected stays       *)
(* unreliable until there is a new producer session.  TryMakeSourceRoom    *)
(* forgets it with the source of a disconnected session.                   *)
UnreliableUntilNewSession == \A k \in disturbed : ~DataReliable(k)
=============================================================================
