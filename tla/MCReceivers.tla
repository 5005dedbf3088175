---------------------------- MODULE MCReceivers ------------------------------
(* What receivers make of telemetry, for one run of TLC: the path from the *)
(* game to the plug-in's snapshot (EndToEnd), the cutting of a pipe's bytes*)
(* into frames (FrameStream), and the viewer's readers and window at a full*)
(* queue (Viewer).  They share no variable, so part chooses, once, which of*)
(* them takes steps.                                                       *)
EXTENDS MCEndToEnd

CONSTANTS Streams, HeaderSize, MaximumFrameSize, ReadBufferSize,
          Clients, MaxClients, QueueSize, StoreCapacity, MaxFrames

ASSUME ViewerConstants ==
  /\ IsFiniteSet(Clients) /\ "gui" \notin Clients
  /\ QueueSize \in Nat /\ StoreCapacity \in Nat \ {0}

VARIABLES
  part,
  stream, read, bytes, result, delivered, pc, failure,                       \* FrameStream
  stopping, acceptor, guest, listener, peer, pipe, reader, handle, batch,    \* Viewer
  loaded, vQueue, window, events, vDropped, closing, targets, wakes, timedOut,
  written, lost, vMissed

streamVars == <<stream, read, bytes, result, delivered, pc, failure>>

viewerVars ==
  <<stopping, acceptor, guest, listener, peer, pipe, reader, handle, batch, loaded, vQueue,
    window, events, vDropped, closing, targets, wakes, timedOut, written, lost, vMissed>>

(* Three frames: the smallest, one in between and the largest, of which    *)
(* the second may be refused.                                              *)
Sound     == [size : {2, 3, 5}, fault : {"none"}]
Refused   == {[size |-> 3, fault |-> "header"], [size |-> 4, fault |-> "payload"]}
MCStreams == {<<a, b, c>> : a \in Sound, b \in Sound \cup Refused, c \in Sound}

F == INSTANCE FrameStream WITH buffer <- bytes

ASSUME StreamConstants ==
  /\ HeaderSize \in Nat \ {0} /\ MaximumFrameSize \in Nat
  /\ ReadBufferSize \in Nat /\ ReadBufferSize <= MaximumFrameSize
  /\ \A s \in Streams : s \in Seq(F!Frame)

V == INSTANCE Viewer WITH
       queue <- vQueue, dropped <- vDropped, missed <- vMissed, Wakes <- 1, MayClose <- FALSE

(* A part that takes no steps needs one initial state only; for the viewer *)
(* one of the proxies has lost an event before.                            *)
ReceiversInit ==
  /\ part \in {"plug-in", "frames", "viewer"}
  /\ E2EInit /\ F!Init /\ V!Init
  /\ part # "frames" => stream = CHOOSE s \in Streams : TRUE
  /\ lost = [c \in Clients |-> IF c = CHOOSE d \in Clients : TRUE THEN 1 ELSE 0]

ReceiversNext ==
  /\ \/ part = "plug-in" /\ E2ENext /\ UNCHANGED <<streamVars, viewerVars>>
     \/ part = "frames" /\ F!Next /\ UNCHANGED <<allVars, viewerVars>>
     \/ part = "viewer" /\ V!Next /\ UNCHANGED <<allVars, streamVars>>
  /\ UNCHANGED part

ReceiversSpec == ReceiversInit /\ [][ReceiversNext]_<<part, allVars, streamVars, viewerVars>>

(* Wherever the pipe cuts the stream, its frames arrive whole and once, and*)
(* a peer is refused for what it wrote and for nothing else.               *)
FramesAreWhole == F!TypeOK /\ F!FramesAreWhole /\ F!RefusedForCause

(* The viewer has the events of each proxy in their order, within the      *)
(* bounds of queue and store, and its count of drops never exceeds what    *)
(* was lost nor hides it.                                                  *)
WindowTellsTheTruth == V!TypeOK /\ V!EventsInOrder /\ V!DropsAreReal
=============================================================================
