----------------------------- MODULE MCServers -------------------------------
(* The two servers that read telemetry, the plug-in's (SecurePipeServer)   *)
(* and the viewer's (Viewer), each stopped at any moment, for one run of   *)
(* TLC.  They share no variable, so part chooses, once, which takes steps. *)
EXTENDS SecurePipeServer

CONSTANTS Clients, MaxClients, MaxFrames, QueueSize, StoreCapacity, Wakes

VARIABLES
  part,
  stopping, acceptor, guest, vListener, vPeer, vPipe, reader, handle, batch,  \* Viewer
  loaded, queue, window, events, dropped, closing, targets, wakes, timedOut,
  written, lost, missed

viewerVars ==
  <<stopping, acceptor, guest, vListener, vPeer, vPipe, reader, handle, batch, loaded, queue,
    window, events, dropped, closing, targets, wakes, timedOut, written, lost, missed>>

V == INSTANCE Viewer WITH listener <- vListener, peer <- vPeer, pipe <- vPipe, MayClose <- TRUE

ServersInit ==
  /\ part \in {"plug-in", "viewer"}
  /\ Init /\ V!Init
  /\ \A c \in Clients : lost[c] = 0

(* The plug-in's server may never come to rest; the viewer's does.         *)
ServersNext ==
  /\ \/ part = "plug-in" /\ Next /\ UNCHANGED viewerVars
     \/ part = "viewer" /\ V!Next /\ UNCHANGED vars
     \/ part = "viewer" /\ UNCHANGED <<vars, viewerVars>>
  /\ UNCHANGED part

(* The fairness of both, for the one that takes steps.                     *)
PluginFairness ==
  /\ WF_vars(part = "plug-in" /\ StopStep)
  /\ \A a \in Acceptors : WF_vars(part = "plug-in" /\ AcceptStep(a))
  /\ \A p \in Pipes : WF_vars(part = "plug-in" /\ ClientStep(p))

ViewerFairness ==
  /\ WF_viewerVars(part = "viewer" /\ V!AcceptorStep)
  /\ WF_viewerVars(part = "viewer" /\ V!StopStep)
  /\ \A c \in Clients : WF_viewerVars(part = "viewer" /\ V!ReaderStep(c))

ServersSpec ==
  /\ ServersInit /\ [][ServersNext]_<<part, vars, viewerVars>>
  /\ PluginFairness /\ ViewerFairness

(* No stop of the plug-in leaves an acceptor that frees or uses what is not*)
(* its own; a stop of either server that has returned, without a wait that *)
(* timed out, leaves no thread, connection or pipe behind; and whoever is  *)
(* waited for in either, by a stop or by a sink, can go on.                *)
StopsAreSound ==
  /\ AcceptorIsOwned /\ StopIsFinal /\ V!StopLeavesNothing
  /\ NobodyIsStranded /\ V!NobodySleeps

(* Every thread of the viewer's server comes to an end.                    *)
StopEndsThreads == V!StopEndsThreads
=============================================================================
