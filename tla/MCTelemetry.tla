----------------------------- MODULE MCTelemetry -----------------------------
(* Two instances of Telemetry in one run of TLC: a deep one, of several    *)
(* threads and nodes at one sink, and a wide one, W, of one thread and one *)
(* node at each of two sinks, of which one may run without the other.  They*)
(* share no variable, so size chooses, once, which of them takes steps.    *)
EXTENDS Telemetry

CONSTANTS WideThreads, WideNodes

VARIABLES
  size,
  wm_sequence, wemitLock, wstarting, wat, wseq, wcursor, whand, wrunning, wworkers,
  wfree, wpending, wevent, wdropped,
  wwpc, wbatch, wdrops, wreported, wnoticeSeq, wclaim, wlastWire, wtold,
  wemits, wstarts, wfaults, woffered, wsent, wlost

wideVars ==
  <<wm_sequence, wemitLock, wstarting, wat, wseq, wcursor, whand, wrunning, wworkers,
    wfree, wpending, wevent, wdropped,
    wwpc, wbatch, wdrops, wreported, wnoticeSeq, wclaim, wlastWire, wtold,
    wemits, wstarts, wfaults, woffered, wsent, wlost>>

W == INSTANCE Telemetry WITH
  Threads <- WideThreads, kSinkCount <- 2, Nodes <- WideNodes, MaxStarts <- 1, MaxFaults <- 1,
  m_sequence <- wm_sequence, emitLock <- wemitLock, starting <- wstarting, at <- wat, seq <- wseq,
  cursor <- wcursor, hand <- whand, running <- wrunning, workers <- wworkers, free <- wfree,
  pending <- wpending, event <- wevent, dropped <- wdropped, wpc <- wwpc, batch <- wbatch,
  drops <- wdrops, reported <- wreported, noticeSeq <- wnoticeSeq, claim <- wclaim,
  lastWire <- wlastWire, told <- wtold, emits <- wemits, starts <- wstarts, faults <- wfaults,
  offered <- woffered, sent <- wsent, lost <- wlost

SenderInit == size \in {"deep", "wide"} /\ Init /\ W!Init

SenderNext ==
  /\ \/ size = "deep" /\ Next /\ UNCHANGED wideVars
     \/ size = "wide" /\ W!Next /\ UNCHANGED vars
  /\ UNCHANGED size

SenderSpec ==
  /\ SenderInit /\ [][SenderNext]_<<size, vars, wideVars>>
  /\ ThreadFairness /\ W!ThreadFairness

(* emit() returns to the game, whichever sinks run.                        *)
EmitsReturn == EmitReturns /\ W!EmitReturns

(* The receivers of both sinks learn of every loss, a sink that started    *)
(* late or not at all included.                                            *)
AllLossesDisclosed == LossesDisclosed /\ W!LossesDisclosed
=============================================================================
