------------------------------ MODULE EndToEnd -------------------------------
(***************************************************************************)
(* The way of the telemetry from the game to what SimHub shows: the sink   *)
(* of one producer session (src/src/telemetry.cpp), the named pipes it     *)
(* connects to one after the other, the reader threads of the plug-in      *)
(* (RunClient of SecurePipeServer.cs) and the engine (ClippingEngine).     *)
(*                                                                         *)
(* The sink is the log that module LossyLog specifies and Telemetry        *)
(* implements: frames leave it in order, a loss is counted, and a notice   *)
(* states the count when nothing is queued.  A broken pipe is noticed by   *)
(* the next write only, and SimHub may be restarted while the game runs.   *)
(***************************************************************************)
EXTENDS ClippingEngine

CONSTANTS
  Session,         \* the producer session
  NoConn,          \* the sink has no pipe
  Commands,        \* the DirectInput calls of the game, as frames
  QueueCapacity,   \* nodes of the sink (kQueueCapacity)
  MaxEmits, MaxFaults

ASSUME PathConstants ==
  /\ Session \in Keys /\ NoConn \notin Conns
  /\ \A f \in Commands : f \in AnyFrame /\ f.type # "DropNotice"

VARIABLES
  truth,           \* what the game has started, paused and muted
  running,         \* Sink::running
  queue,           \* frames queued in the sink
  dropped,         \* Sink::dropped
  reported,        \* drops reported on this connection
  wire,            \* the connection the sink writes to
  writing,         \* writing[c]: the sink has connection c open
  buffer,          \* buffer[c]: frames written to c and not yet handled
  serverEnd,       \* "open", "failed" (no longer read) or "disposed"
  missed,          \* history: the game made a call before the sink ran
  emits, faults

sinkVars == <<running, queue, dropped, reported, wire, writing>>
pipeVars == <<buffer, serverEnd>>
allVars  == <<vars, truth, missed, sinkVars, pipeVars, emits, faults>>

Hello == [type |-> "Hello"]

E2EInit ==
  /\ Init
  /\ truth = Silence /\ running = FALSE /\ missed = FALSE
  /\ queue = <<>> /\ dropped = 0 /\ reported = 0 /\ wire = NoConn
  /\ writing = [c \in Conns |-> FALSE]
  /\ buffer = [c \in Conns |-> <<>>] /\ serverEnd = [c \in Conns |-> "open"]
  /\ emits = 0 /\ faults = 0

Fault == faults < MaxFaults /\ faults' = faults + 1

-----------------------------------------------------------------------------
(* The sink.                                                               *)

(* A node is free (InterlockedPopEntrySList of the free list).             *)
HasNode == Len(queue) < QueueCapacity

(* A DirectInput call that succeeded, and its frame.  Before the sink runs *)
(* (start() may still be running for another thread, or may have failed)   *)
(* the frame is neither queued nor counted.                                *)
Emit(f) ==
  /\ emits < MaxEmits /\ emits' = emits + 1
  /\ truth' = Meaning(truth, f)
  /\ missed' = (missed \/ ~running)
  /\ IF ~running THEN UNCHANGED <<queue, dropped>>
     ELSE IF HasNode
     THEN queue' = Append(queue, f) /\ UNCHANGED dropped
     ELSE dropped' = dropped + 1 /\ UNCHANGED queue
  /\ UNCHANGED <<vars, running, reported, wire, writing, pipeVars, faults>>

StartSink ==
  /\ ~running /\ running' = TRUE
  /\ UNCHANGED <<vars, truth, missed, queue, dropped, reported, wire, writing, pipeVars, emits,
                 faults>>

(* A free instance of the pipe: the connection begins with Hello.          *)
Open(c) ==
  /\ running /\ wire = NoConn
  /\ phase[c] = "new" /\ ~writing[c] /\ buffer[c] = <<>>
  /\ serverEnd[c] = "open"
  /\ wire' = c /\ writing' = [writing EXCEPT ![c] = TRUE]
  /\ buffer' = [buffer EXCEPT ![c] = <<Hello>>]
  /\ reported' = 0
  /\ UNCHANGED <<vars, truth, missed, running, queue, dropped, serverEnd, emits, faults>>

LoseUncounted(n) ==
  /\ queue' = SubSeq(queue, n + 1, Len(queue))
  /\ UNCHANGED dropped

(* The first n queued frames are lost and counted.                         *)
Lose(n) ==
  /\ queue' = SubSeq(queue, n + 1, Len(queue))
  /\ dropped' = dropped + n

(* No server listens: what is pending is discarded.                        *)
OpenFails ==
  /\ running /\ wire = NoConn /\ queue # <<>> /\ Fault
  /\ Lose(Len(queue))
  /\ UNCHANGED <<vars, truth, missed, running, reported, wire, writing, pipeVars, emits>>

(* What WriteFile puts in the buffer of a pipe nobody reads is gone.       *)
Put(c, f) ==
  buffer' = IF serverEnd[c] = "open" THEN [buffer EXCEPT ![c] = Append(@, f)] ELSE buffer

CanWrite == wire # NoConn /\ serverEnd[wire] # "disposed"

Send ==
  /\ CanWrite /\ queue # <<>>
  /\ Put(wire, Head(queue))
  /\ queue' = Tail(queue)
  /\ UNCHANGED <<vars, truth, missed, running, dropped, reported, wire, writing, serverEnd,
                 emits, faults>>

CloseWire ==
  /\ wire' = NoConn /\ writing' = [writing EXCEPT ![wire] = FALSE]

(* The write fails because the pipe is broken, or the frame could not be   *)
(* built; the rest of the batch is lost with it.                           *)
SendFails ==
  /\ wire # NoConn
  /\ \E n \in 1 .. Len(queue) : Lose(n)
  /\ IF CanWrite THEN Fault ELSE UNCHANGED faults
  /\ CloseWire
  /\ UNCHANGED <<vars, truth, missed, running, reported, pipeVars, emits>>

NoticeIsDue == wire # NoConn /\ queue = <<>> /\ dropped # reported

Notify ==
  /\ NoticeIsDue /\ CanWrite
  /\ Put(wire, [type |-> "DropNotice", count |-> dropped])
  /\ reported' = dropped
  /\ UNCHANGED <<vars, truth, missed, running, queue, dropped, wire, writing, serverEnd,
                 emits, faults>>

NotifyFails ==
  /\ NoticeIsDue
  /\ IF CanWrite THEN Fault ELSE UNCHANGED faults
  /\ reported' = dropped
  /\ CloseWire
  /\ UNCHANGED <<vars, truth, missed, running, queue, dropped, pipeVars, emits>>

-----------------------------------------------------------------------------
(* The plug-in.                                                            *)

(* RunClient: Hello registers the connection, other frames are processed.  *)
Read(c) ==
  /\ buffer[c] # <<>>
  /\ IF phase[c] = "new" THEN Connect(Session, c) ELSE ProcessFrame(c, Head(buffer[c]))
  /\ buffer' = [buffer EXCEPT ![c] = Tail(@)]
  /\ UNCHANGED <<truth, missed, sinkVars, serverEnd, emits, faults>>

NothingMore(c) ==
  buffer[c] = <<>> /\ (serverEnd[c] # "open" \/ (phase[c] = "open" /\ ~writing[c]))

(* The finally block of RunClient: the engine hears of the end first ...   *)
Leaving(c) ==
  /\ NothingMore(c)
  /\ Disconnect(c)
  /\ UNCHANGED <<truth, missed, sinkVars, pipeVars, emits, faults>>

(* A reader that has not read Hello has nothing to tell the engine.        *)
LeavingUnknown(c) ==
  /\ phase[c] = "new" /\ NothingMore(c)
  /\ phase' = [phase EXCEPT ![c] = "closed"]
  /\ UNCHANGED <<sources, tracked, order, sourceDrops, owner, queueing, history,
                 truth, missed, sinkVars, pipeVars, emits, faults>>

(* ... then the pipe is disposed, and the next write to it fails.          *)
Dispose(c) ==
  /\ phase[c] = "closed" /\ serverEnd[c] # "disposed"
  /\ serverEnd' = [serverEnd EXCEPT ![c] = "disposed"]
  /\ UNCHANGED <<vars, truth, missed, sinkVars, buffer, emits, faults>>

(* A client is connected, from the accepted pipe to the end of its reader. *)
Accepted(c) ==
  \/ phase[c] = "open"
  \/ phase[c] = "new" /\ (writing[c] \/ buffer[c] # <<>> \/ serverEnd[c] # "open")

(* The reader meets an error: what is in the pipe is never read.           *)
ReadFails(c) ==
  /\ Accepted(c) /\ serverEnd[c] = "open" /\ Fault
  /\ serverEnd' = [serverEnd EXCEPT ![c] = "failed"]
  /\ buffer' = [buffer EXCEPT ![c] = <<>>]
  /\ UNCHANGED <<vars, truth, missed, sinkVars, emits>>

(* Stop() disposes the pipe under the reader, which still handles the      *)
(* frames of the chunk that it has read.                                   *)
StopClient(c) ==
  /\ Accepted(c) /\ serverEnd[c] = "open" /\ Fault
  /\ serverEnd' = [serverEnd EXCEPT ![c] = "disposed"]
  /\ \E n \in 0 .. Len(buffer[c]) : buffer' = [buffer EXCEPT ![c] = SubSeq(@, 1, n)]
  /\ UNCHANGED <<vars, truth, missed, sinkVars, emits>>

(* SimHub ends and starts again: a new engine, and every pipe is broken.   *)
Restart ==
  /\ Fault
  /\ sources' = [k \in Keys |-> NewSource]
  /\ tracked' = {} /\ order' = {} /\ sourceDrops' = FALSE
  /\ owner' = [c \in Conns |-> NoKey]
  /\ phase' = [c \in Conns |-> IF Accepted(c) \/ phase[c] = "closed" THEN "closed" ELSE "new"]
  /\ outbox' = <<>> /\ ticket' = 0 /\ transitions' = <<>> /\ queuedCount' = 0 /\ taken' = FALSE
  /\ edge' = [k \in Keys |-> "ClippingEnded"] /\ heard' = [k \in Keys |-> Silence]
  /\ disturbed' = {} /\ evicted' = {}
  /\ serverEnd' = [c \in Conns |-> IF phase'[c] = "closed" THEN "disposed" ELSE "open"]
  /\ buffer' = [c \in Conns |-> <<>>]
  /\ UNCHANGED <<truth, missed, sinkVars, emits>>

(* The timer and the transition queue of the engine.                       *)
Engine ==
  /\ Tick \/ EnqueueCount \/ EnqueueShed
  /\ UNCHANGED <<truth, missed, sinkVars, pipeVars, emits, faults>>

E2ENext ==
  \/ \E f \in Commands : Emit(f)
  \/ StartSink \/ OpenFails \/ Send \/ SendFails \/ Notify \/ NotifyFails
  \/ \E c \in Conns : \/ Open(c) \/ Read(c) \/ Leaving(c) \/ LeavingUnknown(c)
                      \/ Dispose(c) \/ ReadFails(c) \/ StopClient(c)
  \/ Restart \/ Engine

E2ESpec == E2EInit /\ [][E2ENext]_allVars

-----------------------------------------------------------------------------
Shown == [started |-> sources[Session].started, paused |-> sources[Session].paused,
          muted |-> sources[Session].muted]

(* Nothing is on its way: the sink has written and reported all it knows,  *)
(* on a connection that the plug-in has read to its end.                   *)
Settled ==
  /\ wire # NoConn /\ phase[wire] = "open" /\ serverEnd[wire] = "open"
  /\ queue = <<>> /\ reported = dropped
  /\ \A c \in Conns : buffer[c] = <<>>

(* README.md:97: the clipping state fails closed; rather than from         *)
(* incomplete data, it is shown as unreliable.  Whenever nothing is on its *)
(* way, a session shown as reliable is shown as the game has left it,      *)
(* whatever broke, was discarded or was restarted before, provided the     *)
(* sink ran from the first call.                                           *)
FailClosed == Settled /\ DataReliable(Session) /\ ~missed => Shown = truth

(* A session is not called unreliable without a cause: on its first        *)
(* connection and with no loss, what is shown is reliable.                 *)
NoFalseAlarm ==
  Settled /\ dropped = 0 /\ faults = 0 => DataReliable(Session)

(* The same promise without the proviso.  A call made before the sink runs *)
(* is not counted as lost, so nothing makes the session unreliable.        *)
AlwaysFailClosed == Settled /\ DataReliable(Session) => Shown = truth
=============================================================================
