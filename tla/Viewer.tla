------------------------------- MODULE Viewer --------------------------------
(***************************************************************************)
(* The diagnostic viewer (viewer/src/ffb_visualizer): PipeServer accepts   *)
(* proxies on one thread and reads each of them on one of its own; readers *)
(* put frames into a bounded queue, which the window empties into a bounded*)
(* EventStore 60 times a second; closing the window stops the server.  The *)
(* counter of drops is shared by the readers and the window without a lock:*)
(* reading and writing it are two steps.                                   *)
(***************************************************************************)
EXTENDS Integers, FiniteSets, SequencesExt

CONSTANTS
  Clients,                        \* connections of proxies
  MaxClients,                     \* PipeServer._MAX_CLIENTS
  QueueSize, StoreCapacity,       \* 20_000 each
  Wakes,                          \* attempts of stop() to wake the acceptor: 4
  MaxFrames, MayClose             \* bounds: frames that the proxies make, a stop

Nobody == "nobody"
Waker  == "waker"      \* the connection by which stop() wakes the acceptor

VARIABLES
  stopping,    \* _stop is set
  acceptor,    \* where _run is
  guest,       \* who is connected to the pipe that _run has created
  listener,    \* _listener is set
  peer,        \* the proxy's end of a connection
  pipe,        \* frames written and not read
  reader,      \* where _read_client is
  handle,      \* the server's end
  batch,       \* frames of the chunk that a reader works on
  loaded,      \* the value of dropped that a thread has read
  queue,       \* pending
  window,      \* where _refresh is
  events, dropped,                \* EventStore
  closing,     \* where stop() is
  targets,     \* handles or threads stop() has still to go through
  wakes,       \* attempts left
  timedOut,    \* a join of stop() has timed out
  written,     \* history: frames a proxy has numbered
  lost,        \* frames a proxy had to drop before
  missed       \* history: frames the viewer has dropped

serverVars  == <<stopping, acceptor, guest, listener>>
peerVars    == <<peer, pipe, written, lost>>
readerVars  == <<reader, handle, batch>>
windowVars  == <<window, events>>
closingVars == <<closing, targets, wakes, timedOut>>
countVars   == <<queue, loaded, dropped, missed>>
vars == <<serverVars, peerVars, readerVars, windowVars, closingVars, countVars>>

Gui == "gui"
Registered == {c \in Clients : reader[c] \notin {"none", "ended"}}    \* _clients

Init ==
  /\ stopping = FALSE /\ acceptor = "loop" /\ guest = Nobody /\ listener = FALSE
  /\ peer = [c \in Clients |-> "away"] /\ pipe = [c \in Clients |-> <<>>]
  /\ reader = [c \in Clients |-> "none"] /\ handle = [c \in Clients |-> "none"]
  /\ batch = [c \in Clients |-> <<>>] /\ loaded = [t \in Clients \cup {Gui} |-> 0]
  /\ queue = <<>> /\ window = "idle" /\ events = <<>> /\ dropped = 0
  /\ closing = "open" /\ targets = {} /\ wakes = Wakes /\ timedOut = FALSE
  /\ written = [c \in Clients |-> 0] /\ lost \in [Clients -> 0..1] /\ missed = 0

-----------------------------------------------------------------------------
(* The proxies: they connect to a pipe that waits, write frames with       *)
(* increasing numbers, some of which tell how many were lost, and go.      *)
Connect(c) ==
  /\ peer[c] = "away" /\ acceptor \in {"created", "listening", "waiting"} /\ guest = Nobody
  /\ peer' = [peer EXCEPT ![c] = "here"] /\ guest' = c
  /\ UNCHANGED <<stopping, acceptor, listener, pipe, written, lost, readerVars, windowVars,
                 closingVars, countVars>>

Write(c) ==
  /\ peer[c] = "here" /\ FoldSet(LAMBDA d, sum : sum + written[d], 0, Clients) < MaxFrames
  /\ written' = [written EXCEPT ![c] = @ + 1]
  /\ \E told \in {0, lost[c]} :
       pipe' = [pipe EXCEPT ![c] = Append(@, [from |-> c, number |-> written'[c], dropped |-> told])]
  /\ UNCHANGED <<serverVars, peer, lost, readerVars, windowVars, closingVars, countVars>>

Leave(c) ==
  /\ peer[c] = "here" /\ peer' = [peer EXCEPT ![c] = "gone"]
  /\ UNCHANGED <<serverVars, pipe, written, lost, readerVars, windowVars, closingVars, countVars>>

-----------------------------------------------------------------------------
(* The acceptor, _run.                                                     *)
Accepts(from, to) == acceptor = from /\ acceptor' = to

(* The test for a stop, and a new pipe if there is none.                   *)
CreatePipe ==
  /\ Accepts("loop", IF stopping THEN "ended" ELSE "created") /\ guest' = Nobody
  /\ UNCHANGED <<stopping, listener, peerVars, readerVars, windowVars, closingVars, countVars>>

SetListener ==
  /\ Accepts("created", "listening") /\ listener' = TRUE
  /\ UNCHANGED <<stopping, guest, peerVars, readerVars, windowVars, closingVars, countVars>>

(* The pipe is closed, and whoever was connected to it finds it broken.    *)
TurnAway ==
  /\ acceptor' = "loop" /\ guest' = Nobody
  /\ peer' = [c \in Clients |-> IF guest = c THEN "gone" ELSE peer[c]]
  /\ UNCHANGED <<pipe, written, lost, readerVars>>

Proceed(to) == acceptor' = to /\ UNCHANGED <<guest, peerVars, readerVars>>

(* Variant with a fault: only the loop tests for a stop.                   *)
NoCheckBeforeWait ==
  /\ acceptor = "listening" /\ Proceed("waiting")
  /\ UNCHANGED <<stopping, listener, windowVars, closingVars, countVars>>

(* Stop may have come, and woken nobody, before the listener was set.      *)
CheckBeforeWait ==
  /\ acceptor = "listening"
  /\ IF stopping THEN TurnAway ELSE Proceed("waiting")
  /\ UNCHANGED <<stopping, listener, windowVars, closingVars, countVars>>

(* ConnectNamedPipe returns, for somebody has connected, now or earlier.   *)
ClientArrives ==
  /\ acceptor = "waiting" /\ guest # Nobody
  /\ acceptor' = "connected" /\ listener' = FALSE
  /\ UNCHANGED <<stopping, guest, peerVars, readerVars, windowVars, closingVars, countVars>>

(* The test for a stop, and the one for room, under _clients_lock.         *)
Full == Cardinality(Registered) >= MaxClients

CheckAfterWait ==
  /\ acceptor = "connected"
  /\ IF stopping \/ Full THEN TurnAway ELSE Proceed("registering")
  /\ UNCHANGED <<stopping, listener, windowVars, closingVars, countVars>>

(* The thread starts while _clients_lock is held; or it cannot be created. *)
Register ==
  /\ acceptor = "registering"
  /\ \/ /\ guest \in Clients
        /\ reader' = [reader EXCEPT ![guest] = "checking"]
        /\ handle' = [handle EXCEPT ![guest] = "open"]
        /\ acceptor' = "loop" /\ guest' = Nobody
        /\ UNCHANGED <<peerVars, batch>>
     \/ TurnAway
  /\ UNCHANGED <<stopping, listener, windowVars, closingVars, countVars>>

(* ConnectNamedPipe fails, and the acceptor tries again; where the pipe    *)
(* could not be created at all it goes round its loop.                     *)
PipeFails ==
  /\ acceptor = "waiting" /\ TurnAway /\ listener' = FALSE
  /\ UNCHANGED <<stopping, windowVars, closingVars, countVars>>

AcceptorStep ==
  CreatePipe \/ SetListener \/ CheckBeforeWait \/ ClientArrives \/ CheckAfterWait \/ Register

-----------------------------------------------------------------------------
(* A reader, _read_client.                                                 *)
Goes(c, from, to) == reader[c] = from /\ reader' = [reader EXCEPT ![c] = to]

CheckStop(c) ==
  /\ Goes(c, "checking", IF stopping THEN "leaving" ELSE "reading")
  /\ UNCHANGED <<serverVars, peerVars, handle, batch, windowVars, closingVars, countVars>>

(* ReadFile returns some of what was written.                              *)
ReadSome(c) ==
  /\ handle[c] = "open" /\ Goes(c, "reading", "handing")
  /\ \E n \in 1..Len(pipe[c]) :
       /\ batch' = [batch EXCEPT ![c] = SubSeq(pipe[c], 1, n)]
       /\ pipe' = [pipe EXCEPT ![c] = SubSeq(@, n + 1, Len(@))]
  /\ UNCHANGED <<serverVars, peer, written, lost, handle, windowVars, closingVars, countVars>>

(* It fails: stop() has closed the handle, or the proxy is gone.           *)
ReadFails(c) ==
  /\ handle[c] = "closed" \/ (peer[c] = "gone" /\ pipe[c] = <<>>)
  /\ Goes(c, "reading", "leaving")
  /\ UNCHANGED <<serverVars, peerVars, handle, batch, windowVars, closingVars, countVars>>

(* _enqueue: put_nowait, or the first half of dropped += 1.                *)
HandFrame(c) ==
  /\ batch[c] # <<>>
  /\ IF Len(queue) < QueueSize
     THEN /\ reader[c] = "handing" /\ queue' = Append(queue, Head(batch[c]))
          /\ batch' = [batch EXCEPT ![c] = Tail(@)]
          /\ UNCHANGED <<reader, loaded>>
     ELSE /\ Goes(c, "handing", "dropping") /\ loaded' = [loaded EXCEPT ![c] = dropped]
          /\ UNCHANGED <<queue, batch>>
  /\ UNCHANGED <<serverVars, peerVars, handle, windowVars, closingVars, dropped, missed>>

(* Variant with a fault: the frame is dropped without a word.              *)
Unchanged(value) == value

Incremented(value) == value + 1

CountDrop(c) ==
  /\ Goes(c, "dropping", "handing")
  /\ dropped' = Incremented(loaded[c]) /\ missed' = missed + 1
  /\ batch' = [batch EXCEPT ![c] = Tail(@)]
  /\ UNCHANGED <<serverVars, peerVars, handle, windowVars, closingVars, queue, loaded>>

(* The chunk has been worked off, or holds a frame that is refused.        *)
NextChunk(c) ==
  /\ \/ batch[c] = <<>> /\ Goes(c, "handing", "checking")
     \/ batch[c] # <<>> /\ Goes(c, "handing", "leaving")
  /\ batch' = [batch EXCEPT ![c] = <<>>]
  /\ UNCHANGED <<serverVars, peerVars, handle, windowVars, closingVars, countVars>>

CloseHandle(c) ==
  /\ Goes(c, "leaving", "closing") /\ handle' = [handle EXCEPT ![c] = "closed"]
  /\ peer' = [peer EXCEPT ![c] = "gone"]
  /\ UNCHANGED <<serverVars, pipe, written, lost, batch, windowVars, closingVars, countVars>>

Unregister(c) ==
  /\ Goes(c, "closing", "ended")
  /\ UNCHANGED <<serverVars, peerVars, handle, batch, windowVars, closingVars, countVars>>

ReaderStep(c) ==
  CheckStop(c) \/ ReadSome(c) \/ ReadFails(c) \/ HandFrame(c) \/ CountDrop(c) \/ NextChunk(c)
    \/ CloseHandle(c) \/ Unregister(c)

-----------------------------------------------------------------------------
(* The window's thread: _refresh takes frames out of the queue, one after  *)
(* the other, and stores it unless the user has paused the display; and    *)
(* closeEvent runs stop().                                                 *)
(* Variant with a fault: the newest is put in front.                       *)
StoredInFront(f) == LET e == <<f>> \o events IN SubSeq(e, 1, Min({Len(e), StoreCapacity}))

(* Variant with a fault: the store grows without an end.                   *)
StoredForever(f) == Append(events, f)

Stored(f) == LET e == Append(events, f)
             IN IF Len(e) > StoreCapacity THEN Tail(e) ELSE e

Refresh ==
  /\ closing = "open" /\ window = "idle" /\ queue # <<>>
  /\ queue' = Tail(queue)
  /\ \/ UNCHANGED <<events, window, loaded>>
     \/ /\ events' = Stored(Head(queue))
        /\ IF Head(queue).dropped > 0
           THEN window' = "counting" /\ loaded' = [loaded EXCEPT ![Gui] = dropped]
           ELSE UNCHANGED <<window, loaded>>
  /\ UNCHANGED <<serverVars, peerVars, readerVars, closingVars, dropped, missed>>

(* The second half of dropped = max(dropped, frame.dropped).               *)
CountTold ==
  /\ window = "counting" /\ window' = "idle"
  /\ dropped' = Max({loaded[Gui], Last(events).dropped})
  /\ UNCHANGED <<serverVars, peerVars, readerVars, events, closingVars,
                 queue, loaded, missed>>

(* stop(): set the event and take down the handles.                        *)
Stop ==
  /\ MayClose /\ closing = "open" /\ window = "idle"
  /\ stopping' = TRUE /\ closing' = "cancelling"
  /\ UNCHANGED <<acceptor, guest, listener, peerVars, readerVars, windowVars, targets, wakes,
                 timedOut, countVars>>

TakeHandles ==
  /\ closing = "cancelling" /\ closing' = "disconnecting" /\ targets' = Registered
  /\ UNCHANGED <<serverVars, peerVars, readerVars, windowVars, wakes, timedOut, countVars>>

(* CancelIoEx, DisconnectNamedPipe, CloseHandle of one of them.            *)
Disconnect ==
  /\ closing = "disconnecting" /\ targets # {}
  /\ \E c \in targets :
       /\ targets' = targets \ {c} /\ handle' = [handle EXCEPT ![c] = "closed"]
       /\ peer' = [peer EXCEPT ![c] = "gone"]
  /\ UNCHANGED <<serverVars, pipe, written, lost, reader, batch, windowVars, closing, wakes,
                 timedOut, countVars>>

(* _wake_listener: connect to the pipe, unless there is none or somebody   *)
(* else is faster.                                                         *)
WakeListener ==
  /\ \/ closing = "disconnecting" /\ targets = {}
     \/ closing = "waking"
  /\ closing' = "joining" /\ wakes' = wakes - 1
  /\ guest' = IF listener /\ guest = Nobody /\ acceptor \in {"listening", "waiting"}
              THEN Waker ELSE guest
  /\ UNCHANGED <<stopping, acceptor, listener, peerVars, readerVars, windowVars, targets, timedOut,
                 countVars>>

(* Variant with a fault: the acceptor only is waited for.                  *)
NoReaders == {}

ReadersToJoin == Registered

(* join(timeout=0.25), up to four times; then the readers are taken down.  *)
JoinAcceptor ==
  /\ closing = "joining"
  /\ IF acceptor # "ended" /\ wakes > 0
     THEN closing' = "waking" /\ UNCHANGED <<targets, timedOut>>
     ELSE /\ closing' = "joiningReaders" /\ targets' = ReadersToJoin
          /\ timedOut' = (acceptor # "ended")
  /\ UNCHANGED <<serverVars, peerVars, readerVars, windowVars, wakes, countVars>>

(* join(timeout=0.5) of each.                                              *)
JoinReader ==
  /\ closing = "joiningReaders" /\ targets # {}
  /\ \E c \in targets :
       targets' = targets \ {c} /\ timedOut' = (timedOut \/ reader[c] # "ended")
  /\ UNCHANGED <<serverVars, peerVars, readerVars, windowVars, closing, wakes, countVars>>

Return ==
  /\ closing = "joiningReaders" /\ targets = {} /\ closing' = "closed"
  /\ UNCHANGED <<serverVars, peerVars, readerVars, windowVars, targets, wakes, timedOut, countVars>>

StopStep == TakeHandles \/ Disconnect \/ WakeListener \/ JoinAcceptor \/ JoinReader \/ Return

Next ==
  \/ AcceptorStep \/ PipeFails \/ Refresh \/ CountTold \/ Stop \/ StopStep
  \/ \E c \in Clients : Connect(c) \/ Write(c) \/ Leave(c) \/ ReaderStep(c)

(* Threads that can run do run; proxies and the user do as they like.      *)
Fairness ==
  /\ WF_vars(AcceptorStep) /\ WF_vars(StopStep)
  /\ \A c \in Clients : WF_vars(ReaderStep(c))

Spec == Init /\ [][Next]_vars /\ Fairness

-----------------------------------------------------------------------------
TypeOK ==
  /\ stopping \in BOOLEAN /\ guest \in Clients \cup {Nobody, Waker} /\ listener \in BOOLEAN
  /\ acceptor \in {"loop", "created", "listening", "waiting", "connected",
                   "registering", "ended"}
  /\ peer \in [Clients -> {"away", "here", "gone"}]
  /\ reader \in [Clients -> {"none", "checking", "reading", "handing", "dropping", "leaving",
                             "closing", "ended"}]
  /\ handle \in [Clients -> {"none", "open", "closed"}]
  /\ Len(queue) <= QueueSize /\ Len(events) <= StoreCapacity
  /\ window \in {"idle", "counting"} /\ timedOut \in BOOLEAN
  /\ closing \in {"open", "cancelling", "disconnecting", "waking", "joining", "joiningReaders",
                  "closed"}
  /\ targets \subseteq Clients /\ wakes \in 0..Wakes /\ {dropped, missed} \subseteq Nat

(* The graph and the trace have the frames of a proxy in the order it made *)
(* them, each once, and nothing older comes after them, although readers,  *)
(* queue and window run side by side.                                      *)
EventsInOrder ==
  \A c \in Clients :
    LET line == events \o queue \o batch[c] \o pipe[c]
    IN \A i, j \in DOMAIN line :
         i < j /\ line[i].from = c /\ line[j].from = c => line[i].number < line[j].number

(* The drops in the status line are never more than were lost, and not     *)
(* nothing when the viewer itself has lost a frame, although readers and   *)
(* window overwrite each other's counts.                                   *)
DropsAreReal ==
  /\ dropped <= missed + Cardinality({c \in Clients : lost[c] = 1})
  /\ missed > 0 => dropped > 0

(* A stop whose joins did not time out leaves no thread and no handle.     *)
StopLeavesNothing ==
  closing = "closed" /\ ~timedOut =>
    acceptor = "ended" /\ \A c \in Clients : reader[c] \in {"none", "ended"} /\ handle[c] # "open"

(* From the first wake on, stop() waits for nobody who sleeps: the acceptor*)
(* waits only on a pipe that somebody has connected to, and a reader reads *)
(* only from a handle that is closed, wherever either was when stop() set  *)
(* its event, took the handles and tried to connect.                       *)
NobodySleeps ==
  closing \in {"waking", "joining", "joiningReaders", "closed"} =>
    /\ acceptor = "waiting" => guest # Nobody
    /\ \A c \in Clients : reader[c] = "reading" => handle[c] = "closed"

(* Once the window is closing, the acceptor and every reader come to an    *)
(* end, wherever stop() has caught them.                                   *)
StopEndsThreads ==
  stopping ~> acceptor = "ended" /\ \A c \in Clients : reader[c] \in {"none", "ended"}
=============================================================================
