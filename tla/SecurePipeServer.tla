-------------------------- MODULE SecurePipeServer ---------------------------
(***************************************************************************)
(* The pipe server of the plug-in: class SecurePipeServer of               *)
(* src/simhub/FFBInterceptor.Core/SecurePipeServer.cs, as it is driven by  *)
(* MonitorService, with one controlling thread that calls Start and Stop.  *)
(*                                                                         *)
(* An acceptor thread creates one instance of the pipe after the other and *)
(* gives each connected instance to a client thread of its own.  Stop asks *)
(* all threads to end, disposes the pipes under them and waits for them,   *)
(* but no longer than five seconds.                                        *)
(***************************************************************************)
EXTENDS Integers, FiniteSets

CONSTANTS
  Pipes,           \* objects NamedPipeServerStream, used anew when finished
  Acceptors,       \* acceptor threads
  None,            \* the null reference
  MaximumClients

ASSUME ServerConstants ==
  /\ None \notin Pipes \union Acceptors /\ Pipes \intersect Acceptors = {}
  /\ MaximumClients \in Nat \ {0} /\ IsFiniteSet(Pipes)

VARIABLES
  running,         \* _running
  stopSignal,      \* _stopSignal
  descriptor,      \* _securityDescriptor is allocated
  acceptThread,    \* _acceptThread
  listener,        \* _listener
  clients,         \* the pipes in _clients, and in _clientThreads
  accept,          \* accept[a]: where acceptor a is
  hand,            \* hand[a]: the pipe that acceptor a has created
  pipe,            \* pipe[p]: "gone" (disposed), "listening" or "connected"
  peer,            \* peer[p]: the other end is open, or its data not all read
  thread,          \* thread[p]: where the client thread of p is
  registered,      \* the connections that the engine knows
  control,         \* where Stop is: "idle", "cancel", "join", "finish"
  cancels,         \* the pipes that Stop has still to cancel and dispose
  joins,           \* the threads that Stop has still to wait for
  stopped,         \* no wait of this Stop has timed out
  quiet            \* history: the last Stop returned without TimeoutException

serverVars   == <<running, stopSignal, descriptor, acceptThread, listener, clients>>
acceptorVars == <<accept, hand>>
clientVars   == <<thread, registered>>
controlVars  == <<control, cancels, joins, stopped, quiet>>
vars == <<serverVars, acceptorVars, clientVars, controlVars, pipe, peer>>

Init ==
  /\ running = FALSE /\ stopSignal = FALSE /\ descriptor = FALSE
  /\ acceptThread = None /\ listener = None /\ clients = {}
  /\ accept = [a \in Acceptors |-> "done"] /\ hand = [a \in Acceptors |-> None]
  /\ pipe = [p \in Pipes |-> "gone"] /\ peer = [p \in Pipes |-> FALSE]
  /\ thread = [p \in Pipes |-> "done"] /\ registered = {}
  /\ control = "idle" /\ cancels = {} /\ joins = {} /\ stopped = TRUE /\ quiet = TRUE

DisposePipe(p) == pipe' = [pipe EXCEPT ![p] = "gone"]

-----------------------------------------------------------------------------
(* Start and Stop.                                                         *)

(* Workers of an earlier run may have outlived a Stop that timed out.      *)
FullyStopped == acceptThread = None /\ clients = {}

Start(a) ==
  /\ control = "idle" /\ ~running /\ FullyStopped
  /\ accept[a] = "done" /\ a # acceptThread
  /\ descriptor' = TRUE /\ stopSignal' = FALSE /\ running' = TRUE
  /\ acceptThread' = a
  /\ accept' = [accept EXCEPT ![a] = "loop"]
  /\ quiet' = FALSE
  /\ UNCHANGED <<listener, clients, hand, pipe, peer, clientVars, control, cancels, joins, stopped>>

Disposable == clients \union ({listener} \ {None})

(* One critical section: no client is admitted after it.                   *)
StopBegin ==
  /\ control = "idle"
  /\ IF ~running /\ FullyStopped
     THEN /\ descriptor' = FALSE /\ quiet' = TRUE
          /\ UNCHANGED <<running, stopSignal, control, cancels, joins, stopped>>
     ELSE /\ running' = FALSE /\ stopSignal' = TRUE
          /\ cancels' = Disposable
          /\ joins' = clients \union ({acceptThread} \ {None})
          /\ stopped' = TRUE /\ control' = "cancel" /\ quiet' = FALSE
          /\ UNCHANGED descriptor
  /\ UNCHANGED <<acceptThread, listener, clients, acceptorVars, pipe, peer, clientVars>>

StopCancel ==
  /\ control = "cancel"
  /\ IF cancels = {}
     THEN control' = "join" /\ UNCHANGED <<cancels, pipe>>
     ELSE \E p \in cancels : /\ DisposePipe(p)
                             /\ cancels' = cancels \ {p}
                             /\ UNCHANGED control
  /\ UNCHANGED <<serverVars, acceptorVars, clientVars, joins, stopped, quiet, peer>>

Ended(t) == IF t \in Acceptors THEN accept[t] = "done" ELSE thread[t] = "done"

Forgive == UNCHANGED stopped

Blame == stopped' = FALSE

(* A thread is waited for until it ends or the deadline passes.            *)
StopJoin ==
  /\ control = "join"
  /\ IF joins = {}
     THEN control' = "finish" /\ UNCHANGED <<joins, stopped>>
     ELSE \E t \in joins : /\ joins' = joins \ {t}
                           /\ IF Ended(t) THEN UNCHANGED stopped ELSE Blame
                           /\ UNCHANGED control
  /\ UNCHANGED <<serverVars, acceptorVars, clientVars, cancels, quiet, pipe, peer>>

(* What is owned is given up only when every thread has ended; otherwise   *)
(* Stop throws a TimeoutException.                                         *)
StopFinish ==
  /\ control = "finish" /\ control' = "idle"
  /\ IF stopped
     THEN /\ acceptThread' = None /\ listener' = None /\ clients' = {}
          /\ descriptor' = FALSE
     ELSE UNCHANGED <<acceptThread, listener, clients, descriptor>>
  /\ quiet' = stopped
  /\ UNCHANGED <<running, stopSignal, acceptorVars, clientVars, cancels, joins, stopped, pipe, peer>>

-----------------------------------------------------------------------------
(* AcceptLoop                                                              *)

Goto(a, label) == accept' = [accept EXCEPT ![a] = label]

AcceptLoop(a) ==
  /\ accept[a] = "loop"
  /\ Goto(a, IF running THEN "create" ELSE "done")
  /\ UNCHANGED <<serverVars, hand, pipe, peer, clientVars, controlVars>>

(* The pipe objects that no thread refers to any more.                     *)
Unused ==
  {p \in Pipes : /\ pipe[p] = "gone" /\ thread[p] = "done"
                 /\ p \notin clients \union cancels \union joins \union {listener}
                 /\ \A a \in Acceptors : hand[a] # p}

Instances == {p \in Pipes : pipe[p] # "gone"}

GiveUp(a) == Goto(a, "done")

(* Every exception of the loop is caught, and the loop goes on.            *)
Retry(a) == Goto(a, "loop")

(* CreateNamedPipe with the security descriptor; it fails at the limit of  *)
(* instances, and the loop tries again.                                    *)
Create(a) ==
  /\ accept[a] = "create"
  /\ IF Cardinality(Instances) < MaximumClients
     THEN \E p \in Unused : /\ pipe' = [pipe EXCEPT ![p] = "listening"]
                            /\ peer' = [peer EXCEPT ![p] = FALSE]
                            /\ hand' = [hand EXCEPT ![a] = p]
                            /\ Goto(a, "publish")
     ELSE Retry(a) /\ UNCHANGED <<hand, pipe, peer>>
  /\ UNCHANGED <<serverVars, clientVars, controlVars>>

Drop(a) ==
  /\ DisposePipe(hand[a])
  /\ hand' = [hand EXCEPT ![a] = None]
  /\ listener' = IF listener = hand[a] THEN None ELSE listener

(* The listener becomes visible to Stop under the lock that Stop takes.    *)
Publish(a) ==
  /\ accept[a] = "publish"
  /\ IF running
     THEN listener' = hand[a] /\ Goto(a, "wait") /\ UNCHANGED <<hand, pipe>>
     ELSE Drop(a) /\ Goto(a, "done")
  /\ UNCHANGED <<running, stopSignal, descriptor, acceptThread, clients, peer, clientVars,
                 controlVars>>

(* WaitForConnection returns for a client, a stop signal or a disposal.    *)
Wait(a) ==
  /\ accept[a] = "wait"
  /\ pipe[hand[a]] # "listening" \/ stopSignal
  /\ IF running /\ pipe[hand[a]] = "connected"
     THEN Goto(a, "admit") /\ UNCHANGED <<hand, pipe, listener>>
     ELSE Drop(a) /\ Retry(a)
  /\ UNCHANGED <<running, stopSignal, descriptor, acceptThread, clients, peer, clientVars,
                 controlVars>>

AdmitStopped == Cardinality(clients) < MaximumClients

(* Tested again under the lock: Stop may have come first.                  *)
MayAdmit == running /\ Cardinality(clients) < MaximumClients

Admit(a) ==
  /\ accept[a] = "admit"
  /\ IF MayAdmit
     THEN /\ clients' = clients \union {hand[a]}
          /\ thread' = [thread EXCEPT ![hand[a]] = "read"]
          /\ listener' = None
          /\ hand' = [hand EXCEPT ![a] = None]
          /\ UNCHANGED pipe
     ELSE Drop(a) /\ UNCHANGED <<clients, thread>>
  /\ Goto(a, "loop")
  /\ UNCHANGED <<running, stopSignal, descriptor, acceptThread, peer, registered, controlVars>>

-----------------------------------------------------------------------------
(* RunClient                                                               *)

At(p, label) == thread' = [thread EXCEPT ![p] = label]

(* A chunk of frames is read; what follows may overlap with Stop.          *)
ReadChunk(p) ==
  /\ thread[p] = "read" /\ running /\ pipe[p] = "connected" /\ peer[p]
  /\ At(p, "chunk")
  /\ UNCHANGED <<serverVars, acceptorVars, controlVars, pipe, peer, registered>>

(* Hello registers the connection; later frames of the chunk, also those   *)
(* handled after _running has become false, go to the engine.              *)
HandleChunk(p) ==
  /\ thread[p] = "chunk"
  /\ registered' = registered \union {p}
  /\ \E next \in {"read", "chunk"} : At(p, next)
  /\ UNCHANGED <<serverVars, acceptorVars, controlVars, pipe, peer>>

(* A malformed frame, whether or not it is the first one.                  *)
ChunkIsBad(p) ==
  /\ thread[p] = "chunk" /\ At(p, "leave")
  /\ UNCHANGED <<serverVars, acceptorVars, controlVars, pipe, peer, registered>>

ReadEnds(p) ==
  /\ thread[p] = "read"
  /\ ~running \/ stopSignal \/ pipe[p] = "gone" \/ ~peer[p]
  /\ At(p, "leave")
  /\ UNCHANGED <<serverVars, acceptorVars, controlVars, pipe, peer, registered>>

LeaveWhileRunning(p) == registered' = IF running THEN registered \ {p} ELSE registered

LeaveEngine(p) == registered' = registered \ {p}

(* The finally block: the engine, the sets of the server, then the pipe.   *)
Leave(p) ==
  /\ thread[p] = "leave" /\ At(p, "remove")
  /\ LeaveEngine(p)
  /\ UNCHANGED <<serverVars, acceptorVars, controlVars, pipe, peer>>

Remove(p) ==
  /\ thread[p] = "remove" /\ At(p, "dispose")
  /\ clients' = clients \ {p}
  /\ UNCHANGED <<running, stopSignal, descriptor, acceptThread, listener, acceptorVars,
                 controlVars, pipe, peer, registered>>

Finish(p) ==
  /\ thread[p] = "dispose" /\ At(p, "done")
  /\ DisposePipe(p)
  /\ UNCHANGED <<serverVars, acceptorVars, controlVars, peer, registered>>

-----------------------------------------------------------------------------
(* The sinks at the other end.                                             *)

PeerConnects(p) ==
  /\ pipe[p] = "listening" /\ pipe' = [pipe EXCEPT ![p] = "connected"]
  /\ peer' = [peer EXCEPT ![p] = TRUE]
  /\ UNCHANGED <<serverVars, acceptorVars, clientVars, controlVars>>

PeerCloses(p) ==
  /\ peer[p] /\ peer' = [peer EXCEPT ![p] = FALSE]
  /\ UNCHANGED <<serverVars, acceptorVars, clientVars, controlVars, pipe>>

-----------------------------------------------------------------------------
StopStep == StopCancel \/ StopJoin \/ StopFinish

AcceptStep(a) == AcceptLoop(a) \/ Create(a) \/ Publish(a) \/ Wait(a) \/ Admit(a)

ClientStep(p) ==
  \/ ReadChunk(p) \/ HandleChunk(p) \/ ChunkIsBad(p) \/ ReadEnds(p)
  \/ Leave(p) \/ Remove(p) \/ Finish(p)

Next ==
  \/ \E a \in Acceptors : Start(a) \/ AcceptStep(a)
  \/ StopBegin \/ StopStep
  \/ \E p \in Pipes : ClientStep(p) \/ PeerConnects(p) \/ PeerCloses(p)

(* Threads are scheduled, and a chunk of frames is finite.                 *)
Fairness ==
  /\ WF_vars(StopStep)
  /\ \A a \in Acceptors : WF_vars(AcceptStep(a))
  /\ \A p \in Pipes : WF_vars(ClientStep(p))

Spec == Init /\ [][Next]_vars /\ Fairness

-----------------------------------------------------------------------------
TypeOK ==
  /\ running \in BOOLEAN /\ stopSignal \in BOOLEAN /\ descriptor \in BOOLEAN
  /\ acceptThread \in Acceptors \union {None} /\ listener \in Pipes \union {None}
  /\ clients \subseteq Pipes /\ registered \subseteq Pipes
  /\ accept \in [Acceptors -> {"done", "loop", "create", "publish", "wait", "admit"}]
  /\ hand \in [Acceptors -> Pipes \union {None}]
  /\ pipe \in [Pipes -> {"gone", "listening", "connected"}] /\ peer \in [Pipes -> BOOLEAN]
  /\ thread \in [Pipes -> {"done", "read", "chunk", "leave", "remove", "dispose"}]
  /\ control \in {"idle", "cancel", "join", "finish"}
  /\ cancels \subseteq Pipes /\ joins \subseteq Pipes \union Acceptors
  /\ stopped \in BOOLEAN /\ quiet \in BOOLEAN

(* No two acceptors are alive, the one that is belongs to the server, and  *)
(* the security descriptor that it hands to CreatePipeInstance was not     *)
(* freed: not even when a Stop timed out and another one or a Start        *)
(* followed.                                                               *)
AcceptorIsOwned ==
  /\ TypeOK
  /\ \A a \in Acceptors : accept[a] # "done" => acceptThread = a /\ descriptor

(* After a Stop that returned, no worker is left that could still call the *)
(* engine, no connection is registered there and no pipe waits for a       *)
(* client.  Only the disposal of a pipe may be under way.                  *)
StopIsFinal ==
  quiet => /\ registered = {} /\ ~descriptor
           /\ \A p \in Pipes : /\ thread[p] \in {"dispose", "done"}
                               /\ pipe[p] # "listening"

(* Nobody is waited for in vain: a running server has a live acceptor,     *)
(* whatever its loop met; a connection that the engine knows has a live    *)
(* thread that takes it back; and once the server is stopped the signal    *)
(* that ends every wait is set and stays set until all threads are done,   *)
(* also when a Stop has timed out.                                         *)
NobodyIsStranded ==
  /\ running => acceptThread # None /\ accept[acceptThread] # "done"
  /\ \A p \in registered : thread[p] \in {"read", "chunk", "leave"}
  /\ \/ running \/ stopSignal
     \/ (\A a \in Acceptors : accept[a] = "done") /\ \A p \in Pipes : thread[p] = "done"

(* A registered connection whose sink is gone is taken back from the       *)
(* engine: the plug-in does not go on showing a game that has ended.       *)
GoneAreForgotten == \A p \in Pipes : (p \in registered /\ ~peer[p]) ~> p \notin registered

(* While the server runs with fewer clients than it may have, a pipe comes *)
(* to listen for the next one, whatever failed or broke before.            *)
AcceptsAgain ==
  (running /\ Cardinality(Instances) < MaximumClients)
    ~> (~running \/ \E p \in Pipes : pipe[p] = "listening")
=============================================================================
