---------------------------- MODULE ServersProofs ----------------------------
(* Proofs about the two servers that read telemetry, SecurePipeServer and  *)
(* Viewer, for any number of pipes, threads and proxies: however a stop    *)
(* falls between the steps of the acceptor and of the clients, one that    *)
(* returned without a timeout has left nothing behind.                     *)
EXTENDS MCServers, TLAPS

(***************************************************************************)
(* The server of the plug-in.                                              *)
(***************************************************************************)

(* A client thread that has not yet left the set of clients.               *)
Serving(p) == thread[p] \in {"read", "chunk", "leave", "remove"}

(* An acceptor has a pipe of its own from its creation until it is given   *)
(* to a client thread or disposed; only such a pipe can be listening.      *)
HandsMatch ==
  /\ \A a \in Acceptors : hand[a] # None <=> accept[a] \in {"publish", "wait", "admit"}
  /\ \A a \in Acceptors : accept[a] = "admit" => pipe[hand[a]] # "listening"
  /\ \A p \in Pipes : pipe[p] = "listening" => \E a \in Acceptors : hand[a] = p

ClientsAreServing ==
  /\ \A p \in Pipes : p \in clients <=> Serving(p)
  /\ \A p \in registered : thread[p] \in {"read", "chunk", "leave"}

(* While Stop is under way nothing new begins; what it has not found to    *)
(* have ended it still waits for, unless a wait has timed out.             *)
StopWaits ==
  control # "idle" =>
    /\ ~running
    /\ stopped => /\ \A p \in Pipes : Serving(p) => p \in joins
                  /\ \A a \in Acceptors : accept[a] # "done" => a \in joins
    /\ control = "finish" => joins = {}

(* A Stop that returned has given up everything.                           *)
QuietIsEmpty == quiet => ~descriptor /\ acceptThread = None /\ clients = {}

ServerInv ==
  AcceptorIsOwned /\ HandsMatch /\ ClientsAreServing /\ StopWaits /\ QuietIsEmpty

(***************************************************************************)
(* The server of the viewer.                                               *)
(***************************************************************************)

(* The thread that read from c has come to its end, or there was none.     *)
Over(c) == reader[c] \in {"none", "ended"}

ViewerInv ==
  /\ handle \in [Clients -> {"none", "open", "closed"}] /\ timedOut \in BOOLEAN
  /\ reader \in [Clients -> {"none", "checking", "reading", "handing", "dropping", "leaving",
                             "closing", "ended"}]
  /\ \A c \in Clients : Over(c) \/ reader[c] = "closing" => handle[c] # "open"
  /\ closing \in {"joiningReaders", "closed"} /\ ~timedOut =>
       acceptor = "ended" /\ \A c \in Clients \ targets : Over(c)
  /\ closing = "closed" => targets = {}

LEMMA ServerInit == Init => ServerInv
<1> SUFFICES ASSUME Init PROVE ServerInv
  OBVIOUS
<1>1. TypeOK BY ServerConstants DEF Init, TypeOK
<1>2. AcceptorIsOwned BY <1>1 DEF Init, AcceptorIsOwned
<1>3. HandsMatch BY DEF Init, HandsMatch
<1>4. ClientsAreServing BY DEF Init, ClientsAreServing, Serving
<1>5. StopWaits /\ QuietIsEmpty BY DEF Init, StopWaits, QuietIsEmpty
<1>6. QED BY <1>2, <1>3, <1>4, <1>5 DEF ServerInv

(* The steps in which acceptors, pipes and client threads stay as they are.*)
LEMMA StartStep ==
  ASSUME ServerInv, NEW a \in Acceptors, Start(a)
  PROVE  ServerInv'
<1>1. /\ TypeOK /\ AcceptorIsOwned /\ HandsMatch /\ ClientsAreServing /\ StopWaits /\ QuietIsEmpty
  BY DEF ServerInv, AcceptorIsOwned
<1>2. TypeOK' BY <1>1 DEF Start, TypeOK, clientVars
<1>3. AcceptorIsOwned'
  BY <1>1, <1>2, ServerConstants DEF Start, AcceptorIsOwned, TypeOK, FullyStopped
<1>4. HandsMatch' BY <1>1 DEF Start, HandsMatch, TypeOK
<1>5. ClientsAreServing' BY <1>1 DEF Start, ClientsAreServing, Serving, clientVars
<1>6. StopWaits' /\ QuietIsEmpty' BY DEF Start, StopWaits, QuietIsEmpty
<1>7. QED BY <1>3, <1>4, <1>5, <1>6 DEF ServerInv

LEMMA StopBeginStep ==
  ASSUME ServerInv, StopBegin
  PROVE  ServerInv'
<1>1. /\ TypeOK /\ AcceptorIsOwned /\ HandsMatch /\ ClientsAreServing /\ StopWaits /\ QuietIsEmpty
      /\ UNCHANGED <<acceptThread, listener, clients, accept, hand, pipe, peer, thread, registered>>
  BY DEF ServerInv, AcceptorIsOwned, StopBegin, acceptorVars, clientVars
<1>2. CASE ~running /\ FullyStopped
  <2>1. /\ descriptor' = FALSE /\ quiet' = TRUE
        /\ UNCHANGED <<running, stopSignal, control, cancels, joins, stopped>>
    BY <1>2 DEF StopBegin
  <2>2. TypeOK' BY <1>1, <2>1 DEF TypeOK
  <2>3. AcceptorIsOwned'
    BY <1>1, <1>2, <2>1, <2>2, ServerConstants DEF AcceptorIsOwned, FullyStopped
  <2>4. HandsMatch' /\ ClientsAreServing'
    BY <1>1 DEF HandsMatch, ClientsAreServing, Serving
  <2>5. StopWaits' /\ QuietIsEmpty'
    BY <1>1, <1>2, <2>1 DEF StopWaits, QuietIsEmpty, FullyStopped, Serving
  <2>6. QED BY <2>3, <2>4, <2>5 DEF ServerInv
<1>3. CASE ~(~running /\ FullyStopped)
  <2>1. /\ running' = FALSE /\ stopSignal' = TRUE /\ cancels' = Disposable
        /\ joins' = clients \union ({acceptThread} \ {None})
        /\ stopped' = TRUE /\ control' = "cancel" /\ quiet' = FALSE
        /\ UNCHANGED descriptor
    BY <1>3 DEF StopBegin
  <2>2. TypeOK' BY <1>1, <2>1 DEF TypeOK, Disposable
  <2>3. AcceptorIsOwned' BY <1>1, <2>1, <2>2 DEF AcceptorIsOwned
  <2>4. HandsMatch' /\ ClientsAreServing'
    BY <1>1 DEF HandsMatch, ClientsAreServing, Serving
  <2>5. StopWaits'
    BY <1>1, <2>1, ServerConstants DEF StopWaits, ClientsAreServing, AcceptorIsOwned, Serving
  <2>6. QuietIsEmpty' BY <2>1 DEF QuietIsEmpty
  <2>7. QED BY <2>3, <2>4, <2>5, <2>6 DEF ServerInv
<1>4. QED BY <1>2, <1>3

LEMMA StopCancelStep ==
  ASSUME ServerInv, StopCancel
  PROVE  ServerInv'
<1>1. /\ TypeOK /\ AcceptorIsOwned /\ HandsMatch /\ ClientsAreServing /\ StopWaits /\ QuietIsEmpty
      /\ UNCHANGED <<running, stopSignal, descriptor, acceptThread, listener, clients, accept, hand,
                     peer, thread, registered, joins, stopped, quiet>>
      /\ control = "cancel" /\ control' \in {"cancel", "join"}
  BY DEF ServerInv, AcceptorIsOwned, StopCancel, serverVars, acceptorVars, clientVars
<1>2. /\ cancels' \subseteq Pipes /\ pipe' \in [Pipes -> {"gone", "listening", "connected"}]
      /\ \A p \in Pipes : pipe'[p] = "listening" => pipe[p] = "listening"
  BY <1>1 DEF StopCancel, TypeOK, DisposePipe
<1>3. TypeOK' BY <1>1, <1>2 DEF TypeOK
<1>4. AcceptorIsOwned' BY <1>1, <1>3 DEF AcceptorIsOwned
<1>5. HandsMatch' BY <1>1, <1>2 DEF HandsMatch, TypeOK
<1>6. ClientsAreServing' BY <1>1 DEF ClientsAreServing, Serving
<1>7. StopWaits' /\ QuietIsEmpty' BY <1>1 DEF StopWaits, QuietIsEmpty, Serving
<1>8. QED BY <1>4, <1>5, <1>6, <1>7 DEF ServerInv

LEMMA StopJoinStep ==
  ASSUME ServerInv, StopJoin
  PROVE  ServerInv'
<1>1. /\ TypeOK /\ AcceptorIsOwned /\ HandsMatch /\ ClientsAreServing /\ StopWaits /\ QuietIsEmpty
      /\ UNCHANGED <<running, stopSignal, descriptor, acceptThread, listener, clients, accept, hand,
                     peer, thread, registered, cancels, quiet, pipe>>
      /\ control = "join"
  BY DEF ServerInv, AcceptorIsOwned, StopJoin, serverVars, acceptorVars, clientVars
<1>2. AcceptorIsOwned' /\ HandsMatch' /\ ClientsAreServing' /\ QuietIsEmpty' /\ TypeOK' /\ StopWaits'
  <2>1. CASE joins = {}
    <3>1. control' = "finish" /\ UNCHANGED <<joins, stopped>> BY <2>1 DEF StopJoin
    <3>2. TypeOK' BY <1>1, <3>1 DEF TypeOK
    <3>3. QED BY <1>1, <2>1, <3>1, <3>2 DEF AcceptorIsOwned, HandsMatch, ClientsAreServing, Serving,
                                            StopWaits, QuietIsEmpty
  <2>2. CASE joins # {}
    <3>1. PICK t \in joins : /\ joins' = joins \ {t} /\ control' = control
                             /\ IF Ended(t) THEN UNCHANGED stopped ELSE Blame
      BY <2>2 DEF StopJoin
    <3>2. stopped' \in BOOLEAN /\ (stopped' => stopped /\ Ended(t))
      BY <1>1, <3>1 DEF TypeOK, Blame
    <3>3. TypeOK' BY <1>1, <3>1, <3>2 DEF TypeOK
    <3>4. StopWaits'
      BY <1>1, <3>1, <3>2, ServerConstants DEF StopWaits, Ended, Serving, TypeOK
    <3>5. QED BY <1>1, <3>1, <3>3, <3>4 DEF AcceptorIsOwned, HandsMatch, ClientsAreServing, Serving,
                                            QuietIsEmpty
  <2>3. QED BY <2>1, <2>2
<1>3. QED BY <1>2 DEF ServerInv

LEMMA StopFinishStep ==
  ASSUME ServerInv, StopFinish
  PROVE  ServerInv'
<1>1. /\ TypeOK /\ AcceptorIsOwned /\ HandsMatch /\ ClientsAreServing /\ StopWaits /\ QuietIsEmpty
      /\ UNCHANGED <<running, stopSignal, accept, hand, peer, thread, registered, cancels, joins,
                     stopped, pipe>>
      /\ control = "finish" /\ control' = "idle" /\ quiet' = stopped
  BY DEF ServerInv, AcceptorIsOwned, StopFinish, acceptorVars, clientVars
<1>2. HandsMatch' /\ StopWaits' BY <1>1 DEF HandsMatch, StopWaits
<1>3. CASE stopped
  <2>1. acceptThread' = None /\ listener' = None /\ clients' = {} /\ descriptor' = FALSE
    BY <1>3 DEF StopFinish
  <2>2. (\A p \in Pipes : ~Serving(p)) /\ \A a \in Acceptors : accept[a] = "done"
    BY <1>1, <1>3 DEF StopWaits
  <2>3. TypeOK' BY <1>1, <2>1 DEF TypeOK
  <2>4. AcceptorIsOwned' /\ ClientsAreServing' /\ QuietIsEmpty'
    BY <1>1, <2>1, <2>2, <2>3 DEF AcceptorIsOwned, ClientsAreServing, QuietIsEmpty, Serving
  <2>5. QED BY <1>2, <2>4 DEF ServerInv
<1>4. CASE ~stopped
  <2>1. UNCHANGED <<acceptThread, listener, clients, descriptor>>
    BY <1>4 DEF StopFinish
  <2>2. TypeOK' BY <1>1, <2>1 DEF TypeOK
  <2>3. AcceptorIsOwned' /\ ClientsAreServing' /\ QuietIsEmpty'
    BY <1>1, <1>4, <2>1, <2>2 DEF AcceptorIsOwned, ClientsAreServing, QuietIsEmpty, Serving
  <2>4. QED BY <1>2, <2>3 DEF ServerInv
<1>5. QED BY <1>3, <1>4

(***************************************************************************)
(* The acceptor: it is the server's own, and while Stop is under way it    *)
(* begins nothing.                                                         *)
(***************************************************************************)
LEMMA AcceptLoopStep ==
  ASSUME ServerInv, NEW a \in Acceptors, AcceptLoop(a)
  PROVE  ServerInv'
<1>1. /\ TypeOK /\ AcceptorIsOwned /\ HandsMatch /\ ClientsAreServing /\ StopWaits /\ QuietIsEmpty
      /\ UNCHANGED <<running, stopSignal, descriptor, acceptThread, listener, clients, hand, pipe,
                     peer, thread, registered, control, cancels, joins, stopped, quiet>>
      /\ accept[a] = "loop"
  BY DEF ServerInv, AcceptorIsOwned, AcceptLoop, serverVars, clientVars, controlVars
<1>2. PICK to \in {"create", "done"} : accept' = [accept EXCEPT ![a] = to]
  BY DEF AcceptLoop, Goto
<1>3. TypeOK' BY <1>1, <1>2 DEF TypeOK
<1>4. AcceptorIsOwned' BY <1>1, <1>2, <1>3 DEF AcceptorIsOwned, TypeOK
<1>5. HandsMatch' BY <1>1, <1>2 DEF HandsMatch, TypeOK
<1>6. ClientsAreServing' /\ QuietIsEmpty' BY <1>1 DEF ClientsAreServing, Serving, QuietIsEmpty
<1>7. StopWaits' BY <1>1, <1>2 DEF StopWaits, Serving, TypeOK
<1>8. QED BY <1>4, <1>5, <1>6, <1>7 DEF ServerInv

LEMMA CreateStep ==
  ASSUME ServerInv, NEW a \in Acceptors, Create(a)
  PROVE  ServerInv'
<1>1. /\ TypeOK /\ AcceptorIsOwned /\ HandsMatch /\ ClientsAreServing /\ StopWaits /\ QuietIsEmpty
      /\ UNCHANGED <<running, stopSignal, descriptor, acceptThread, listener, clients,
                     thread, registered, control, cancels, joins, stopped, quiet>>
      /\ accept[a] = "create"
  BY DEF ServerInv, AcceptorIsOwned, Create, serverVars, clientVars, controlVars
<1>2. hand[a] = None BY <1>1 DEF HandsMatch
<1>3. CASE Cardinality(Instances) < MaximumClients
  <2>1. PICK p \in Unused : /\ pipe' = [pipe EXCEPT ![p] = "listening"]
                            /\ peer' = [peer EXCEPT ![p] = FALSE]
                            /\ hand' = [hand EXCEPT ![a] = p]
                            /\ accept' = [accept EXCEPT ![a] = "publish"]
    BY <1>3 DEF Create, Goto
  <2>2. p \in Pipes /\ p # None /\ \A b \in Acceptors : hand[b] # p
    BY ServerConstants DEF Unused
  <2>3. TypeOK' BY <1>1, <2>1, <2>2 DEF TypeOK
  <2>4. AcceptorIsOwned' BY <1>1, <2>1, <2>3 DEF AcceptorIsOwned, TypeOK
  <2>5. HandsMatch'
    <3>1. \A b \in Acceptors : hand'[b] # None <=> accept'[b] \in {"publish", "wait", "admit"}
      BY <1>1, <2>1, <2>2 DEF HandsMatch, TypeOK
    <3>2. \A b \in Acceptors : accept'[b] = "admit" => pipe'[hand'[b]] # "listening"
      BY <1>1, <2>1, <2>2 DEF HandsMatch, TypeOK
    <3>3. \A q \in Pipes : pipe'[q] = "listening" => \E b \in Acceptors : hand'[b] = q
      BY <1>1, <1>2, <2>1, <2>2, ServerConstants DEF HandsMatch, TypeOK
    <3>4. QED BY <3>1, <3>2, <3>3 DEF HandsMatch
  <2>6. ClientsAreServing' /\ QuietIsEmpty' BY <1>1 DEF ClientsAreServing, Serving, QuietIsEmpty
  <2>7. StopWaits' BY <1>1, <2>1 DEF StopWaits, Serving, TypeOK
  <2>8. QED BY <2>4, <2>5, <2>6, <2>7 DEF ServerInv
<1>4. CASE ~(Cardinality(Instances) < MaximumClients)
  <2>1. accept' = [accept EXCEPT ![a] = "loop"] /\ UNCHANGED <<hand, pipe, peer>>
    BY <1>4 DEF Create, Retry, Goto
  <2>2. TypeOK' BY <1>1, <2>1 DEF TypeOK
  <2>3. AcceptorIsOwned' BY <1>1, <2>1, <2>2 DEF AcceptorIsOwned, TypeOK
  <2>4. HandsMatch' BY <1>1, <2>1 DEF HandsMatch, TypeOK
  <2>5. ClientsAreServing' /\ QuietIsEmpty' BY <1>1 DEF ClientsAreServing, Serving, QuietIsEmpty
  <2>6. StopWaits' BY <1>1, <2>1 DEF StopWaits, Serving, TypeOK
  <2>7. QED BY <2>3, <2>4, <2>5, <2>6 DEF ServerInv
<1>5. QED BY <1>3, <1>4

(* The acceptor disposes of its pipe and goes on without it.               *)
LEMMA Dropped ==
  ASSUME ServerInv, NEW a \in Acceptors, NEW to \in {"loop", "done"},
         accept[a] \in {"publish", "wait", "admit"}, Drop(a), Goto(a, to),
         UNCHANGED <<running, stopSignal, descriptor, acceptThread, clients, peer, clientVars,
                     controlVars>>
  PROVE  ServerInv'
<1>1. /\ TypeOK /\ AcceptorIsOwned /\ HandsMatch /\ ClientsAreServing /\ StopWaits /\ QuietIsEmpty
      /\ UNCHANGED <<running, stopSignal, descriptor, acceptThread, clients, peer,
                     thread, registered, control, cancels, joins, stopped, quiet>>
  BY DEF ServerInv, AcceptorIsOwned, clientVars, controlVars
<1>2. /\ pipe' = [pipe EXCEPT ![hand[a]] = "gone"] /\ hand' = [hand EXCEPT ![a] = None]
      /\ listener' \in {None, listener} /\ accept' = [accept EXCEPT ![a] = to]
  BY DEF Drop, DisposePipe, Goto
<1>3. PICK p \in Pipes : p = hand[a]
  BY <1>1 DEF HandsMatch, TypeOK
<1>4. pipe' = [pipe EXCEPT ![p] = "gone"] BY <1>2, <1>3
<1>5. TypeOK' BY <1>1, <1>2, <1>4 DEF TypeOK
<1>6. AcceptorIsOwned' BY <1>1, <1>2, <1>5 DEF AcceptorIsOwned, TypeOK
<1>7. HandsMatch'
  <2>1. \A b \in Acceptors : hand'[b] # None <=> accept'[b] \in {"publish", "wait", "admit"}
    BY <1>1, <1>2 DEF HandsMatch, TypeOK
  <2>2. \A b \in Acceptors : accept'[b] = "admit" => pipe'[hand'[b]] # "listening"
    BY <1>1, <1>2, <1>4 DEF HandsMatch, TypeOK
  <2>3. \A q \in Pipes : pipe'[q] = "listening" => q # p /\ pipe[q] = "listening"
    BY <1>1, <1>4 DEF TypeOK
  <2>4. \A q \in Pipes : pipe'[q] = "listening" => \E b \in Acceptors : hand'[b] = q
    <3> SUFFICES ASSUME NEW q \in Pipes, pipe'[q] = "listening"
                 PROVE  \E b \in Acceptors : hand'[b] = q
      OBVIOUS
    <3>1. PICK b \in Acceptors : hand[b] = q BY <1>1, <2>3 DEF HandsMatch
    <3>2. b # a BY <1>3, <2>3, <3>1
    <3>3. QED BY <1>1, <1>2, <3>1, <3>2 DEF TypeOK
  <2>5. QED BY <2>1, <2>2, <2>4 DEF HandsMatch
<1>8. ClientsAreServing' /\ QuietIsEmpty' BY <1>1 DEF ClientsAreServing, Serving, QuietIsEmpty
<1>9. StopWaits'
  <2>1. \A b \in Acceptors : accept'[b] # "done" => accept[b] # "done"
    BY <1>1, <1>2 DEF TypeOK
  <2>2. QED BY <1>1, <2>1 DEF StopWaits, Serving
<1>10. QED BY <1>6, <1>7, <1>8, <1>9 DEF ServerInv

LEMMA PublishStep ==
  ASSUME ServerInv, NEW a \in Acceptors, Publish(a)
  PROVE  ServerInv'
<1>1. CASE ~running
  BY <1>1, Dropped DEF Publish
<1>2. CASE running
  <2>1. /\ TypeOK /\ AcceptorIsOwned /\ HandsMatch /\ ClientsAreServing /\ StopWaits /\ QuietIsEmpty
        /\ accept[a] = "publish" /\ listener' = hand[a] /\ accept' = [accept EXCEPT ![a] = "wait"]
        /\ UNCHANGED <<hand, pipe, running, stopSignal, descriptor, acceptThread, clients, peer,
                       thread, registered, control, cancels, joins, stopped, quiet>>
    BY <1>2 DEF Publish, Goto, clientVars, controlVars, ServerInv, AcceptorIsOwned
  <2>2. TypeOK' BY <2>1 DEF TypeOK
  <2>3. AcceptorIsOwned' BY <2>1, <2>2 DEF AcceptorIsOwned, TypeOK
  <2>4. HandsMatch' BY <2>1 DEF HandsMatch, TypeOK
  <2>5. ClientsAreServing' /\ QuietIsEmpty' BY <2>1 DEF ClientsAreServing, Serving, QuietIsEmpty
  <2>6. StopWaits' BY <1>2, <2>1 DEF StopWaits, TypeOK
  <2>7. QED BY <2>3, <2>4, <2>5, <2>6 DEF ServerInv
<1>3. QED BY <1>1, <1>2

LEMMA WaitStep ==
  ASSUME ServerInv, NEW a \in Acceptors, Wait(a)
  PROVE  ServerInv'
<1>1. CASE ~(running /\ pipe[hand[a]] = "connected")
  BY <1>1, Dropped DEF Wait, Retry
<1>2. CASE running /\ pipe[hand[a]] = "connected"
  <2>1. /\ TypeOK /\ AcceptorIsOwned /\ HandsMatch /\ ClientsAreServing /\ StopWaits /\ QuietIsEmpty
        /\ accept[a] = "wait" /\ accept' = [accept EXCEPT ![a] = "admit"]
        /\ UNCHANGED <<hand, pipe, listener, running, stopSignal, descriptor, acceptThread, clients,
                       peer, thread, registered, control, cancels, joins, stopped, quiet>>
    BY <1>2 DEF Wait, Goto, clientVars, controlVars, ServerInv, AcceptorIsOwned
  <2>2. TypeOK' BY <2>1 DEF TypeOK
  <2>3. AcceptorIsOwned' BY <2>1, <2>2 DEF AcceptorIsOwned, TypeOK
  <2>4. HandsMatch' BY <1>2, <2>1 DEF HandsMatch, TypeOK
  <2>5. ClientsAreServing' /\ QuietIsEmpty' BY <2>1 DEF ClientsAreServing, Serving, QuietIsEmpty
  <2>6. StopWaits' BY <1>2, <2>1 DEF StopWaits, TypeOK
  <2>7. QED BY <2>3, <2>4, <2>5, <2>6 DEF ServerInv
<1>3. QED BY <1>1, <1>2

LEMMA AdmitStep ==
  ASSUME ServerInv, NEW a \in Acceptors, Admit(a)
  PROVE  ServerInv'
<1>1. CASE ~MayAdmit
  BY <1>1, Dropped DEF Admit, clientVars
<1>2. CASE MayAdmit
  <2>1. /\ TypeOK /\ AcceptorIsOwned /\ HandsMatch /\ ClientsAreServing /\ StopWaits /\ QuietIsEmpty
        /\ accept[a] = "admit" /\ accept' = [accept EXCEPT ![a] = "loop"]
        /\ listener' = None /\ hand' = [hand EXCEPT ![a] = None]
        /\ UNCHANGED <<pipe, running, stopSignal, descriptor, acceptThread, peer, registered,
                       control, cancels, joins, stopped, quiet>>
    BY <1>2 DEF Admit, Goto, controlVars, ServerInv, AcceptorIsOwned
  <2>2. PICK p \in Pipes : p = hand[a]
    BY <2>1 DEF HandsMatch, TypeOK
  <2>3. clients' = clients \union {p} /\ thread' = [thread EXCEPT ![p] = "read"]
    BY <1>2, <2>2 DEF Admit
  <2>4. TypeOK' BY <2>1, <2>3 DEF TypeOK
  <2>5. AcceptorIsOwned' BY <2>1, <2>4 DEF AcceptorIsOwned, TypeOK
  <2>6. HandsMatch'
    <3>1. \A b \in Acceptors : hand'[b] # None <=> accept'[b] \in {"publish", "wait", "admit"}
      BY <2>1 DEF HandsMatch, TypeOK
    <3>2. \A b \in Acceptors : accept'[b] = "admit" => pipe'[hand'[b]] # "listening"
      BY <2>1 DEF HandsMatch, TypeOK
    <3>3. \A q \in Pipes : pipe'[q] = "listening" => \E b \in Acceptors : hand'[b] = q
      <4> SUFFICES ASSUME NEW q \in Pipes, pipe'[q] = "listening"
                   PROVE  \E b \in Acceptors : hand'[b] = q
        OBVIOUS
      <4>1. PICK b \in Acceptors : hand[b] = q BY <2>1 DEF HandsMatch
      <4>2. b # a BY <2>1, <4>1 DEF HandsMatch
      <4>3. QED BY <2>1, <4>1, <4>2 DEF TypeOK
    <3>4. QED BY <3>1, <3>2, <3>3 DEF HandsMatch
  <2>7. ClientsAreServing' BY <2>1, <2>3 DEF ClientsAreServing, Serving, TypeOK
  <2>8. StopWaits' BY <1>2, <2>1 DEF StopWaits, MayAdmit
  <2>9. QuietIsEmpty' BY <2>1 DEF QuietIsEmpty, AcceptorIsOwned
  <2>10. QED BY <2>5, <2>6, <2>7, <2>8, <2>9 DEF ServerInv
<1>3. QED BY <1>1, <1>2

(***************************************************************************)
(* The clients, and the sinks at the other end.                            *)
(***************************************************************************)

(* A client thread goes on within its loop: it serves before and after, or *)
(* it does so neither before nor after.                                    *)
LEMMA ClientMoves ==
  ASSUME ServerInv, NEW p \in Pipes,
         NEW to \in {"done", "read", "chunk", "leave", "remove", "dispose"},
         thread' = [thread EXCEPT ![p] = to],
         Serving(p) <=> to \in {"read", "chunk", "leave", "remove"},
         registered' \subseteq registered \union {p},
         p \in registered' => to \in {"read", "chunk", "leave"},
         pipe' \in {pipe, [pipe EXCEPT ![p] = "gone"]},
         UNCHANGED <<serverVars, acceptorVars, controlVars, peer>>
  PROVE  ServerInv'
<1>1. /\ TypeOK /\ AcceptorIsOwned /\ HandsMatch /\ ClientsAreServing /\ StopWaits /\ QuietIsEmpty
      /\ UNCHANGED <<running, stopSignal, descriptor, acceptThread, listener, clients, accept, hand,
                     peer, control, cancels, joins, stopped, quiet>>
  BY DEF ServerInv, AcceptorIsOwned, serverVars, acceptorVars, controlVars
<1>2. /\ pipe' \in [Pipes -> {"gone", "listening", "connected"}]
      /\ \A q \in Pipes : pipe'[q] = "listening" => pipe[q] = "listening"
  BY <1>1 DEF TypeOK
<1>3. TypeOK' BY <1>1, <1>2 DEF TypeOK
<1>4. AcceptorIsOwned' BY <1>1, <1>3 DEF AcceptorIsOwned
<1>5. HandsMatch'
  <2>1. \A a \in Acceptors : accept[a] = "admit" => hand[a] \in Pipes
    BY <1>1 DEF HandsMatch, TypeOK
  <2>2. QED BY <1>1, <1>2, <2>1 DEF HandsMatch
<1>6. \A q \in Pipes : Serving(q)' <=> Serving(q)
  BY <1>1 DEF Serving, TypeOK
<1>7. ClientsAreServing'
  <2>1. \A q \in registered' : thread'[q] \in {"read", "chunk", "leave"}
    BY <1>1 DEF ClientsAreServing, TypeOK
  <2>2. QED BY <1>1, <1>6, <2>1 DEF ClientsAreServing
<1>8. StopWaits'
  <2> USE <1>1
  <2>1. QED BY <1>6 DEF StopWaits
<1>9. QuietIsEmpty' BY <1>1 DEF QuietIsEmpty
<1>10. QED BY <1>4, <1>5, <1>7, <1>8, <1>9 DEF ServerInv

LEMMA RemoveStep ==
  ASSUME ServerInv, NEW p \in Pipes, Remove(p)
  PROVE  ServerInv'
<1>1. /\ TypeOK /\ AcceptorIsOwned /\ HandsMatch /\ ClientsAreServing /\ StopWaits /\ QuietIsEmpty
      /\ UNCHANGED <<running, stopSignal, descriptor, acceptThread, listener, accept, hand, pipe,
                     peer, registered, control, cancels, joins, stopped, quiet>>
      /\ thread[p] = "remove" /\ thread' = [thread EXCEPT ![p] = "dispose"]
      /\ clients' = clients \ {p}
  BY DEF Remove, At, ServerInv, AcceptorIsOwned, acceptorVars, controlVars
<1>2. TypeOK' BY <1>1 DEF TypeOK
<1>3. AcceptorIsOwned' BY <1>1, <1>2 DEF AcceptorIsOwned
<1>4. HandsMatch' BY <1>1 DEF HandsMatch
<1>5. \A q \in Pipes : Serving(q)' <=> Serving(q) /\ q # p
  BY <1>1 DEF Serving, TypeOK
<1>6. ClientsAreServing'
  <2>1. \A q \in registered' : thread'[q] \in {"read", "chunk", "leave"}
    BY <1>1 DEF ClientsAreServing, TypeOK
  <2>2. QED BY <1>1, <1>5, <2>1 DEF ClientsAreServing
<1>7. StopWaits' BY <1>1, <1>5 DEF StopWaits
<1>8. QuietIsEmpty' BY <1>1 DEF QuietIsEmpty
<1>9. QED BY <1>3, <1>4, <1>6, <1>7, <1>8 DEF ServerInv

LEMMA PeerStep ==
  ASSUME ServerInv, NEW p \in Pipes, PeerConnects(p) \/ PeerCloses(p)
  PROVE  ServerInv'
<1>1. /\ TypeOK /\ AcceptorIsOwned /\ HandsMatch /\ ClientsAreServing /\ StopWaits /\ QuietIsEmpty
      /\ UNCHANGED <<running, stopSignal, descriptor, acceptThread, listener, clients, accept, hand,
                     thread, registered, control, cancels, joins, stopped, quiet>>
  BY DEF PeerConnects, PeerCloses, ServerInv, AcceptorIsOwned, serverVars, acceptorVars, clientVars,
         controlVars
<1>2. /\ pipe' \in [Pipes -> {"gone", "listening", "connected"}]
      /\ peer' \in [Pipes -> BOOLEAN]
      /\ \A q \in Pipes : pipe'[q] = "listening" => pipe[q] = "listening"
  BY <1>1 DEF PeerConnects, PeerCloses, TypeOK
<1>3. TypeOK' BY <1>1, <1>2 DEF TypeOK
<1>4. AcceptorIsOwned' BY <1>1, <1>3 DEF AcceptorIsOwned
<1>5. HandsMatch'
  <2>1. \A a \in Acceptors : accept[a] = "admit" => hand[a] \in Pipes
    BY <1>1 DEF HandsMatch, TypeOK
  <2>2. QED BY <1>1, <1>2, <2>1 DEF HandsMatch
<1>6. ClientsAreServing' /\ QuietIsEmpty' BY <1>1 DEF ClientsAreServing, Serving, QuietIsEmpty
<1>7. StopWaits' BY <1>1 DEF StopWaits, Serving
<1>8. QED BY <1>4, <1>5, <1>6, <1>7 DEF ServerInv

LEMMA ClientSteps ==
  ASSUME ServerInv, NEW p \in Pipes, ClientStep(p)
  PROVE  ServerInv'
<1>1. (p \in registered => thread[p] \in {"read", "chunk", "leave"}) /\ registered \subseteq Pipes
  BY DEF ServerInv, ClientsAreServing, AcceptorIsOwned, TypeOK
<1>2. CASE ReadChunk(p) BY <1>1, <1>2, ClientMoves DEF ReadChunk, At, Serving
<1>3. CASE HandleChunk(p)
  <2>1. PICK next \in {"read", "chunk"} : thread' = [thread EXCEPT ![p] = next]
    BY <1>3 DEF HandleChunk, At
  <2>2. QED BY <1>3, <2>1, ClientMoves DEF HandleChunk, Serving
<1>4. CASE ChunkIsBad(p) BY <1>1, <1>4, ClientMoves DEF ChunkIsBad, At, Serving
<1>5. CASE ReadEnds(p) BY <1>1, <1>5, ClientMoves DEF ReadEnds, At, Serving
<1>6. CASE Leave(p) BY <1>1, <1>6, ClientMoves DEF Leave, LeaveEngine, At, Serving
<1>7. CASE Finish(p) BY <1>1, <1>7, ClientMoves DEF Finish, DisposePipe, At, Serving
<1>8. CASE Remove(p) BY <1>8, RemoveStep
<1>9. QED BY <1>2, <1>3, <1>4, <1>5, <1>6, <1>7, <1>8 DEF ClientStep

(* No step of the plug-in's server, and none that leaves it alone, breaks  *)
(* its invariant.                                                          *)
LEMMA ServerStep == ServerInv /\ [Next]_vars => ServerInv'
<1> SUFFICES ASSUME ServerInv, [Next]_vars PROVE ServerInv'
  OBVIOUS
<1>1. ASSUME NEW a \in Acceptors, Start(a) \/ AcceptStep(a) PROVE ServerInv'
  BY <1>1, StartStep, AcceptLoopStep, CreateStep, PublishStep, WaitStep, AdmitStep DEF AcceptStep
<1>2. CASE StopBegin \/ StopStep
  BY <1>2, StopBeginStep, StopCancelStep, StopJoinStep, StopFinishStep DEF StopStep
<1>3. ASSUME NEW p \in Pipes, ClientStep(p) \/ PeerConnects(p) \/ PeerCloses(p)
      PROVE  ServerInv'
  BY <1>3, ClientSteps, PeerStep
<1>4. CASE UNCHANGED vars
  BY <1>4 DEF vars, serverVars, acceptorVars, clientVars, controlVars, ServerInv, AcceptorIsOwned,
              TypeOK, HandsMatch, ClientsAreServing, Serving, StopWaits, QuietIsEmpty
<1>5. QED BY <1>1, <1>2, <1>3, <1>4 DEF Next

(* Nothing runs and nothing listens once nothing is owned.                 *)
LEMMA NothingIsLeft == ServerInv => AcceptorIsOwned /\ StopIsFinal
<1> SUFFICES ASSUME ServerInv, quiet
             PROVE  /\ registered = {} /\ ~descriptor
                    /\ \A p \in Pipes : /\ thread[p] \in {"dispose", "done"}
                                        /\ pipe[p] # "listening"
  BY DEF ServerInv, StopIsFinal
<1>1. /\ TypeOK /\ AcceptorIsOwned /\ HandsMatch /\ ClientsAreServing
      /\ ~descriptor /\ clients = {}
  BY DEF ServerInv, AcceptorIsOwned, QuietIsEmpty
<1>2. \A a \in Acceptors : accept[a] = "done" /\ hand[a] = None
  BY <1>1 DEF AcceptorIsOwned, HandsMatch
<1>3. \A p \in Pipes : pipe[p] # "listening"
  BY <1>1, <1>2, ServerConstants DEF HandsMatch
<1>4. (\A p \in Pipes : thread[p] \in {"dispose", "done"}) /\ registered = {}
  BY <1>1 DEF ClientsAreServing, Serving, TypeOK
<1>5. QED BY <1>1, <1>3, <1>4

(***************************************************************************)
(* The server of the viewer: step by step.                                 *)
(***************************************************************************)
LEMMA ViewerInit == V!Init => ViewerInv
BY DEF V!Init, ViewerInv, Over

(* Acceptor and readers move, but not stop(); where the acceptor has ended *)
(* no reader begins any more.                                              *)
LEMMA ThreadsMove ==
  ASSUME ViewerInv, UNCHANGED <<closing, targets, timedOut>>,
         handle' \in [Clients -> {"none", "open", "closed"}],
         reader' \in [Clients -> {"none", "checking", "reading", "handing", "dropping", "leaving",
                                  "closing", "ended"}],
         \A c \in Clients : Over(c)' \/ reader'[c] = "closing" => handle'[c] # "open",
         acceptor = "ended" => acceptor' = "ended" /\ \A c \in Clients : Over(c) => Over(c)'
  PROVE  ViewerInv'
BY DEF ViewerInv

(* A reader goes on within its loop and keeps its handle.                  *)
LEMMA ReaderMoves ==
  ASSUME ViewerInv, NEW c \in Clients,
         NEW from \in {"checking", "reading", "handing", "dropping"},
         NEW to \in {"checking", "reading", "handing", "dropping", "leaving"},
         V!Goes(c, from, to),
         UNCHANGED <<acceptor, handle, closing, targets, timedOut>>
  PROVE  ViewerInv'
<1>1. reader[c] = from /\ reader' = [reader EXCEPT ![c] = to] BY DEF V!Goes
<1>2. /\ reader' \in [Clients -> {"none", "checking", "reading", "handing", "dropping", "leaving",
                                  "closing", "ended"}]
      /\ \A d \in Clients : Over(d)' <=> Over(d)
      /\ \A d \in Clients : reader'[d] = "closing" => reader[d] = "closing"
  BY <1>1 DEF ViewerInv, Over
<1>3. \A d \in Clients : Over(d)' \/ reader'[d] = "closing" => handle'[d] # "open"
  BY <1>2 DEF ViewerInv
<1>4. handle' \in [Clients -> {"none", "open", "closed"}] BY DEF ViewerInv
<1>5. QED BY <1>2, <1>3, <1>4, ThreadsMove

LEMMA ReaderSteps ==
  ASSUME ViewerInv, NEW c \in Clients, V!ReaderStep(c)
  PROVE  ViewerInv'
<1>1. CASE V!CheckStop(c)
  <2>1. PICK to \in {"leaving", "reading"} : V!Goes(c, "checking", to)
    BY <1>1 DEF V!CheckStop
  <2>2. UNCHANGED <<acceptor, handle, closing, targets, timedOut>>
    BY <1>1 DEF V!CheckStop, V!serverVars, V!closingVars
  <2>3. QED BY <2>1, <2>2, ReaderMoves
<1>2. CASE V!ReadSome(c)
  BY <1>2, ReaderMoves DEF V!ReadSome, V!serverVars, V!closingVars
<1>3. CASE V!ReadFails(c)
  BY <1>3, ReaderMoves DEF V!ReadFails, V!serverVars, V!closingVars
<1>4. CASE V!HandFrame(c)
  <2>1. UNCHANGED <<acceptor, handle, closing, targets, timedOut>>
    BY <1>4 DEF V!HandFrame, V!serverVars, V!closingVars
  <2>2. reader' = reader \/ V!Goes(c, "handing", "dropping")
    BY <1>4 DEF V!HandFrame
  <2>3. CASE reader' = reader
    BY <2>1, <2>3 DEF ViewerInv, Over
  <2>4. CASE V!Goes(c, "handing", "dropping")
    BY <2>1, <2>4, ReaderMoves
  <2>5. QED BY <2>2, <2>3, <2>4
<1>5. CASE V!CountDrop(c)
  BY <1>5, ReaderMoves DEF V!CountDrop, V!serverVars, V!closingVars
<1>6. CASE V!NextChunk(c)
  <2>1. UNCHANGED <<acceptor, handle, closing, targets, timedOut>>
    BY <1>6 DEF V!NextChunk, V!serverVars, V!closingVars
  <2>2. V!Goes(c, "handing", "checking") \/ V!Goes(c, "handing", "leaving")
    BY <1>6 DEF V!NextChunk
  <2>3. QED BY <2>1, <2>2, ReaderMoves
<1>7. CASE V!CloseHandle(c)
  <2>1. /\ UNCHANGED <<acceptor, closing, targets, timedOut>>
        /\ reader[c] = "leaving" /\ reader' = [reader EXCEPT ![c] = "closing"]
        /\ handle' = [handle EXCEPT ![c] = "closed"]
    BY <1>7 DEF V!CloseHandle, V!Goes, V!serverVars, V!closingVars
  <2>2. /\ handle' \in [Clients -> {"none", "open", "closed"}]
        /\ reader' \in [Clients -> {"none", "checking", "reading", "handing", "dropping",
                                    "leaving", "closing", "ended"}]
    BY <2>1 DEF ViewerInv
  <2>3. \A d \in Clients : Over(d)' \/ reader'[d] = "closing" => handle'[d] # "open"
    BY <2>1 DEF ViewerInv, Over
  <2>4. \A d \in Clients : Over(d) => Over(d)'
    BY <2>1 DEF ViewerInv, Over
  <2>5. QED BY <2>1, <2>2, <2>3, <2>4, ThreadsMove
<1>8. CASE V!Unregister(c)
  <2>1. /\ UNCHANGED <<acceptor, handle, closing, targets, timedOut>>
        /\ reader[c] = "closing" /\ reader' = [reader EXCEPT ![c] = "ended"]
    BY <1>8 DEF V!Unregister, V!Goes, V!serverVars, V!closingVars
  <2>2. reader' \in [Clients -> {"none", "checking", "reading", "handing", "dropping",
                                 "leaving", "closing", "ended"}]
    BY <2>1 DEF ViewerInv
  <2>3. \A d \in Clients : Over(d)' \/ reader'[d] = "closing" => handle'[d] # "open"
    BY <2>1 DEF ViewerInv, Over
  <2>4. \A d \in Clients : Over(d) => Over(d)'
    BY <2>1 DEF ViewerInv, Over
  <2>5. handle' \in [Clients -> {"none", "open", "closed"}] BY <2>1 DEF ViewerInv
  <2>6. QED BY <2>1, <2>2, <2>3, <2>4, <2>5, ThreadsMove
<1>9. QED BY <1>1, <1>2, <1>3, <1>4, <1>5, <1>6, <1>7, <1>8 DEF V!ReaderStep

(* Only Register begins a reader, and an acceptor that has ended does not  *)
(* come to it.                                                             *)
LEMMA AcceptorMoves ==
  ASSUME ViewerInv, acceptor # "ended", UNCHANGED <<reader, handle, closing, targets, timedOut>>
  PROVE  ViewerInv'
BY DEF ViewerInv, Over

LEMMA AcceptorSteps ==
  ASSUME ViewerInv, V!AcceptorStep \/ V!PipeFails
  PROVE  ViewerInv'
<1>1. CASE V!CreatePipe
  BY <1>1, AcceptorMoves DEF V!CreatePipe, V!Accepts, V!readerVars, V!closingVars
<1>2. CASE V!SetListener
  BY <1>2, AcceptorMoves DEF V!SetListener, V!Accepts, V!readerVars, V!closingVars
<1>3. CASE V!CheckBeforeWait
  BY <1>3, AcceptorMoves DEF V!CheckBeforeWait, V!TurnAway, V!Proceed, V!readerVars, V!closingVars
<1>4. CASE V!ClientArrives
  BY <1>4, AcceptorMoves DEF V!ClientArrives, V!readerVars, V!closingVars
<1>5. CASE V!CheckAfterWait
  BY <1>5, AcceptorMoves DEF V!CheckAfterWait, V!TurnAway, V!Proceed, V!readerVars, V!closingVars
<1>6. CASE V!PipeFails
  BY <1>6, AcceptorMoves DEF V!PipeFails, V!TurnAway, V!readerVars, V!closingVars
<1>7. CASE V!Register
  <2>1. acceptor = "registering" /\ UNCHANGED <<closing, targets, timedOut>>
    BY <1>7 DEF V!Register, V!closingVars
  <2>2. CASE V!TurnAway
    BY <2>1, <2>2, AcceptorMoves DEF V!TurnAway, V!readerVars
  <2>3. CASE /\ guest \in Clients
             /\ reader' = [reader EXCEPT ![guest] = "checking"]
             /\ handle' = [handle EXCEPT ![guest] = "open"]
    <3>1. /\ handle' \in [Clients -> {"none", "open", "closed"}]
          /\ reader' \in [Clients -> {"none", "checking", "reading", "handing", "dropping",
                                      "leaving", "closing", "ended"}]
      BY <2>3 DEF ViewerInv
    <3>2. \A d \in Clients : Over(d)' \/ reader'[d] = "closing" => handle'[d] # "open"
      BY <2>3 DEF ViewerInv, Over
    <3>3. QED BY <2>1, <3>1, <3>2, ThreadsMove
  <2>4. QED BY <1>7, <2>2, <2>3 DEF V!Register
<1>8. QED BY <1>1, <1>2, <1>3, <1>4, <1>5, <1>6, <1>7 DEF V!AcceptorStep

(* stop() waits for the acceptor before it looks who is registered; those  *)
(* it still has to wait for are among the targets.                         *)
LEMMA StopSteps ==
  ASSUME ViewerInv, V!Stop \/ V!StopStep
  PROVE  ViewerInv'
<1>1. CASE V!Stop
  BY <1>1 DEF V!Stop, V!readerVars, ViewerInv, Over
<1>2. CASE V!TakeHandles
  BY <1>2 DEF V!TakeHandles, V!serverVars, V!readerVars, ViewerInv, Over
<1>3. CASE V!Disconnect
  <2>1. /\ closing = "disconnecting"
        /\ UNCHANGED <<acceptor, reader, closing, timedOut>>
    BY <1>3 DEF V!Disconnect, V!serverVars
  <2>2. PICK c \in targets : handle' = [handle EXCEPT ![c] = "closed"]
    BY <1>3 DEF V!Disconnect
  <2>3. /\ handle' \in [Clients -> {"none", "open", "closed"}]
        /\ \A d \in Clients : handle'[d] = "open" => handle[d] = "open"
    BY <2>2 DEF ViewerInv
  <2>4. QED BY <2>1, <2>3 DEF ViewerInv, Over
<1>4. CASE V!WakeListener
  BY <1>4 DEF V!WakeListener, V!readerVars, ViewerInv, Over
<1>5. CASE V!JoinAcceptor
  <2>1. closing = "joining" /\ UNCHANGED <<acceptor, reader, handle>>
    BY <1>5 DEF V!JoinAcceptor, V!serverVars, V!readerVars
  <2>2. CASE acceptor # "ended" /\ wakes > 0
    <3>1. closing' = "waking" /\ UNCHANGED <<targets, timedOut>>
      BY <1>5, <2>2 DEF V!JoinAcceptor
    <3>2. QED BY <2>1, <3>1 DEF ViewerInv, Over
  <2>3. CASE ~(acceptor # "ended" /\ wakes > 0)
    <3>1. /\ closing' = "joiningReaders" /\ targets' = V!ReadersToJoin
          /\ timedOut' = (acceptor # "ended")
      BY <1>5, <2>3 DEF V!JoinAcceptor
    <3>2. \A c \in Clients \ targets' : Over(c)
      BY <3>1 DEF V!ReadersToJoin, V!Registered, Over
    <3>3. timedOut' \in BOOLEAN /\ (~timedOut' => acceptor = "ended")
      BY <3>1
    <3>4. QED BY <2>1, <3>1, <3>2, <3>3 DEF ViewerInv, Over
  <2>4. QED BY <2>2, <2>3
<1>6. CASE V!JoinReader
  <2>1. closing = "joiningReaders" /\ UNCHANGED <<acceptor, reader, handle, closing>>
    BY <1>6 DEF V!JoinReader, V!serverVars, V!readerVars
  <2>2. PICK c \in targets : /\ targets' = targets \ {c}
                             /\ timedOut' = (timedOut \/ reader[c] # "ended")
    BY <1>6 DEF V!JoinReader
  <2>3. /\ timedOut' \in BOOLEAN
        /\ ~timedOut' => ~timedOut /\ reader[c] = "ended"
    BY <2>2 DEF ViewerInv
  <2>4. QED BY <2>1, <2>2, <2>3 DEF ViewerInv, Over
<1>7. CASE V!Return
  BY <1>7 DEF V!Return, V!serverVars, V!readerVars, ViewerInv, Over
<1>8. QED BY <1>1, <1>2, <1>3, <1>4, <1>5, <1>6, <1>7 DEF V!StopStep

LEMMA ViewerStep == ViewerInv /\ [V!Next]_viewerVars => ViewerInv'
<1> SUFFICES ASSUME ViewerInv, [V!Next]_viewerVars PROVE ViewerInv'
  OBVIOUS
<1>1. CASE V!AcceptorStep \/ V!PipeFails BY <1>1, AcceptorSteps
<1>2. CASE V!Stop \/ V!StopStep BY <1>2, StopSteps
<1>3. CASE V!Refresh \/ V!CountTold
  BY <1>3 DEF V!Refresh, V!CountTold, V!serverVars, V!readerVars, V!closingVars, ViewerInv, Over
<1>4. ASSUME NEW c \in Clients, V!Connect(c) \/ V!Write(c) \/ V!Leave(c) PROVE ViewerInv'
  <2>1. UNCHANGED <<acceptor, reader, handle, closing, targets, timedOut>>
    BY <1>4 DEF V!Connect, V!Write, V!Leave, V!serverVars, V!readerVars, V!closingVars
  <2>2. QED BY <2>1 DEF ViewerInv, Over
<1>5. ASSUME NEW c \in Clients, V!ReaderStep(c) PROVE ViewerInv'
  BY <1>5, ReaderSteps
<1>6. CASE UNCHANGED viewerVars BY <1>6 DEF viewerVars, ViewerInv, Over
<1>7. QED BY <1>1, <1>2, <1>3, <1>4, <1>5, <1>6 DEF V!Next

LEMMA NoThreadIsLeft == ViewerInv => V!StopLeavesNothing
BY DEF ViewerInv, V!StopLeavesNothing, Over

(***************************************************************************)
(* Whoever is waited for can go on.                                        *)
(***************************************************************************)

(* No worker of the plug-in's server is left, though a pipe may be.        *)
AtRest == (\A a \in Acceptors : accept[a] = "done") /\ \A p \in Pipes : thread[p] = "done"

Lively ==
  /\ running => acceptThread # None /\ accept[acceptThread] # "done"
  /\ running \/ stopSignal \/ AtRest

(* A step that leaves _running, the signal and the acceptor's owner alone. *)
LEMMA LivelyStays ==
  ASSUME ServerInv, Lively, UNCHANGED <<running, stopSignal, acceptThread>>,
         running => \A a \in Acceptors : accept[a] # "done" => accept'[a] # "done",
         AtRest => AtRest'
  PROVE  Lively'
<1>1. acceptThread \in Acceptors \union {None} BY DEF ServerInv, AcceptorIsOwned, TypeOK
<1>2. QED BY <1>1 DEF Lively

(* A turn of the acceptor's loop ends it only when the server is stopped.  *)
LEMMA AcceptLivelyStep ==
  ASSUME ServerInv, Lively, NEW a \in Acceptors, AcceptStep(a)
  PROVE  Lively'
<1>1. /\ accept[a] # "done" /\ UNCHANGED <<running, stopSignal, acceptThread>>
      /\ accept \in [Acceptors -> {"done", "loop", "create", "publish", "wait", "admit"}]
  BY DEF AcceptStep, AcceptLoop, Create, Publish, Wait, Admit, serverVars, ServerInv,
         AcceptorIsOwned, TypeOK
<1>2. PICK to : accept' = [accept EXCEPT ![a] = to] /\ (running => to # "done")
  BY DEF AcceptStep, AcceptLoop, Create, Publish, Wait, Admit, Goto, Retry
<1>3. running => \A b \in Acceptors : accept[b] # "done" => accept'[b] # "done"
  BY <1>1, <1>2
<1>4. ~AtRest BY <1>1 DEF AtRest
<1>5. QED BY <1>1, <1>3, <1>4, LivelyStays

LEMMA ControlLivelyStep ==
  ASSUME ServerInv, Lively, StopBegin \/ StopStep
  PROVE  Lively'
<1>1. CASE StopBegin
  <2>1. UNCHANGED <<acceptThread, accept, thread>>
    BY <1>1 DEF StopBegin, acceptorVars, clientVars
  <2>2. UNCHANGED <<running, stopSignal>> \/ (running' = FALSE /\ stopSignal' = TRUE)
    BY <1>1 DEF StopBegin
  <2>3. QED BY <2>1, <2>2 DEF Lively, AtRest
<1>2. CASE StopCancel \/ StopJoin
  BY <1>2 DEF StopCancel, StopJoin, serverVars, acceptorVars, clientVars, Lively, AtRest
<1>3. CASE StopFinish
  <2>1. ~running BY <1>3 DEF StopFinish, ServerInv, StopWaits
  <2>2. UNCHANGED <<running, stopSignal, accept, thread>>
    BY <1>3 DEF StopFinish, acceptorVars, clientVars
  <2>3. QED BY <2>1, <2>2 DEF Lively, AtRest
<1>4. QED BY <1>1, <1>2, <1>3 DEF StopStep

LEMMA LivelyStep == ServerInv /\ Lively /\ [Next]_vars => Lively'
<1> SUFFICES ASSUME ServerInv, Lively, [Next]_vars PROVE Lively'
  OBVIOUS
<1>1. ASSUME NEW a \in Acceptors, Start(a) PROVE Lively'
  BY <1>1, ServerConstants DEF Start, Lively, ServerInv, AcceptorIsOwned, TypeOK
<1>2. ASSUME NEW a \in Acceptors, AcceptStep(a) PROVE Lively'
  BY <1>2, AcceptLivelyStep
<1>3. CASE StopBegin \/ StopStep BY <1>3, ControlLivelyStep
<1>4. ASSUME NEW p \in Pipes, ClientStep(p) PROVE Lively'
  <2>1. thread[p] # "done" /\ UNCHANGED <<running, stopSignal, acceptThread, accept>>
    BY <1>4 DEF ClientStep, ReadChunk, HandleChunk, ChunkIsBad, ReadEnds, Leave, Remove, Finish,
                serverVars, acceptorVars
  <2>2. ~AtRest BY <2>1 DEF AtRest
  <2>3. QED BY <2>1, <2>2, LivelyStays
<1>5. ASSUME NEW p \in Pipes, PeerConnects(p) \/ PeerCloses(p) PROVE Lively'
  BY <1>5 DEF PeerConnects, PeerCloses, serverVars, acceptorVars, clientVars, Lively, AtRest
<1>6. CASE UNCHANGED vars
  BY <1>6 DEF vars, serverVars, acceptorVars, clientVars, Lively, AtRest
<1>7. QED BY <1>1, <1>2, <1>3, <1>4, <1>5, <1>6 DEF Next

(* stop() sets the event before it wakes anybody, an acceptor that waits   *)
(* has set the listener, and until the handles have been gone through a    *)
(* reader that reads is still to be disconnected.                          *)
Woken == closing \in {"waking", "joining", "joiningReaders", "closed"}

Sleepless ==
  /\ closing # "open" => stopping = TRUE
  /\ acceptor \in {"listening", "waiting"} => vListener = TRUE
  /\ Woken /\ acceptor = "waiting" => guest # V!Nobody
  /\ closing = "disconnecting" \/ Woken =>
       \A c \in Clients : reader[c] = "reading" =>
         handle[c] = "closed" \/ (closing = "disconnecting" /\ c \in targets)

(* Acceptor and readers move, but not stop(): after it has begun nobody    *)
(* goes to sleep any more.                                                 *)
LEMMA NobodyDozes ==
  ASSUME Sleepless, UNCHANGED <<stopping, closing, targets>>,
         acceptor' \in {"listening", "waiting"} => vListener' = TRUE,
         stopping = TRUE /\ acceptor' = "waiting" => acceptor = "waiting",
         acceptor' = "waiting" /\ guest # V!Nobody => guest' = guest,
         \A c \in Clients : stopping = TRUE /\ reader'[c] = "reading" =>
           reader[c] = "reading" /\ (handle[c] = "closed" => handle'[c] = "closed")
  PROVE  Sleepless'
<1>1. Woken' <=> Woken BY DEF Woken
<1>2. Woken \/ closing = "disconnecting" => stopping = TRUE BY DEF Sleepless, Woken
<1>3. QED BY <1>1, <1>2 DEF Sleepless

LEMMA AcceptorWakes ==
  ASSUME Sleepless, ViewerInv, V!AcceptorStep \/ V!PipeFails
  PROVE  Sleepless'
<1>1. CASE V!Register /\ ~V!TurnAway
  <2>1. /\ acceptor' = "loop" /\ UNCHANGED <<stopping, closing, targets>>
        /\ reader' = [reader EXCEPT ![guest] = "checking"]
        /\ handle' = [handle EXCEPT ![guest] = "open"]
    BY <1>1 DEF V!Register, V!closingVars
  <2>2. \A c \in Clients : reader'[c] = "reading" =>
          reader[c] = "reading" /\ (handle[c] = "closed" => handle'[c] = "closed")
    BY <2>1 DEF ViewerInv
  <2>3. QED BY <2>1, <2>2, NobodyDozes
<1>2. CASE V!CreatePipe
  BY <1>2, NobodyDozes DEF V!CreatePipe, V!Accepts, V!readerVars, V!closingVars
<1>3. CASE V!SetListener
  BY <1>3, NobodyDozes DEF V!SetListener, V!Accepts, V!readerVars, V!closingVars
<1>4. CASE V!CheckBeforeWait
  BY <1>4, NobodyDozes
  DEF V!CheckBeforeWait, V!TurnAway, V!Proceed, V!readerVars, V!closingVars, Sleepless
<1>5. CASE V!ClientArrives
  BY <1>5, NobodyDozes DEF V!ClientArrives, V!readerVars, V!closingVars
<1>6. CASE V!CheckAfterWait
  BY <1>6, NobodyDozes DEF V!CheckAfterWait, V!TurnAway, V!Proceed, V!readerVars, V!closingVars
<1>7. CASE V!PipeFails
  BY <1>7, NobodyDozes DEF V!PipeFails, V!TurnAway, V!readerVars, V!closingVars
<1>8. CASE V!Register /\ V!TurnAway
  BY <1>8, NobodyDozes DEF V!Register, V!TurnAway, V!readerVars, V!closingVars
<1>9. QED BY <1>1, <1>2, <1>3, <1>4, <1>5, <1>6, <1>7, <1>8 DEF V!AcceptorStep

(* A reader that moves reads on only where no stop has been asked for.     *)
LEMMA ReaderReads ==
  ASSUME Sleepless, ViewerInv, NEW c \in Clients,
         NEW from \in {"checking", "reading", "handing", "dropping", "leaving", "closing"},
         NEW to \in {"checking", "reading", "handing", "dropping", "leaving", "closing", "ended"},
         V!Goes(c, from, to) \/ reader' = reader,
         stopping = TRUE => to # "reading",
         handle' \in {handle, [handle EXCEPT ![c] = "closed"]},
         UNCHANGED <<stopping, acceptor, guest, vListener, closing, targets>>
  PROVE  Sleepless'
<1>1. acceptor' \in {"listening", "waiting"} => vListener' = TRUE
  BY DEF Sleepless
<1>2. \A d \in Clients : stopping = TRUE /\ reader'[d] = "reading" =>
        reader[d] = "reading" /\ (handle[d] = "closed" => handle'[d] = "closed")
  BY DEF ViewerInv, V!Goes
<1>3. QED BY <1>1, <1>2, NobodyDozes

(* A reader reads on only after it has tested for a stop.                  *)
LEMMA ReaderWakes ==
  ASSUME Sleepless, ViewerInv, NEW c \in Clients, V!ReaderStep(c)
  PROVE  Sleepless'
<1>1. UNCHANGED <<stopping, acceptor, guest, vListener, closing, targets>>
  BY DEF V!ReaderStep, V!CheckStop, V!ReadSome, V!ReadFails, V!HandFrame, V!CountDrop,
         V!NextChunk, V!CloseHandle, V!Unregister, V!serverVars, V!closingVars
<1>2. CASE V!CheckStop(c)
  <2>1. PICK to \in {"leaving", "reading"} :
          V!Goes(c, "checking", to) /\ (stopping = TRUE => to # "reading")
    BY <1>2 DEF V!CheckStop
  <2>2. handle' = handle BY <1>2 DEF V!CheckStop
  <2>3. QED BY <1>1, <2>1, <2>2, ReaderReads
<1>3. CASE V!ReadSome(c) BY <1>1, <1>3, ReaderReads DEF V!ReadSome
<1>4. CASE V!ReadFails(c) BY <1>1, <1>4, ReaderReads DEF V!ReadFails
<1>5. CASE V!HandFrame(c)
  <2>1. (V!Goes(c, "handing", "dropping") \/ reader' = reader) /\ handle' = handle
    BY <1>5 DEF V!HandFrame
  <2>2. CASE V!Goes(c, "handing", "dropping") BY <1>1, <2>1, <2>2, ReaderReads
  <2>3. CASE reader' = reader BY <1>1, <2>1, <2>3, ReaderReads
  <2>4. QED BY <2>1, <2>2, <2>3
<1>6. CASE V!CountDrop(c) BY <1>1, <1>6, ReaderReads DEF V!CountDrop
<1>7. CASE V!NextChunk(c)
  <2>1. V!Goes(c, "handing", "checking") \/ V!Goes(c, "handing", "leaving")
    BY <1>7 DEF V!NextChunk
  <2>2. handle' = handle BY <1>7 DEF V!NextChunk
  <2>3. QED BY <1>1, <2>1, <2>2, ReaderReads
<1>8. CASE V!CloseHandle(c) BY <1>1, <1>8, ReaderReads DEF V!CloseHandle
<1>9. CASE V!Unregister(c) BY <1>1, <1>9, ReaderReads DEF V!Unregister
<1>10. QED BY <1>2, <1>3, <1>4, <1>5, <1>6, <1>7, <1>8, <1>9 DEF V!ReaderStep

(* stop() goes on only when it has woken or disconnected whom it must.     *)
LEMMA StopWakes ==
  ASSUME Sleepless, ViewerInv, V!Stop \/ V!StopStep
  PROVE  Sleepless'
<1>1. CASE V!Stop
  BY <1>1 DEF V!Stop, V!readerVars, Sleepless, Woken
<1>2. CASE V!TakeHandles
  BY <1>2 DEF V!TakeHandles, V!Registered, V!serverVars, V!readerVars, Sleepless, Woken
<1>3. CASE V!Disconnect
  <2>1. closing = "disconnecting" /\ UNCHANGED <<stopping, acceptor, guest, vListener, reader, closing>>
    BY <1>3 DEF V!Disconnect, V!serverVars
  <2>2. PICK c \in targets : /\ targets' = targets \ {c}
                             /\ handle' = [handle EXCEPT ![c] = "closed"]
    BY <1>3 DEF V!Disconnect
  <2>3. \A d \in Clients : handle[d] = "closed" \/ d = c => handle'[d] = "closed"
    BY <2>2 DEF ViewerInv
  <2>4. QED BY <2>1, <2>2, <2>3 DEF Sleepless, Woken
<1>4. CASE V!WakeListener
  <2>1. /\ closing' = "joining" /\ UNCHANGED <<stopping, acceptor, vListener, reader, handle, targets>>
        /\ (closing = "disconnecting" /\ targets = {}) \/ closing = "waking"
    BY <1>4 DEF V!WakeListener, V!readerVars
  <2>2. acceptor = "waiting" => guest' # V!Nobody
    BY <1>4 DEF V!WakeListener, Sleepless, V!Nobody, V!Waker
  <2>3. QED BY <2>1, <2>2 DEF Sleepless, Woken
<1>5. CASE V!JoinAcceptor
  BY <1>5 DEF V!JoinAcceptor, V!serverVars, V!readerVars, Sleepless, Woken
<1>6. CASE V!JoinReader
  BY <1>6 DEF V!JoinReader, V!serverVars, V!readerVars, Sleepless, Woken
<1>7. CASE V!Return
  BY <1>7 DEF V!Return, V!serverVars, V!readerVars, Sleepless, Woken
<1>8. QED BY <1>1, <1>2, <1>3, <1>4, <1>5, <1>6, <1>7 DEF V!StopStep

LEMMA SleeplessStep == ViewerInv /\ Sleepless /\ [V!Next]_viewerVars => Sleepless'
<1> SUFFICES ASSUME ViewerInv, Sleepless, [V!Next]_viewerVars PROVE Sleepless'
  OBVIOUS
<1>1. CASE V!AcceptorStep \/ V!PipeFails BY <1>1, AcceptorWakes
<1>2. CASE V!Stop \/ V!StopStep BY <1>2, StopWakes
<1>3. CASE V!Refresh \/ V!CountTold
  BY <1>3 DEF V!Refresh, V!CountTold, V!serverVars, V!readerVars, V!closingVars, Sleepless, Woken
<1>4. ASSUME NEW c \in Clients, V!Connect(c) PROVE Sleepless'
  <2>1. guest = V!Nobody /\ UNCHANGED <<stopping, acceptor, vListener, reader, handle, closing, targets>>
    BY <1>4 DEF V!Connect, V!readerVars, V!closingVars
  <2>2. QED BY <2>1 DEF Sleepless, Woken
<1>5. ASSUME NEW c \in Clients, V!Write(c) \/ V!Leave(c) PROVE Sleepless'
  BY <1>5 DEF V!Write, V!Leave, V!serverVars, V!readerVars, V!closingVars, Sleepless, Woken
<1>6. ASSUME NEW c \in Clients, V!ReaderStep(c) PROVE Sleepless'
  BY <1>6, ReaderWakes
<1>7. CASE UNCHANGED viewerVars BY <1>7 DEF viewerVars, Sleepless, Woken
<1>8. QED BY <1>1, <1>2, <1>3, <1>4, <1>5, <1>6, <1>7 DEF V!Next

(***************************************************************************)
(* Both.                                                                   *)
(***************************************************************************)

(* Of either server it holds, for all numbers of threads, pipes, clients   *)
(* and attempts: a stop that has returned without a timeout has left no    *)
(* thread, no registered connection, no listening pipe and no open handle; *)
(* and no acceptor of the plug-in uses a security descriptor that a stop,  *)
(* even one that timed out, has freed under it.  Nobody is waited for in   *)
(* vain, wherever a stop falls: the plug-in's acceptor outlives whatever   *)
(* its loop meets, and its signal stays set until the last thread has seen *)
(* it; the viewer's stop() leaves no acceptor on a pipe that nobody        *)
(* connects to and no reader on a handle that is open.                     *)
THEOREM StopsAreAlwaysSound == ServersSpec => []StopsAreSound
<1> DEFINE Inv == ServerInv /\ ViewerInv /\ Lively /\ Sleepless
<1>1. ServersInit => Inv
  <2> SUFFICES ASSUME ServersInit PROVE Inv OBVIOUS
  <2>1. ServerInv /\ ViewerInv BY ServerInit, ViewerInit DEF ServersInit
  <2>2. Lively BY DEF ServersInit, Init, Lively, AtRest
  <2>3. Sleepless BY DEF ServersInit, V!Init, Sleepless, Woken
  <2>4. QED BY <2>1, <2>2, <2>3
<1>2. Inv /\ [ServersNext]_<<part, vars, viewerVars>> => Inv'
  <2> SUFFICES ASSUME Inv, [ServersNext]_<<part, vars, viewerVars>> PROVE Inv'
    OBVIOUS
  <2>1. [Next]_vars /\ [V!Next]_viewerVars BY DEF ServersNext
  <2>2. QED BY <2>1, ServerStep, ViewerStep, LivelyStep, SleeplessStep
<1>3. Inv => StopsAreSound
  <2> SUFFICES ASSUME Inv PROVE StopsAreSound OBVIOUS
  <2>1. AcceptorIsOwned /\ StopIsFinal /\ V!StopLeavesNothing
    BY NothingIsLeft, NoThreadIsLeft
  <2>2. NobodyIsStranded
    BY DEF NobodyIsStranded, Lively, AtRest, ServerInv, ClientsAreServing
  <2>3. V!NobodySleeps BY DEF V!NobodySleeps, Sleepless, Woken
  <2>4. QED BY <2>1, <2>2, <2>3 DEF StopsAreSound
<1>4. QED BY <1>1, <1>2, <1>3, PTL DEF ServersSpec
=============================================================================
