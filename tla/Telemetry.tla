------------------------------ MODULE Telemetry ------------------------------
(***************************************************************************)
(* The producer side of the telemetry channel: class Telemetry of          *)
(* src/src/telemetry.{h,cpp}.                                              *)
(*                                                                         *)
(* Application threads call start() and emit().  emit() allots a sequence  *)
(* number and publishes the event to every running sink while it holds     *)
(* m_emit_lock; each sink owns a fixed array of nodes that travel          *)
(*                                                                         *)
(*     free list -> emitting thread -> pending list -> batch -> free list  *)
(*                                                                         *)
(* and one worker thread that connects to a named pipe, drains the pending *)
(* list in sequence order and reports the frames it could not deliver with *)
(* a DropNotice.  An SLIST operation, one WriteFile of a frame and one     *)
(* critical section of the worker are atomic steps; everything else        *)
(* interleaves.  The wake event only shortens a timed wait (50 or 250 ms), *)
(* so a worker that may always proceed has every behaviour of one that     *)
(* waits.                                                                  *)
(***************************************************************************)
EXTENDS Integers, FiniteSets

CONSTANTS
  Threads,      \* application threads that call into the proxy
  kSinkCount,   \* number of sinks (viewer, SimHub), served in this order
  Nodes,        \* the node array of a sink; kQueueCapacity is its cardinality
  kNoticeMax,   \* UINT32_MAX: a DropNotice saturates there
  NoThread,     \* m_emit_lock is free
  NoNode,       \* a thread holds no node
  MaxEmits,     \* bound: calls of emit()
  MaxStarts,    \* bound: calls of start()
  MaxFaults     \* bound: failures of the operating system or of the pipe

Sinks == 1 .. kSinkCount

ASSUME ConstantsAssumption ==
  /\ kSinkCount \in Nat
  /\ IsFiniteSet(Nodes) /\ Nodes # {}
  /\ kNoticeMax \in Nat
  /\ NoThread \notin Threads
  /\ NoNode \notin Nodes
  /\ MaxEmits \in Nat /\ MaxStarts \in Nat /\ MaxFaults \in Nat

VARIABLES
  m_sequence,   \* last sequence number allotted
  emitLock,     \* the thread inside m_emit_lock, or NoThread
  starting,     \* m_starting
  at,           \* at[t]: where thread t is in start() or emit()
  seq,          \* seq[t]: event.sequence of the emit() under way
  cursor,       \* cursor[t]: the sink that t's loop has reached
  hand,         \* hand[t]: node popped and not yet pushed
  running,      \* running[s]: Sink::running
  workers,      \* workers[s]: sender threads created for s
  free,         \* free[s]: Sink::free
  pending,      \* pending[s]: Sink::pending
  event,        \* event[s][n]: sequence of the event stored in node n
  dropped,      \* dropped[s]: Sink::dropped
  wpc,          \* wpc[s]: where the worker of s is in run()
  batch,        \* batch[s]: nodes flushed from pending, not yet sent
  drops,        \* drops[s]: the worker's local copy of dropped
  reported,     \* reported[s]: reported_drops of this connection
  noticeSeq,    \* noticeSeq[s]: sequence of the last committed DropNotice
  claim,        \* claim[s]: count carried by the last committed DropNotice
  lastWire,     \* lastWire[s]: last sequence written on this connection
  told,         \* told[s]: drop count written on this connection
  emits, starts, faults,   \* what the bounds count
  offered,      \* history: sequences published to s
  sent,         \* history: sequences written to the pipe of s
  lost          \* history: sequences discarded by s

threadVars == <<m_sequence, emitLock, starting, at, seq, cursor, hand, running, workers>>
queueVars  == <<free, pending, event, dropped>>
workerVars == <<wpc, batch, drops, reported, noticeSeq, claim, lastWire, told>>
history    == <<offered, sent, lost>>
bounds     == <<emits, starts, faults>>
vars       == <<threadVars, queueVars, workerVars, history, bounds>>

(***************************************************************************)
(* Initial state: the constructor puts every node on the free list.        *)
(***************************************************************************)
Init ==
  /\ m_sequence = 0 /\ emitLock = NoThread /\ starting = FALSE
  /\ at     = [t \in Threads |-> "idle"]
  /\ seq    = [t \in Threads |-> 0]
  /\ cursor = [t \in Threads |-> 1]
  /\ hand   = [t \in Threads |-> NoNode]
  /\ running = [s \in Sinks |-> FALSE]
  /\ workers = [s \in Sinks |-> 0]
  /\ free    = [s \in Sinks |-> Nodes]
  /\ pending = [s \in Sinks |-> {}]
  /\ event   = [s \in Sinks |-> [n \in Nodes |-> 0]]
  /\ dropped = [s \in Sinks |-> 0]
  /\ wpc     = [s \in Sinks |-> "none"]
  /\ batch   = [s \in Sinks |-> {}]
  /\ drops   = [s \in Sinks |-> 0]
  /\ reported  = [s \in Sinks |-> 0]
  /\ noticeSeq = [s \in Sinks |-> 0]
  /\ claim     = [s \in Sinks |-> 0]
  /\ lastWire  = [s \in Sinks |-> 0]
  /\ told      = [s \in Sinks |-> 0]
  /\ emits = 0 /\ starts = 0 /\ faults = 0
  /\ offered = [s \in Sinks |-> {}]
  /\ sent    = [s \in Sinks |-> {}]
  /\ lost    = [s \in Sinks |-> {}]

Goto(t, label) == at' = [at EXCEPT ![t] = label]

(* A failure of the operating system, of memory or of the server's end.    *)
Fault == faults < MaxFaults /\ faults' = faults + 1

-----------------------------------------------------------------------------
(* start()                                                                 *)

StartCheck(t) ==
  /\ at[t] = "idle" /\ starts < MaxStarts
  /\ starts' = starts + 1
  /\ \E s \in Sinks : ~running[s]
  /\ Goto(t, "flag")
  /\ UNCHANGED <<m_sequence, emitLock, starting, seq, cursor, hand, running, workers,
                 queueVars, workerVars, history, emits, faults>>

(* m_starting.test_and_set: a second caller returns at once, whether or    *)
(* not the first one has finished.                                         *)
StartFlag(t) ==
  /\ at[t] = "flag"
  /\ starting' = TRUE
  /\ IF starting THEN Goto(t, "idle") /\ UNCHANGED cursor
                 ELSE Goto(t, "spawn") /\ cursor' = [cursor EXCEPT ![t] = 1]
  /\ UNCHANGED <<m_sequence, emitLock, seq, hand, running, workers,
                 queueVars, workerVars, history, bounds>>

(* GetModuleHandleExW could not pin the module.                            *)
StartPinFails(t) ==
  /\ at[t] = "flag" /\ ~starting /\ Fault
  /\ Goto(t, "idle")
  /\ UNCHANGED <<m_sequence, emitLock, starting, seq, cursor, hand, running, workers,
                 queueVars, workerVars, history, emits, starts>>

(* The next sink of a for loop over m_sinks.                               *)
Advance(t) == cursor' = [cursor EXCEPT ![t] = @ + 1]

AnySink(s) == TRUE

(* Checked again under m_starting: another start() may have been quicker.  *)
NeedsWorker(s) == ~running[s]

(* The sink already runs: continue.                                        *)
StartSkip(t) ==
  /\ at[t] = "spawn" /\ cursor[t] \in Sinks /\ ~NeedsWorker(cursor[t])
  /\ Advance(t)
  /\ UNCHANGED <<m_sequence, emitLock, starting, at, seq, hand, running, workers,
                 queueVars, workerVars, history, bounds>>

(* CreateEventW or CreateThread failed: the sink stays down.               *)
StartSinkFails(t) ==
  /\ at[t] = "spawn" /\ cursor[t] \in Sinks /\ NeedsWorker(cursor[t]) /\ Fault
  /\ Advance(t)
  /\ UNCHANGED <<m_sequence, emitLock, starting, at, seq, hand, running, workers,
                 queueVars, workerVars, history, emits, starts>>

(* CreateThread succeeded: the worker may run before running is stored.    *)
StartSink(t) ==
  /\ at[t] = "spawn" /\ cursor[t] \in Sinks
  /\ LET s == cursor[t] IN
       /\ NeedsWorker(s)
       /\ workers' = [workers EXCEPT ![s] = @ + 1]
       /\ wpc' = [wpc EXCEPT ![s] = "connect"]
  /\ Goto(t, "publish")
  /\ UNCHANGED <<m_sequence, emitLock, starting, seq, cursor, hand, running, queueVars,
                 batch, drops, reported, noticeSeq, claim, lastWire, told, history, bounds>>

StartPublish(t) ==
  /\ at[t] = "publish"
  /\ running' = [running EXCEPT ![cursor[t]] = TRUE]
  /\ Advance(t) /\ Goto(t, "spawn")
  /\ UNCHANGED <<m_sequence, emitLock, starting, seq, hand, workers,
                 queueVars, workerVars, history, bounds>>

StartDone(t) ==
  /\ at[t] = "spawn" /\ cursor[t] \notin Sinks
  /\ starting' = FALSE
  /\ Goto(t, "idle")
  /\ UNCHANGED <<m_sequence, emitLock, seq, cursor, hand, running, workers,
                 queueVars, workerVars, history, bounds>>

-----------------------------------------------------------------------------
(* emit() and enqueue()                                                    *)

(* With no running sink the call returns: nothing is numbered or counted.  *)
EmitCheck(t) ==
  /\ at[t] = "idle" /\ emits < MaxEmits
  /\ emits' = emits + 1
  /\ IF \E s \in Sinks : running[s] THEN Goto(t, "lock") ELSE UNCHANGED at
  /\ UNCHANGED <<m_sequence, emitLock, starting, seq, cursor, hand, running, workers,
                 queueVars, workerVars, history, starts, faults>>

LockIgnored == TRUE

LockIsFree == emitLock = NoThread

(* One critical section allots the number and publishes the event.         *)
EmitLock(t) ==
  /\ at[t] = "lock" /\ LockIsFree
  /\ emitLock' = t
  /\ m_sequence' = m_sequence + 1
  /\ seq' = [seq EXCEPT ![t] = m_sequence + 1]
  /\ cursor' = [cursor EXCEPT ![t] = 1]
  /\ Goto(t, "pop")
  /\ UNCHANGED <<starting, hand, running, workers, queueVars, workerVars, history, bounds>>

EmitSkip(t) ==
  /\ at[t] = "pop" /\ cursor[t] \in Sinks /\ ~running[cursor[t]]
  /\ Advance(t)
  /\ UNCHANGED <<m_sequence, emitLock, starting, at, seq, hand, running, workers,
                 queueVars, workerVars, history, bounds>>

(* enqueue(): a free node takes the event ...                              *)
EmitPop(t) ==
  /\ at[t] = "pop" /\ cursor[t] \in Sinks
  /\ LET s == cursor[t] IN
       /\ running[s]
       /\ \E n \in free[s] :
            /\ free'  = [free EXCEPT ![s] = @ \ {n}]
            /\ hand'  = [hand EXCEPT ![t] = n]
            /\ event' = [event EXCEPT ![s][n] = seq[t]]
       /\ offered' = [offered EXCEPT ![s] = @ \union {seq[t]}]
  /\ Goto(t, "push")
  /\ UNCHANGED <<m_sequence, emitLock, starting, seq, cursor, running, workers,
                 pending, dropped, workerVars, sent, lost, bounds>>

NeverDrop(s) == FALSE

NoFreeNode(s) == free[s] = {}

(* ... or, with none left, the event is counted as dropped.                *)
EmitDrop(t) ==
  /\ at[t] = "pop" /\ cursor[t] \in Sinks
  /\ LET s == cursor[t] IN
       /\ running[s] /\ NoFreeNode(s)
       /\ dropped' = [dropped EXCEPT ![s] = @ + 1]
       /\ offered' = [offered EXCEPT ![s] = @ \union {seq[t]}]
       /\ lost'    = [lost EXCEPT ![s] = @ \union {seq[t]}]
  /\ Advance(t)
  /\ UNCHANGED <<m_sequence, emitLock, starting, at, seq, hand, running, workers,
                 free, pending, event, workerVars, sent, bounds>>

EmitPush(t) ==
  /\ at[t] = "push"
  /\ pending' = [pending EXCEPT ![cursor[t]] = @ \union {hand[t]}]
  /\ hand' = [hand EXCEPT ![t] = NoNode]
  /\ Advance(t) /\ Goto(t, "pop")
  /\ UNCHANGED <<m_sequence, emitLock, starting, seq, running, workers,
                 free, event, dropped, workerVars, history, bounds>>

EmitUnlock(t) ==
  /\ at[t] = "pop" /\ cursor[t] \notin Sinks
  /\ emitLock' = NoThread
  /\ Goto(t, "idle")
  /\ UNCHANGED <<m_sequence, starting, seq, cursor, hand, running, workers,
                 queueVars, workerVars, history, bounds>>

-----------------------------------------------------------------------------
(* run(): the worker of sink s                                             *)

WGoto(s, label) == wpc' = [wpc EXCEPT ![s] = label]

(* InterlockedFlushSList: every pending node moves to the worker.          *)
Flush(s) ==
  /\ batch'   = [batch EXCEPT ![s] = pending[s]]
  /\ pending' = [pending EXCEPT ![s] = {}]

(* std::sort by sequence: the next frame of the batch is the lowest.       *)
IsNext(s, n) == \A m \in batch[s] : event[s][n] <= event[s][m]

Leak(s, n) ==
  /\ batch' = [batch EXCEPT ![s] = @ \ {n}]
  /\ UNCHANGED free

(* A node goes back to the free list.                                      *)
Free(s, n) ==
  /\ batch' = [batch EXCEPT ![s] = @ \ {n}]
  /\ free'  = [free EXCEPT ![s] = @ \union {n}]

DiscardUncounted(s, n) ==
  /\ Free(s, n)
  /\ UNCHANGED <<dropped, lost>>

(* A node goes back to the free list and its event is counted as dropped.  *)
Discard(s, n) ==
  /\ Free(s, n)
  /\ dropped' = [dropped EXCEPT ![s] = @ + 1]
  /\ lost'    = [lost EXCEPT ![s] = @ \union {event[s][n]}]

WorkerConnect(s) ==
  /\ wpc[s] = "connect"
  /\ WGoto(s, "hello")
  /\ UNCHANGED <<threadVars, queueVars, batch, drops, reported, noticeSeq, claim, lastWire, told,
                 history, bounds>>

(* The pipe is absent or busy, or Hello cannot be sent:                    *)
(* recycle_or_drop_pending discards what is pending before the next try.   *)
WorkerConnectFails(s) ==
  /\ wpc[s] \in {"connect", "hello"} /\ Fault
  /\ Flush(s)
  /\ WGoto(s, "recycle")
  /\ UNCHANGED <<threadVars, free, event, dropped, drops, reported, noticeSeq, claim,
                 lastWire, told, history, emits, starts>>

KeepReported(s) == UNCHANGED reported

ForgetReported(s) == reported' = [reported EXCEPT ![s] = 0]

(* Hello carries sequence 0; drops are reported afresh on this connection. *)
WorkerHello(s) ==
  /\ wpc[s] = "hello"
  /\ lastWire' = [lastWire EXCEPT ![s] = 0]
  /\ told'     = [told EXCEPT ![s] = 0]
  /\ ForgetReported(s)
  /\ WGoto(s, "drain")
  /\ UNCHANGED <<threadVars, queueVars, batch, drops, noticeSeq, claim, history, bounds>>

WorkerDrain(s) ==
  /\ wpc[s] = "drain"
  /\ Flush(s)
  /\ WGoto(s, "send")
  /\ UNCHANGED <<threadVars, free, event, dropped, drops, reported, noticeSeq, claim,
                 lastWire, told, history, bounds>>

WorkerSend(s) ==
  /\ wpc[s] = "send"
  /\ \E n \in batch[s] :
       /\ IsNext(s, n)
       /\ Free(s, n)
       /\ lastWire' = [lastWire EXCEPT ![s] = event[s][n]]
       /\ sent' = [sent EXCEPT ![s] = @ \union {event[s][n]}]
  /\ UNCHANGED <<threadVars, pending, event, dropped, wpc, drops, reported, noticeSeq,
                 claim, told, offered, lost, bounds>>

(* The frame is not confirmed: it and every later one of the batch count.  *)
WorkerSendFails(s) ==
  /\ wpc[s] = "send" /\ Fault
  /\ \E n \in batch[s] : IsNext(s, n) /\ Discard(s, n)
  /\ WGoto(s, "recycle")
  /\ UNCHANGED <<threadVars, pending, event, drops, reported, noticeSeq, claim, lastWire, told,
                 offered, sent, emits, starts>>

WorkerRecycle(s) ==
  /\ wpc[s] = "recycle"
  /\ \E n \in batch[s] : Discard(s, n)
  /\ UNCHANGED <<threadVars, pending, event, wpc, drops, reported, noticeSeq, claim,
                 lastWire, told, offered, sent, bounds>>

WorkerReconnect(s) ==
  /\ wpc[s] = "recycle" /\ batch[s] = {}
  /\ WGoto(s, "connect")
  /\ UNCHANGED <<threadVars, queueVars, batch, drops, reported, noticeSeq, claim, lastWire, told,
                 history, bounds>>

(* The batch is through: the drop counter is read without any lock.        *)
WorkerReadDrops(s) ==
  /\ wpc[s] = "send" /\ batch[s] = {}
  /\ drops' = [drops EXCEPT ![s] = dropped[s]]
  /\ WGoto(s, IF dropped[s] # reported[s] THEN "notice" ELSE "drain")
  /\ UNCHANGED <<threadVars, queueVars, batch, reported, noticeSeq, claim, lastWire, told,
                 history, bounds>>

QueueUnchecked(s) == TRUE

(* QueryDepthSList(&sink.pending) == 0                                     *)
QueueIsEmpty(s) == pending[s] = {}

SaturatedCount(n) == IF n <= kNoticeMax THEN n ELSE kNoticeMax

(* Under m_emit_lock, a notice gets its number only if nothing is queued.  *)
WorkerCommit(s) ==
  /\ wpc[s] = "notice" /\ LockIsFree
  /\ IF QueueIsEmpty(s)
     THEN /\ m_sequence' = m_sequence + 1
          /\ noticeSeq' = [noticeSeq EXCEPT ![s] = m_sequence + 1]
          /\ claim' = [claim EXCEPT ![s] = SaturatedCount(drops[s])]
          /\ WGoto(s, "notify")
     ELSE /\ WGoto(s, "drain")
          /\ UNCHANGED <<m_sequence, noticeSeq, claim>>
  /\ UNCHANGED <<emitLock, starting, at, seq, cursor, hand, running, workers,
                 queueVars, batch, drops, reported, lastWire, told, history, bounds>>

WorkerNotify(s) ==
  /\ wpc[s] = "notify"
  /\ lastWire' = [lastWire EXCEPT ![s] = noticeSeq[s]]
  /\ told'     = [told EXCEPT ![s] = claim[s]]
  /\ reported' = [reported EXCEPT ![s] = drops[s]]
  /\ WGoto(s, "drain")
  /\ UNCHANGED <<threadVars, queueVars, batch, drops, noticeSeq, claim, history, bounds>>

WorkerNotifyFails(s) ==
  /\ wpc[s] = "notify" /\ Fault
  /\ reported' = [reported EXCEPT ![s] = drops[s]]
  /\ WGoto(s, "connect")
  /\ UNCHANGED <<threadVars, queueVars, batch, drops, noticeSeq, claim, lastWire, told, history,
                 emits, starts>>

-----------------------------------------------------------------------------
StartStep(t) ==
  \/ StartCheck(t) \/ StartFlag(t) \/ StartPinFails(t) \/ StartSkip(t)
  \/ StartSinkFails(t) \/ StartSink(t) \/ StartPublish(t) \/ StartDone(t)

EmitStep(t) ==
  \/ EmitCheck(t) \/ EmitLock(t) \/ EmitSkip(t) \/ EmitPop(t)
  \/ EmitDrop(t) \/ EmitPush(t) \/ EmitUnlock(t)

WorkerStep(s) ==
  \/ WorkerConnect(s) \/ WorkerConnectFails(s) \/ WorkerHello(s) \/ WorkerDrain(s)
  \/ WorkerSend(s) \/ WorkerSendFails(s) \/ WorkerRecycle(s) \/ WorkerReconnect(s)
  \/ WorkerReadDrops(s) \/ WorkerCommit(s) \/ WorkerNotify(s) \/ WorkerNotifyFails(s)

Next ==
  \/ \E t \in Threads : StartStep(t) \/ EmitStep(t)
  \/ \E s \in Sinks : WorkerStep(s)

Spec == Init /\ [][Next]_vars

-----------------------------------------------------------------------------
(* Where the events of sink s are.                                         *)
Held(s)   == {hand[t] : t \in {u \in Threads : at[u] = "push" /\ cursor[u] = s}}
Queued(s) == pending[s] \union batch[s] \union Held(s)
Open(s)   == {event[s][n] : n \in Queued(s)}

ThreadTypes ==
  /\ m_sequence \in Nat
  /\ emitLock \in Threads \union {NoThread}
  /\ starting \in BOOLEAN
  /\ at \in [Threads -> {"idle", "flag", "spawn", "publish", "lock", "pop", "push"}]
  /\ seq \in [Threads -> Nat]
  /\ cursor \in [Threads -> 1 .. kSinkCount + 1]
  /\ hand \in [Threads -> Nodes \union {NoNode}]
  /\ running \in [Sinks -> BOOLEAN]
  /\ workers \in [Sinks -> Nat]
  /\ emits \in Nat /\ starts \in Nat /\ faults \in Nat

QueueTypes ==
  /\ free \in [Sinks -> SUBSET Nodes]
  /\ pending \in [Sinks -> SUBSET Nodes]
  /\ batch \in [Sinks -> SUBSET Nodes]
  /\ event \in [Sinks -> [Nodes -> Nat]]
  /\ dropped \in [Sinks -> Nat]
  /\ offered \in [Sinks -> SUBSET Nat]
  /\ sent \in [Sinks -> SUBSET Nat]
  /\ lost \in [Sinks -> SUBSET Nat]

WorkerTypes ==
  /\ wpc \in [Sinks -> {"none", "connect", "hello", "drain", "send", "recycle",
                        "notice", "notify"}]
  /\ drops \in [Sinks -> Nat]
  /\ reported \in [Sinks -> Nat]
  /\ noticeSeq \in [Sinks -> Nat]
  /\ claim \in [Sinks -> Nat]
  /\ lastWire \in [Sinks -> Nat]
  /\ told \in [Sinks -> Nat]

(* Types of all variables: no loop runs past the sinks and no counter goes *)
(* below zero.                                                             *)
TypeOK == ThreadTypes /\ QueueTypes /\ WorkerTypes

(* start() never gives a sink a second worker thread, however its callers  *)
(* interleave: two workers would free each other's nodes.                  *)
OneWorker == \A s \in Sinks : workers[s] <= 1

(* The free list, the pending list, the batch and the emitting thread      *)
(* share out the node array of a sink: no node leaks, none is in two       *)
(* places, so the pool never shrinks whatever fails.                       *)
NodesConserved ==
  \A s \in Sinks :
    /\ free[s] \union Queued(s) = Nodes
    /\ free[s] \intersect Queued(s) = {}
    /\ pending[s] \intersect batch[s] = {}
    /\ (pending[s] \union batch[s]) \intersect Held(s) = {}

(* Sink::dropped is exact: an event published to a sink is in the queue,   *)
(* was written, or is counted, and in one of these ways only.              *)
LossAccounted ==
  \A s \in Sinks :
    /\ dropped[s] = Cardinality(lost[s])
    /\ offered[s] = Open(s) \union sent[s] \union lost[s]
    /\ Open(s) \intersect (sent[s] \union lost[s]) = {}
    /\ sent[s] \intersect lost[s] = {}

(* A committed DropNotice is exact although its count was read before      *)
(* m_emit_lock was taken: every event with a lower number has been written *)
(* or is in the count.                                                     *)
NoticeExact ==
  \A s \in Sinks :
    wpc[s] = "notify" =>
      LET before == {q \in offered[s] : q < noticeSeq[s]} IN
      /\ before \subseteq sent[s] \union lost[s]
      /\ claim[s] = SaturatedCount(Cardinality(before \intersect lost[s]))

(* On a connection, frames are written in strictly increasing sequence     *)
(* order; a receiver closes the connection on any other order.             *)
FramesInOrder ==
  [][\A s \in Sinks :
       lastWire'[s] # lastWire[s] => lastWire'[s] > lastWire[s] \/ wpc[s] = "hello"]_vars

(* The sinks implement the abstract log: numbered offers, deliveries in    *)
(* order, and notices that fence off everything offered before them.       *)
Log == INSTANCE LossyLog WITH fence <- noticeSeq

ImplementsLossyLog == Log!LogSpec

-----------------------------------------------------------------------------
(* Inside emit() a thread only needs the processor.                        *)
EmitBody(t) ==
  EmitLock(t) \/ EmitSkip(t) \/ EmitPop(t) \/ EmitDrop(t) \/ EmitPush(t) \/ EmitUnlock(t)

StartBody(t) ==
  StartFlag(t) \/ StartSkip(t) \/ StartSink(t) \/ StartPublish(t) \/ StartDone(t)

ThreadFairness == \A t \in Threads : WF_vars(EmitBody(t)) /\ WF_vars(StartBody(t))

WorkerFairness == \A s \in Sinks : WF_vars(WorkerStep(s))

(* emit() returns to the game whatever the workers, the pipes and the      *)
(* receivers do, even if no worker ever takes another step.                *)
EmitReturns == \A t \in Threads : at[t] = "lock" ~> at[t] = "idle"

(* Where every worker is scheduled: once calls and failures cease, every   *)
(* queue is drained and the receiver of the live connection has been told  *)
(* the exact number of lost events.                                        *)
LossesDisclosed ==
  WorkerFairness =>
    <>[](\A s \in Sinks :
           running[s] => Queued(s) = {} /\ told[s] = SaturatedCount(Cardinality(lost[s])))
=============================================================================
