--------------------------- MODULE TelemetryProofs ---------------------------
(***************************************************************************)
(* Proofs about Telemetry, for any number of threads, sinks and nodes and  *)
(* for any bounds.                                                         *)
(*                                                                         *)
(* The inductive invariant IInv says who may be where (Control, InBody),   *)
(* where the nodes are (Ownership, NodesConserved), how the queued events  *)
(* are numbered (Newest, NumbersOf), which events were lost (AccountOf)    *)
(* and what a DropNotice under way states (NoticeInv).  It is built up in  *)
(* that order, a theorem at each stage.                                    *)
(***************************************************************************)
EXTENDS Telemetry, FiniteSetTheorems, TLAPS

(* Mutual exclusion of m_emit_lock, of m_starting, and of the workers.     *)
Control ==
  /\ \A t \in Threads : at[t] \in {"pop", "push"} <=> emitLock = t
  /\ \A t \in Threads : at[t] \in {"spawn", "publish"} => starting
  /\ \A t, u \in Threads :
       at[t] \in {"spawn", "publish"} /\ at[u] \in {"spawn", "publish"} => t = u
  /\ \A s \in Sinks :
       \/ workers[s] = 0 /\ wpc[s] = "none"
       \/ workers[s] = 1 /\ running[s]
       \/ workers[s] = 1 /\ \E t \in Threads : at[t] = "publish" /\ cursor[t] = s

(* In the body of a loop over the sinks there is a sink, and in the middle *)
(* of enqueue() a node.                                                    *)
InBody ==
  \A t \in Threads :
    /\ at[t] \in {"publish", "push"} => cursor[t] \in Sinks
    /\ at[t] = "push" => hand[t] \in Nodes

(* The batch is empty outside the loops that work it off.                  *)
Ownership == \A s \in Sinks : wpc[s] \notin {"send", "recycle"} => batch[s] = {}

(* The thread inside m_emit_lock holds the highest number, which the sinks *)
(* it has not reached have not seen.                                       *)
Reached(t, s) == s < cursor[t] \/ (s = cursor[t] /\ at[t] = "push")

Newest ==
  \A t \in Threads : at[t] \in {"pop", "push"} =>
    /\ seq[t] = m_sequence
    /\ \A s \in Sinks : noticeSeq[s] < m_sequence
    /\ \A s \in Sinks : ~Reached(t, s) => m_sequence \notin offered[s]

(* The queued events are newer than all a receiver has seen, those of the  *)
(* batch older than those still pending, and no two are the same.          *)
NumbersOf(s) ==
  /\ noticeSeq[s] <= m_sequence
  /\ \A q \in offered[s] : 0 < q /\ q <= m_sequence
  /\ lastWire[s] \in sent[s] \/ lastWire[s] <= noticeSeq[s]
  /\ wpc[s] = "notify" => lastWire[s] < noticeSeq[s]
  /\ \A q \in Open(s) : q > noticeSeq[s] /\ q > lastWire[s] /\ \A p \in sent[s] : p < q
  /\ \A n \in batch[s] : \A m \in pending[s] \union Held(s) : event[s][n] < event[s][m]
  /\ \A n \in pending[s] : \A m \in Held(s) : event[s][n] < event[s][m]
  /\ \A n, m \in Queued(s) : event[s][n] = event[s][m] => n = m

Numbers == \A s \in Sinks : NumbersOf(s)

FiniteLoss == \A s \in Sinks : IsFiniteSet(lost[s])

-----------------------------------------------------------------------------
(* Types                                                                   *)

LEMMA FirstSink == 1 \in 1 .. kSinkCount + 1
BY ConstantsAssumption

LEMMA NextSink == \A s \in Sinks : s + 1 \in 1 .. kSinkCount + 1
BY ConstantsAssumption DEF Sinks

LEMMA SaturatedType == \A n \in Nat : SaturatedCount(n) \in Nat
BY ConstantsAssumption DEF SaturatedCount

LEMMA InitTypeOK == Init => TypeOK /\ InBody
<1> SUFFICES ASSUME Init PROVE TypeOK /\ InBody
  OBVIOUS
<1>1. ThreadTypes
  BY FirstSink DEF Init, ThreadTypes
<1>2. QueueTypes
  BY DEF Init, QueueTypes
<1>3. WorkerTypes
  BY DEF Init, WorkerTypes
<1>4. InBody
  BY DEF Init, InBody
<1> QED BY <1>1, <1>2, <1>3, <1>4 DEF TypeOK

LEMMA StartTypeOK ==
  ASSUME TypeOK, InBody, NEW t \in Threads, StartStep(t)
  PROVE  TypeOK' /\ InBody'
<1> USE FirstSink, NextSink DEF InBody, TypeOK, ThreadTypes, QueueTypes, WorkerTypes, Goto, Fault, Advance, NeedsWorker,
        threadVars, queueVars, workerVars, history, bounds
<1>1. CASE StartCheck(t)
  BY <1>1 DEF StartCheck
<1>2. CASE StartFlag(t)
  BY <1>2 DEF StartFlag
<1>3. CASE StartPinFails(t)
  BY <1>3 DEF StartPinFails
<1>4. CASE StartSkip(t)
  BY <1>4 DEF StartSkip
<1>5. CASE StartSinkFails(t)
  BY <1>5 DEF StartSinkFails
<1>6. CASE StartSink(t)
  BY <1>6 DEF StartSink
<1>7. CASE StartPublish(t)
  BY <1>7 DEF StartPublish
<1>8. CASE StartDone(t)
  BY <1>8 DEF StartDone
<1> QED
  BY <1>1, <1>2, <1>3, <1>4, <1>5, <1>6, <1>7, <1>8 DEF StartStep

LEMMA EmitTypeOK ==
  ASSUME TypeOK, InBody, NEW t \in Threads, EmitStep(t)
  PROVE  TypeOK' /\ InBody'
<1> USE FirstSink, NextSink DEF InBody, TypeOK, ThreadTypes, QueueTypes, WorkerTypes, Goto, Advance,
        threadVars, queueVars, workerVars, history, bounds
<1>1. CASE EmitCheck(t)
  <2>1. at' = at \/ at' = [at EXCEPT ![t] = "lock"]
    BY <1>1 DEF EmitCheck
  <2>. emits' = emits + 1 /\ UNCHANGED <<m_sequence, emitLock, starting, seq, cursor,
                                       hand, running, workers, starts, faults>>
    BY <1>1 DEF EmitCheck
  <2>2. ThreadTypes' /\ InBody'
    BY <2>1
  <2>3. QueueTypes' /\ WorkerTypes'
    BY <1>1 DEF EmitCheck
  <2> QED BY <2>2, <2>3
<1>2. CASE EmitLock(t)
  BY <1>2 DEF EmitLock
<1>3. CASE EmitSkip(t)
  BY <1>3 DEF EmitSkip
<1>4. CASE EmitPop(t)
  BY <1>4 DEF EmitPop
<1>5. CASE EmitDrop(t)
  BY <1>5 DEF EmitDrop
<1>6. CASE EmitPush(t)
  BY <1>6 DEF EmitPush
<1>7. CASE EmitUnlock(t)
  BY <1>7 DEF EmitUnlock
<1> QED
  BY <1>1, <1>2, <1>3, <1>4, <1>5, <1>6, <1>7 DEF EmitStep

LEMMA WorkerTypeOK ==
  ASSUME TypeOK, InBody, NEW s \in Sinks, WorkerStep(s)
  PROVE  TypeOK' /\ InBody'
<1> USE SaturatedType DEF InBody, TypeOK, ThreadTypes, QueueTypes, WorkerTypes, Fault,
        Flush, WGoto, Free, Discard, ForgetReported,
        threadVars, queueVars, workerVars, history, bounds
<1>1. CASE WorkerConnect(s)
  BY <1>1 DEF WorkerConnect
<1>2. CASE WorkerConnectFails(s)
  BY <1>2 DEF WorkerConnectFails
<1>3. CASE WorkerHello(s)
  BY <1>3 DEF WorkerHello
<1>4. CASE WorkerDrain(s)
  BY <1>4 DEF WorkerDrain
<1>5. CASE WorkerSend(s)
  BY <1>5 DEF WorkerSend
<1>6. CASE WorkerSendFails(s)
  BY <1>6 DEF WorkerSendFails
<1>7. CASE WorkerRecycle(s)
  BY <1>7 DEF WorkerRecycle
<1>8. CASE WorkerReconnect(s)
  BY <1>8 DEF WorkerReconnect
<1>9. CASE WorkerReadDrops(s)
  BY <1>9 DEF WorkerReadDrops
<1>10. CASE WorkerCommit(s)
  <2>1. CASE QueueIsEmpty(s)
    <3>1. SaturatedCount(drops[s]) \in Nat
      OBVIOUS
    <3>2. ThreadTypes' /\ InBody'
      BY <1>10, <2>1 DEF WorkerCommit
    <3>3. QueueTypes'
      BY <1>10, <2>1 DEF WorkerCommit
    <3>. /\ wpc' = [wpc EXCEPT ![s] = "notify"]
         /\ noticeSeq' = [noticeSeq EXCEPT ![s] = m_sequence + 1]
         /\ claim' = [claim EXCEPT ![s] = SaturatedCount(drops[s])]
         /\ UNCHANGED <<drops, reported, lastWire, told>>
      BY <1>10, <2>1 DEF WorkerCommit
    <3>4. WorkerTypes'
      BY <3>1
    <3> QED BY <3>2, <3>3, <3>4
  <2>2. CASE ~QueueIsEmpty(s)
    BY <1>10, <2>2 DEF WorkerCommit
  <2> QED BY <2>1, <2>2
<1>11. CASE WorkerNotify(s)
  BY <1>11 DEF WorkerNotify
<1>12. CASE WorkerNotifyFails(s)
  BY <1>12 DEF WorkerNotifyFails
<1> QED
  BY <1>1, <1>2, <1>3, <1>4, <1>5, <1>6, <1>7, <1>8, <1>9, <1>10, <1>11, <1>12 DEF WorkerStep

LEMMA NextTypeOK == TypeOK /\ InBody /\ [Next]_vars => TypeOK' /\ InBody'
<1> SUFFICES ASSUME TypeOK, InBody, [Next]_vars PROVE TypeOK' /\ InBody'
  OBVIOUS
<1>1. CASE Next
  BY <1>1, StartTypeOK, EmitTypeOK, WorkerTypeOK DEF Next
<1>2. CASE UNCHANGED vars
  BY <1>2 DEF InBody, TypeOK, ThreadTypes, QueueTypes, WorkerTypes, vars, threadVars, queueVars, workerVars, history, bounds
<1> QED BY <1>1, <1>2

(* Every variable keeps its type in every reachable state.                 *)
THEOREM TypeCorrect == Spec => []TypeOK
BY InitTypeOK, NextTypeOK, PTL DEF Spec

-----------------------------------------------------------------------------
(* Mutual exclusion                                                        *)

(* What a step of start() and a step of a worker leave alone.              *)
LEMMA StartFrame ==
  ASSUME NEW t \in Threads, StartStep(t)
  PROVE  /\ UNCHANGED <<m_sequence, emitLock, seq, hand, free, pending, event, dropped>>
         /\ UNCHANGED <<batch, drops, reported, noticeSeq, claim, lastWire, told>>
         /\ UNCHANGED <<offered, sent, lost>>
BY DEF StartStep, StartCheck, StartFlag, StartPinFails, StartSkip, StartSinkFails,
       StartSink, StartPublish, StartDone, queueVars, workerVars, history, bounds

LEMMA WorkerFrame ==
  ASSUME NEW s \in Sinks, WorkerStep(s)
  PROVE  UNCHANGED <<emitLock, starting, at, seq, cursor, hand, running, workers,
                     event, offered>>
BY DEF WorkerStep, WorkerConnect, WorkerConnectFails, WorkerHello, WorkerDrain, WorkerSend,
       WorkerSendFails, WorkerRecycle, WorkerReconnect, WorkerReadDrops, WorkerCommit,
       WorkerNotify, WorkerNotifyFails, threadVars, queueVars, workerVars, history

(* A worker's step moves its own program counter only, once it exists.     *)
LEMMA WorkerPc ==
  ASSUME TypeOK, NEW s \in Sinks, WorkerStep(s)
  PROVE  wpc[s] # "none" /\ \A r \in Sinks \ {s} : wpc'[r] = wpc[r]
BY DEF TypeOK, WorkerTypes, WorkerStep, WorkerConnect, WorkerConnectFails, WorkerHello,
       WorkerDrain, WorkerSend, WorkerSendFails, WorkerRecycle, WorkerReconnect,
       WorkerReadDrops, WorkerCommit, WorkerNotify, WorkerNotifyFails, WGoto, workerVars

LEMMA StartControl ==
  ASSUME TypeOK, InBody, Control, NEW t \in Threads, StartStep(t)
  PROVE  Control'
<1> USE DEF TypeOK, ThreadTypes, WorkerTypes, InBody, Control, Goto, Advance, NeedsWorker,
        workerVars
<1>1. CASE StartCheck(t)
  BY <1>1 DEF StartCheck
<1>2. CASE StartFlag(t)
  BY <1>2 DEF StartFlag
<1>3. CASE StartPinFails(t)
  BY <1>3 DEF StartPinFails
<1>4. CASE StartSkip(t)
  BY <1>4 DEF StartSkip
<1>5. CASE StartSinkFails(t)
  BY <1>5 DEF StartSinkFails
<1>6. CASE StartSink(t)
  BY <1>6 DEF StartSink
<1>7. CASE StartPublish(t)
  BY <1>7 DEF StartPublish
<1>8. CASE StartDone(t)
  BY <1>8 DEF StartDone
<1> QED
  BY <1>1, <1>2, <1>3, <1>4, <1>5, <1>6, <1>7, <1>8 DEF StartStep

LEMMA EmitControl ==
  ASSUME TypeOK, InBody, Control, NEW t \in Threads, EmitStep(t)
  PROVE  Control'
<1> USE ConstantsAssumption DEF TypeOK, ThreadTypes, WorkerTypes, InBody, Control, Goto,
        Advance, workerVars
<1>1. CASE EmitCheck(t)
  BY <1>1 DEF EmitCheck
<1>2. CASE EmitLock(t)
  BY <1>2 DEF EmitLock, LockIsFree
<1>3. CASE EmitSkip(t)
  BY <1>3 DEF EmitSkip
<1>4. CASE EmitPop(t)
  BY <1>4 DEF EmitPop
<1>5. CASE EmitDrop(t)
  BY <1>5 DEF EmitDrop
<1>6. CASE EmitPush(t)
  BY <1>6 DEF EmitPush
<1>7. CASE EmitUnlock(t)
  BY <1>7 DEF EmitUnlock
<1> QED
  BY <1>1, <1>2, <1>3, <1>4, <1>5, <1>6, <1>7 DEF EmitStep

LEMMA NextControl == TypeOK /\ InBody /\ Control /\ [Next]_vars => Control'
<1> SUFFICES ASSUME TypeOK, InBody, Control, [Next]_vars PROVE Control'
  OBVIOUS
<1>1. ASSUME NEW s \in Sinks, WorkerStep(s) PROVE Control'
  BY <1>1, WorkerFrame, WorkerPc DEF Control
<1>2. CASE UNCHANGED vars
  BY <1>2 DEF Control, vars, threadVars, workerVars
<1> QED BY <1>1, <1>2, StartControl, EmitControl DEF Next

LEMMA InitControl == Init => Control
BY ConstantsAssumption DEF Init, Control

(* start() never gives a sink a second worker.                             *)
THEOREM AtMostOneWorker == Spec => []OneWorker
<1>1. TypeOK /\ InBody /\ Control => OneWorker
  BY DEF Control, OneWorker
<1> QED BY <1>1, InitTypeOK, InitControl, NextTypeOK, NextControl, PTL DEF Spec

-----------------------------------------------------------------------------
(* Where the nodes go                                                      *)

(* Only the thread inside m_emit_lock may hold a node.                     *)
LEMMA HeldByHolder ==
  ASSUME Control, NEW t \in Threads, at[t] \in {"pop", "push"}
  PROVE  \A s \in Sinks : Held(s) = IF at[t] = "push" /\ cursor[t] = s THEN {hand[t]} ELSE {}
BY DEF Control, Held

LEMMA HeldByNone ==
  ASSUME Control, emitLock = NoThread
  PROVE  \A s \in Sinks : Held(s) = {}
BY ConstantsAssumption DEF Control, Held

LEMMA StartHeld ==
  ASSUME TypeOK, NEW t \in Threads, StartStep(t)
  PROVE  \A s \in Sinks : Held(s)' = Held(s)
<1>1. at' = at \/ \E l : l # "push" /\ at' = [at EXCEPT ![t] = l]
  BY DEF StartStep, StartCheck, StartFlag, StartPinFails, StartSkip, StartSinkFails,
         StartSink, StartPublish, StartDone, Goto
<1>2. cursor' = cursor \/ \E c : cursor' = [cursor EXCEPT ![t] = c]
  BY DEF StartStep, StartCheck, StartFlag, StartPinFails, StartSkip, StartSinkFails,
         StartSink, StartPublish, StartDone, Goto, Advance
<1>3. at[t] # "push" /\ hand' = hand
  BY DEF StartStep, StartCheck, StartFlag, StartPinFails, StartSkip, StartSinkFails,
         StartSink, StartPublish, StartDone
<1> QED BY <1>1, <1>2, <1>3 DEF Held, TypeOK, ThreadTypes

LEMMA WorkerHeld ==
  ASSUME NEW s \in Sinks, WorkerStep(s)
  PROVE  \A r \in Sinks : Held(r)' = Held(r)
BY WorkerFrame DEF Held

LEMMA EmitHeld ==
  ASSUME TypeOK, NEW t \in Threads,
         EmitCheck(t) \/ EmitLock(t) \/ EmitSkip(t) \/ EmitDrop(t) \/ EmitUnlock(t)
  PROVE  \A s \in Sinks : Held(s)' = Held(s)
<1>1. at' = at \/ \E l : l # "push" /\ at' = [at EXCEPT ![t] = l]
  BY DEF EmitCheck, EmitLock, EmitSkip, EmitDrop, EmitUnlock, Goto
<1>2. cursor' = cursor \/ \E c : cursor' = [cursor EXCEPT ![t] = c]
  BY DEF EmitCheck, EmitLock, EmitSkip, EmitDrop, EmitUnlock, Advance
<1>3. at[t] # "push" /\ hand' = hand
  BY DEF EmitCheck, EmitLock, EmitSkip, EmitDrop, EmitUnlock
<1> QED BY <1>1, <1>2, <1>3 DEF Held, TypeOK, ThreadTypes

LEMMA PopHeld ==
  ASSUME TypeOK, Control, NEW t \in Threads, EmitPop(t)
  PROVE  \A s \in Sinks :
           IF s = cursor[t] THEN Held(s) = {} /\ Held(s)' = {hand'[t]} ELSE Held(s)' = Held(s)
<1>1. at[t] = "pop" /\ cursor[t] \in Sinks /\ at' = [at EXCEPT ![t] = "push"]
      /\ cursor' = cursor /\ \E n : hand' = [hand EXCEPT ![t] = n]
  BY DEF EmitPop, Goto
<1>2. \A u \in Threads \ {t} : at[u] # "push"
  BY <1>1 DEF Control
<1> QED BY <1>1, <1>2 DEF Held, TypeOK, ThreadTypes

LEMMA PushHeld ==
  ASSUME TypeOK, InBody, Control, NEW t \in Threads, EmitPush(t)
  PROVE  \A s \in Sinks :
           IF s = cursor[t] THEN Held(s) = {hand[t]} /\ Held(s)' = {} ELSE Held(s)' = Held(s)
<1>1. /\ at[t] = "push" /\ at' = [at EXCEPT ![t] = "pop"]
      /\ \E c : cursor' = [cursor EXCEPT ![t] = c]
      /\ hand' = [hand EXCEPT ![t] = NoNode]
  BY DEF EmitPush, Goto, Advance
<1>2. \A u \in Threads \ {t} : at[u] # "push"
  BY <1>1 DEF Control
<1> QED BY <1>1, <1>2 DEF Held, TypeOK, ThreadTypes

LEMMA EmitNodes ==
  ASSUME TypeOK, InBody, Control, NodesConserved, NEW t \in Threads, EmitStep(t)
  PROVE  NodesConserved'
<1> USE DEF TypeOK, ThreadTypes, QueueTypes, NodesConserved, Queued, queueVars, workerVars
<1>1. CASE EmitCheck(t) \/ EmitLock(t) \/ EmitSkip(t) \/ EmitDrop(t) \/ EmitUnlock(t)
  <2>1. UNCHANGED <<free, pending, batch>>
    BY <1>1 DEF EmitCheck, EmitLock, EmitSkip, EmitDrop, EmitUnlock
  <2> QED BY <1>1, <2>1, EmitHeld
<1>2. CASE EmitPop(t)
  <2>1. PICK n \in free[cursor[t]] :
           free' = [free EXCEPT ![cursor[t]] = @ \ {n}] /\ hand' = [hand EXCEPT ![t] = n]
    BY <1>2 DEF EmitPop
  <2>2. UNCHANGED <<pending, batch>>
    BY <1>2 DEF EmitPop
  <2>3. ASSUME NEW s \in Sinks, s = cursor[t]
        PROVE  free'[s] = free[s] \ {n} /\ n \in free[s] /\ Held(s) = {} /\ Held(s)' = {n}
    BY <1>2, <2>1, <2>3, PopHeld
  <2>4. ASSUME NEW s \in Sinks, s # cursor[t]
        PROVE  free'[s] = free[s] /\ Held(s)' = Held(s)
    BY <1>2, <2>1, <2>4, PopHeld
  <2> SUFFICES ASSUME NEW s \in Sinks
               PROVE  /\ free'[s] \union (pending'[s] \union batch'[s] \union Held(s)') = Nodes
                      /\ free'[s] \intersect (pending'[s] \union batch'[s] \union Held(s)') = {}
                      /\ pending'[s] \intersect batch'[s] = {}
                      /\ (pending'[s] \union batch'[s]) \intersect Held(s)' = {}
    OBVIOUS
  <2>5. CASE s = cursor[t]
    BY <2>2, <2>3, <2>5
  <2>6. CASE s # cursor[t]
    BY <2>2, <2>4, <2>6
  <2> QED BY <2>5, <2>6
<1>3. CASE EmitPush(t)
  <2>1. pending' = [pending EXCEPT ![cursor[t]] = @ \union {hand[t]}]
        /\ UNCHANGED <<free, batch>>
    BY <1>3 DEF EmitPush
  <2>2. ASSUME NEW s \in Sinks, s = cursor[t]
        PROVE  /\ pending'[s] = pending[s] \union {hand[t]}
               /\ Held(s) = {hand[t]} /\ Held(s)' = {}
    BY <1>3, <2>1, <2>2, PushHeld
  <2>3. ASSUME NEW s \in Sinks, s # cursor[t]
        PROVE  pending'[s] = pending[s] /\ Held(s)' = Held(s)
    BY <1>3, <2>1, <2>3, PushHeld
  <2> QED BY <2>1, <2>2, <2>3
<1> QED BY <1>1, <1>2, <1>3 DEF EmitStep

(* Flush, Free and Discard, seen from the node array of sink s.            *)
LEMMA WorkerMoves ==
  ASSUME TypeOK, NEW s \in Sinks, WorkerStep(s)
  PROVE  \/ UNCHANGED <<free, pending, batch, dropped, sent, lost>>
         \/ /\ wpc[s] \in {"connect", "hello", "drain"} /\ wpc'[s] \in {"send", "recycle"}
            /\ Flush(s)
            /\ UNCHANGED <<free, dropped, sent, lost, m_sequence, noticeSeq, claim, lastWire, drops>>
         \/ /\ wpc[s] \in {"send", "recycle"} /\ wpc'[s] \in {"send", "recycle"}
            /\ \E n \in batch[s] :
                 /\ Free(s, n)
                 /\ \/ /\ IsNext(s, n) /\ UNCHANGED <<dropped, lost>>
                       /\ lastWire' = [lastWire EXCEPT ![s] = event[s][n]]
                       /\ sent' = [sent EXCEPT ![s] = @ \union {event[s][n]}]
                    \/ /\ dropped' = [dropped EXCEPT ![s] = @ + 1]
                       /\ lost' = [lost EXCEPT ![s] = @ \union {event[s][n]}]
                       /\ UNCHANGED <<sent, lastWire>>
            /\ UNCHANGED <<pending, m_sequence, noticeSeq, claim, drops>>
<1> USE DEF TypeOK, QueueTypes, WorkerTypes, WGoto, threadVars, queueVars, workerVars, history
<1>1. CASE WorkerConnect(s) \/ WorkerHello(s) \/ WorkerReconnect(s) \/ WorkerReadDrops(s)
           \/ WorkerCommit(s) \/ WorkerNotify(s) \/ WorkerNotifyFails(s)
  BY <1>1 DEF WorkerConnect, WorkerHello, WorkerReconnect, WorkerReadDrops, WorkerCommit,
              WorkerNotify, WorkerNotifyFails
<1>2. CASE WorkerConnectFails(s)
  BY <1>2 DEF WorkerConnectFails
<1>3. CASE WorkerDrain(s)
  BY <1>3 DEF WorkerDrain
<1>4. CASE WorkerSend(s)
  BY <1>4 DEF WorkerSend
<1>5. CASE WorkerSendFails(s)
  BY <1>5 DEF WorkerSendFails, Discard
<1>6. CASE WorkerRecycle(s)
  BY <1>6 DEF WorkerRecycle, Discard
<1> QED BY <1>1, <1>2, <1>3, <1>4, <1>5, <1>6 DEF WorkerStep

LEMMA WorkerNodes ==
  ASSUME TypeOK, Ownership, NodesConserved, NEW s \in Sinks, WorkerStep(s)
  PROVE  NodesConserved'
<1> USE DEF TypeOK, QueueTypes, NodesConserved, Queued
<1>0. \A r \in Sinks : Held(r)' = Held(r)
  BY WorkerHeld
<1>1. CASE UNCHANGED <<free, pending, batch>>
  BY <1>0, <1>1
<1>2. CASE Flush(s) /\ batch[s] = {} /\ UNCHANGED free
  BY <1>0, <1>2 DEF Flush
<1>3. CASE UNCHANGED pending /\ \E n \in batch[s] : Free(s, n)
  BY <1>0, <1>3 DEF Free
<1> QED BY <1>1, <1>2, <1>3, WorkerMoves DEF Ownership

LEMMA WorkerOwnership ==
  ASSUME TypeOK, Ownership, NEW s \in Sinks, WorkerStep(s)
  PROVE  Ownership'
<1> USE DEF TypeOK, QueueTypes, WorkerTypes, Ownership, WGoto, Flush, Free, Discard,
        workerVars, queueVars
<1>1. CASE WorkerConnect(s) \/ WorkerHello(s)
  BY <1>1 DEF WorkerConnect, WorkerHello
<1>2. CASE WorkerConnectFails(s) \/ WorkerDrain(s)
  BY <1>2 DEF WorkerConnectFails, WorkerDrain
<1>3. CASE WorkerSend(s) \/ WorkerSendFails(s) \/ WorkerRecycle(s)
  BY <1>3 DEF WorkerSend, WorkerSendFails, WorkerRecycle
<1>4. CASE WorkerReconnect(s) \/ WorkerReadDrops(s)
  BY <1>4 DEF WorkerReconnect, WorkerReadDrops
<1>5. CASE WorkerCommit(s) \/ WorkerNotify(s) \/ WorkerNotifyFails(s)
  BY <1>5 DEF WorkerCommit, WorkerNotify, WorkerNotifyFails
<1> QED BY <1>1, <1>2, <1>3, <1>4, <1>5 DEF WorkerStep

LEMMA NextNodes ==
  TypeOK /\ InBody /\ Control /\ Ownership /\ NodesConserved /\ [Next]_vars
    => Ownership' /\ NodesConserved'
<1> SUFFICES ASSUME TypeOK, InBody, Control, Ownership, NodesConserved, [Next]_vars
             PROVE  Ownership' /\ NodesConserved'
  OBVIOUS
<1>1. ASSUME NEW t \in Threads, StartStep(t) PROVE NodesConserved'
  BY <1>1, StartFrame, StartHeld DEF NodesConserved, Queued
<1>2. ASSUME NEW t \in Threads, StartStep(t) PROVE Ownership'
  <2>1. batch' = batch
    BY <1>2, StartFrame
  <2>2. wpc' = wpc \/ \E s \in Sinks : wpc' = [wpc EXCEPT ![s] = "connect"] /\ wpc[s] = "none"
    BY <1>2 DEF StartStep, StartCheck, StartFlag, StartPinFails, StartSkip, StartSinkFails,
                StartSink, StartPublish, StartDone, workerVars, Control, NeedsWorker
  <2> QED BY <2>1, <2>2 DEF Ownership, TypeOK, WorkerTypes
<1>3. ASSUME NEW t \in Threads, EmitStep(t) PROVE Ownership'
  BY <1>3 DEF EmitStep, EmitCheck, EmitLock, EmitSkip, EmitPop, EmitDrop, EmitPush,
              EmitUnlock, workerVars, Ownership
<1>4. CASE UNCHANGED vars
  <2>1. UNCHANGED <<free, pending, batch, wpc, at, cursor, hand>>
    BY <1>4 DEF vars, threadVars, queueVars, workerVars
  <2> QED BY <2>1 DEF NodesConserved, Ownership, Queued, Held
<1> QED BY <1>1, <1>2, <1>3, <1>4, EmitNodes, WorkerNodes, WorkerOwnership DEF Next

LEMMA InitNodes == Init => Ownership /\ NodesConserved
BY DEF Init, Ownership, NodesConserved, Queued, Held

(* No node of a sink ever leaks, is in two places, or is freed twice.      *)
THEOREM NodesAreConserved == Spec => []NodesConserved
BY InitTypeOK, InitControl, InitNodes, NextTypeOK, NextControl, NextNodes, PTL DEF Spec

-----------------------------------------------------------------------------
(* How the events are numbered                                             *)

(* The thread inside m_emit_lock keeps the highest number to itself.       *)
LEMMA EmitNewest ==
  ASSUME TypeOK, InBody, Control, Newest, Numbers, NEW t \in Threads, EmitStep(t)
  PROVE  Newest'
<1> USE DEF TypeOK, ThreadTypes, QueueTypes, WorkerTypes, Newest, Reached, Goto, Advance,
        threadVars, queueVars, workerVars, history
<1>0. \A u \in Threads \ {t} : at[t] \in {"pop", "push"} => at[u] \notin {"pop", "push"}
  BY DEF Control
<1>1. CASE EmitCheck(t)
  BY <1>1 DEF EmitCheck
<1>2. CASE EmitLock(t)
  <2>1. \A u \in Threads : at[u] \notin {"pop", "push"}
    BY <1>2, ConstantsAssumption DEF EmitLock, LockIsFree, Control
  <2>2. /\ at' = [at EXCEPT ![t] = "pop"] /\ seq' = [seq EXCEPT ![t] = m_sequence + 1]
        /\ m_sequence' = m_sequence + 1 /\ UNCHANGED <<noticeSeq, offered>>
    BY <1>2 DEF EmitLock
  <2>3. \A s \in Sinks : noticeSeq'[s] < m_sequence' /\ m_sequence' \notin offered'[s]
    BY <2>2 DEF Numbers, NumbersOf
  <2> QED BY <2>1, <2>2, <2>3
<1>3. CASE EmitSkip(t)
  BY <1>0, <1>3 DEF EmitSkip, Sinks
<1>4. CASE EmitPop(t)
  <2>1. /\ at[t] = "pop" /\ at' = [at EXCEPT ![t] = "push"] /\ cursor[t] \in Sinks
        /\ UNCHANGED <<seq, m_sequence, noticeSeq, cursor>>
        /\ offered' = [offered EXCEPT ![cursor[t]] = @ \union {seq[t]}]
    BY <1>4 DEF EmitPop
  <2> QED BY <1>0, <2>1 DEF Sinks
<1>5. CASE EmitDrop(t)
  <2>1. /\ at[t] = "pop" /\ at' = at /\ cursor[t] \in Sinks
        /\ cursor' = [cursor EXCEPT ![t] = @ + 1]
        /\ UNCHANGED <<seq, m_sequence, noticeSeq>>
        /\ offered' = [offered EXCEPT ![cursor[t]] = @ \union {seq[t]}]
    BY <1>5 DEF EmitDrop
  <2> QED BY <1>0, <2>1 DEF Sinks
<1>6. CASE EmitPush(t)
  BY <1>0, <1>6 DEF EmitPush, InBody, Sinks
<1>7. CASE EmitUnlock(t)
  BY <1>0, <1>7 DEF EmitUnlock
<1> QED
  BY <1>1, <1>2, <1>3, <1>4, <1>5, <1>6, <1>7 DEF EmitStep

LEMMA NextNewest ==
  TypeOK /\ InBody /\ Control /\ Newest /\ Numbers /\ [Next]_vars => Newest'
<1> SUFFICES ASSUME TypeOK, InBody, Control, Newest, Numbers, [Next]_vars PROVE Newest'
  OBVIOUS
<1>1. ASSUME NEW t \in Threads, StartStep(t) PROVE Newest'
  <2>1. UNCHANGED <<m_sequence, seq, noticeSeq, offered>>
    BY <1>1, StartFrame
  <2>2. \A u \in Threads :
          at'[u] \in {"pop", "push"} => at'[u] = at[u] /\ cursor'[u] = cursor[u]
    BY <1>1 DEF StartStep, StartCheck, StartFlag, StartPinFails, StartSkip, StartSinkFails,
                StartSink, StartPublish, StartDone, Goto, Advance, TypeOK, ThreadTypes
  <2> QED BY <2>1, <2>2 DEF Newest, Reached
<1>2. ASSUME NEW s \in Sinks, WorkerStep(s) PROVE Newest'
  <2>1. UNCHANGED <<at, seq, cursor, offered>>
    BY <1>2, WorkerFrame
  <2>2. UNCHANGED <<m_sequence, noticeSeq>> \/ emitLock = NoThread
    BY <1>2 DEF WorkerStep, WorkerConnect, WorkerConnectFails, WorkerHello, WorkerDrain,
                WorkerSend, WorkerSendFails, WorkerRecycle, WorkerReconnect,
                WorkerReadDrops, WorkerCommit, WorkerNotify, WorkerNotifyFails, LockIsFree,
                threadVars
  <2> QED BY <2>1, <2>2, ConstantsAssumption DEF Newest, Reached, Control
<1>3. CASE UNCHANGED vars
  BY <1>3 DEF Newest, Reached, vars, threadVars, workerVars, history
<1> QED BY <1>1, <1>2, <1>3, EmitNewest DEF Next

(* What holds of one sink: its numbers and its account of losses.          *)
AccountOf(s) ==
  /\ IsFiniteSet(lost[s])
  /\ dropped[s] = Cardinality(lost[s])
  /\ offered[s] = Open(s) \union sent[s] \union lost[s]
  /\ Open(s) \intersect (sent[s] \union lost[s]) = {}
  /\ sent[s] \intersect lost[s] = {}

SinkInv(s) == NumbersOf(s) /\ AccountOf(s)

LEMMA SinkInvEquiv ==
  (\A s \in Sinks : SinkInv(s)) <=> Numbers /\ FiniteLoss /\ LossAccounted
BY DEF SinkInv, AccountOf, Numbers, FiniteLoss, LossAccounted

LEMMA SinkInvEquivNext ==
  (\A s \in Sinks : SinkInv(s)') <=> Numbers' /\ FiniteLoss' /\ LossAccounted'
BY DEF SinkInv, AccountOf, Numbers, FiniteLoss, LossAccounted

(* A sink that a step does not touch, except that numbers are allotted.    *)
LEMMA SinkUntouched ==
  ASSUME TypeOK, TypeOK', NEW s \in Sinks, SinkInv(s),
         m_sequence <= m_sequence',
         Held(s)' = Held(s),
         pending'[s] = pending[s], batch'[s] = batch[s], event'[s] = event[s],
         dropped'[s] = dropped[s], offered'[s] = offered[s], sent'[s] = sent[s],
         lost'[s] = lost[s], noticeSeq'[s] = noticeSeq[s], lastWire'[s] = lastWire[s],
         wpc'[s] = "notify" => wpc[s] = "notify"
  PROVE  SinkInv(s)'
<1>1. Queued(s)' = Queued(s) /\ Open(s)' = Open(s)
  BY DEF Queued, Open
<1>2. NumbersOf(s)'
  BY <1>1 DEF SinkInv, NumbersOf, TypeOK, ThreadTypes, QueueTypes, WorkerTypes
<1>3. AccountOf(s)'
  BY <1>1 DEF SinkInv, AccountOf
<1> QED BY <1>2, <1>3 DEF SinkInv

(* An event joins the queue of s with a number that s has never seen.      *)
LEMMA SinkPop ==
  ASSUME TypeOK, TypeOK', InBody, Control, Ownership, NodesConserved, Newest,
         NEW t \in Threads, EmitPop(t), SinkInv(cursor[t])
  PROVE  SinkInv(cursor[t])'
<1> DEFINE s == cursor[t]
<1>1. /\ at[t] = "pop" /\ s \in Sinks /\ cursor' = cursor
      /\ UNCHANGED <<m_sequence, pending, batch, dropped, sent, lost, noticeSeq, lastWire, wpc>>
      /\ offered'[s] = offered[s] \union {seq[t]}
  BY DEF EmitPop, TypeOK, QueueTypes, workerVars
<1>2. PICK n \in free[s] : /\ hand'[t] = n
                           /\ event'[s] = [event[s] EXCEPT ![n] = seq[t]]
  BY DEF EmitPop, TypeOK, ThreadTypes, QueueTypes
<1>3. Held(s) = {} /\ Held(s)' = {n}
  BY <1>1, <1>2, PopHeld
<1>4. /\ seq[t] = m_sequence /\ m_sequence \notin offered[s]
      /\ noticeSeq[s] < m_sequence
  <2>1. ~Reached(t, s)
    BY <1>1 DEF Reached, Sinks
  <2> QED BY <1>1, <2>1 DEF Newest
<1>5. /\ n \in Nodes /\ n \notin Queued(s) /\ n \notin pending[s] /\ n \notin batch[s]
      /\ Queued(s)' = Queued(s) \union {n}
  BY <1>1, <1>2, <1>3 DEF NodesConserved, Queued, TypeOK, QueueTypes
<1>6. /\ event'[s][n] = m_sequence
      /\ \A m \in Queued(s) : m \in Nodes /\ event'[s][m] = event[s][m]
  BY <1>1, <1>2, <1>4, <1>5 DEF NodesConserved, TypeOK, QueueTypes
<1>7. Open(s)' = Open(s) \union {m_sequence}
  BY <1>1, <1>5, <1>6 DEF Open
<1>8. /\ m_sequence \in Nat /\ 0 < m_sequence /\ lastWire[s] < m_sequence
      /\ Open(s) \subseteq offered[s] /\ sent[s] \subseteq offered[s]
      /\ offered[s] \subseteq Nat /\ lost[s] \subseteq offered[s]
      /\ noticeSeq[s] \in Nat /\ lastWire[s] \in Nat
      /\ \A q \in offered[s] : q < m_sequence
  <2>1. /\ m_sequence \in Nat /\ noticeSeq[s] \in Nat /\ lastWire[s] \in Nat
        /\ offered[s] \subseteq Nat
    BY <1>1 DEF TypeOK, ThreadTypes, QueueTypes, WorkerTypes
  <2>2. /\ Open(s) \subseteq offered[s] /\ sent[s] \subseteq offered[s]
        /\ lost[s] \subseteq offered[s]
    BY DEF SinkInv, AccountOf
  <2>3. \A q \in offered[s] : q < m_sequence
    BY <1>4, <2>1 DEF SinkInv, NumbersOf
  <2>4. lastWire[s] \in sent[s] \/ lastWire[s] <= noticeSeq[s]
    BY DEF SinkInv, NumbersOf
  <2> QED BY <1>4, <2>1, <2>2, <2>3, <2>4
<1>9. NumbersOf(s)'
  <2>1. \A k \in batch'[s] : \A m \in pending'[s] \union Held(s)' : event'[s][k] < event'[s][m]
    <3>1. \A k \in batch[s] : k \in Queued(s) /\ event[s][k] \in Open(s)
      BY DEF Queued, Open
    <3>2. \A m \in pending[s] : m \in Queued(s)
      BY DEF Queued
    <3> QED BY <1>1, <1>3, <1>6, <1>8, <3>1, <3>2 DEF SinkInv, NumbersOf
  <2>5. \A k \in pending'[s] : \A m \in Held(s)' : event'[s][k] < event'[s][m]
    <3>1. \A k \in pending[s] : k \in Queued(s) /\ event[s][k] \in Open(s)
      BY DEF Queued, Open
    <3> QED BY <1>1, <1>3, <1>6, <1>8, <3>1
  <2>2. \A k, m \in Queued(s)' : event'[s][k] = event'[s][m] => k = m
    <3>1. \A k \in Queued(s) : event'[s][k] = event[s][k] /\ event[s][k] < m_sequence
      BY <1>6, <1>8 DEF Open
    <3>2. \A k, m \in Queued(s) : event[s][k] = event[s][m] => k = m
      BY DEF SinkInv, NumbersOf
    <3> QED BY <1>5, <1>6, <1>8, <3>1, <3>2 DEF TypeOK, QueueTypes
  <2>3. \A q \in Open(s)' : /\ q > noticeSeq'[s] /\ q > lastWire'[s]
                            /\ \A p \in sent'[s] : p < q
    BY <1>1, <1>4, <1>7, <1>8 DEF SinkInv, NumbersOf
  <2>4. \A q \in offered'[s] : 0 < q /\ q <= m_sequence'
    BY <1>1, <1>4, <1>8 DEF SinkInv, NumbersOf
  <2> QED BY <1>1, <2>1, <2>2, <2>3, <2>4, <2>5 DEF SinkInv, NumbersOf
<1>10. AccountOf(s)'
  BY <1>1, <1>4, <1>7, <1>8 DEF SinkInv, AccountOf
<1> QED BY <1>1, <1>9, <1>10 DEF SinkInv

(* An event that found no free node is counted, and only that.             *)
LEMMA SinkDrop ==
  ASSUME TypeOK, TypeOK', Newest, NEW t \in Threads, EmitDrop(t),
         NEW s \in Sinks, s = cursor[t], SinkInv(s)
  PROVE  SinkInv(s)'
<1>1. /\ at[t] = "pop"
      /\ UNCHANGED <<m_sequence, free, pending, batch, event, sent, noticeSeq, lastWire, wpc>>
      /\ offered'[s] = offered[s] \union {seq[t]} /\ lost'[s] = lost[s] \union {seq[t]}
      /\ dropped'[s] = dropped[s] + 1
  BY DEF EmitDrop, TypeOK, QueueTypes, workerVars
<1>2. Held(s)' = Held(s) /\ Open(s)' = Open(s)
  BY <1>1, EmitHeld DEF Open, Queued
<1>3. seq[t] = m_sequence /\ m_sequence \notin offered[s] /\ noticeSeq[s] < m_sequence
  <2>1. ~Reached(t, s)
    BY <1>1 DEF Reached, Sinks
  <2> QED BY <1>1, <2>1 DEF Newest
<1>4. NumbersOf(s)'
  <2>1. \A q \in offered'[s] : 0 < q /\ q <= m_sequence'
    BY <1>1, <1>3 DEF SinkInv, NumbersOf, TypeOK, ThreadTypes, WorkerTypes
  <2> QED BY <1>1, <1>2, <2>1 DEF SinkInv, NumbersOf, Queued
<1>5. AccountOf(s)'
  <2>1. m_sequence \notin lost[s] /\ m_sequence \notin Open(s) /\ m_sequence \notin sent[s]
    BY <1>3 DEF SinkInv, AccountOf
  <2>2. IsFiniteSet(lost'[s]) /\ Cardinality(lost'[s]) = Cardinality(lost[s]) + 1
    <3>1. IsFiniteSet(lost[s]) /\ lost'[s] = lost[s] \union {m_sequence}
      BY <1>1, <1>3 DEF SinkInv, AccountOf
    <3>2. /\ IsFiniteSet(lost[s] \union {m_sequence})
          /\ Cardinality(lost[s] \union {m_sequence}) = Cardinality(lost[s]) + 1
      BY <2>1, <3>1, FS_AddElement
    <3> QED BY <3>1, <3>2
  <2> QED BY <1>1, <1>2, <1>3, <2>1, <2>2 DEF SinkInv, AccountOf
<1> QED BY <1>4, <1>5 DEF SinkInv

(* The emitting thread hands its node over to the pending list.            *)
LEMMA SinkPush ==
  ASSUME TypeOK, TypeOK', InBody, Control, Ownership, NodesConserved,
         NEW t \in Threads, EmitPush(t), NEW s \in Sinks, s = cursor[t], SinkInv(s)
  PROVE  SinkInv(s)'
<1>1. /\ UNCHANGED <<m_sequence, batch, event, dropped, offered, sent, lost>>
      /\ UNCHANGED <<noticeSeq, lastWire, wpc>>
      /\ pending'[s] = pending[s] \union {hand[t]}
  BY DEF EmitPush, TypeOK, QueueTypes, workerVars, history
<1>2. Held(s) = {hand[t]} /\ Held(s)' = {}
  BY PushHeld
<1>3. Queued(s)' = Queued(s) /\ Open(s)' = Open(s)
  BY <1>1, <1>2 DEF Queued, Open
<1> QED BY <1>1, <1>2, <1>3 DEF SinkInv, NumbersOf, AccountOf

(* The worker takes over the pending list.                                 *)
LEMMA SinkFlush ==
  ASSUME TypeOK, TypeOK', NEW s \in Sinks, SinkInv(s), batch[s] = {},
         Held(s)' = Held(s), Flush(s),
         UNCHANGED <<m_sequence, event, dropped, offered, sent, lost, noticeSeq, lastWire>>,
         wpc'[s] # "notify"
  PROVE  SinkInv(s)'
<1>1. pending'[s] = {} /\ batch'[s] = pending[s]
  BY DEF Flush, TypeOK, QueueTypes
<1>2. Queued(s)' = Queued(s) /\ Open(s)' = Open(s)
  BY <1>1 DEF Queued, Open
<1> QED BY <1>1, <1>2 DEF SinkInv, NumbersOf, AccountOf

(* A node of the batch is done with: its event leaves the queue.           *)
LEMMA SinkFree ==
  ASSUME TypeOK, NodesConserved, NEW s \in Sinks, SinkInv(s),
         Held(s)' = Held(s), UNCHANGED <<pending, event>>,
         NEW n \in batch[s], Free(s, n)
  PROVE  /\ batch'[s] = batch[s] \ {n}
         /\ Queued(s)' = Queued(s) \ {n}
         /\ event[s][n] \in Open(s)
         /\ Open(s)' = Open(s) \ {event[s][n]}
<1>1. batch'[s] = batch[s] \ {n}
  BY DEF Free, TypeOK, QueueTypes
<1>2. Queued(s)' = Queued(s) \ {n} /\ n \in Queued(s)
  BY <1>1 DEF Queued, NodesConserved
<1>3. \A m \in Queued(s) : event[s][m] = event[s][n] => m = n
  BY <1>2 DEF SinkInv, NumbersOf
<1> QED BY <1>1, <1>2, <1>3 DEF Open

LEMMA SinkSend ==
  ASSUME TypeOK, TypeOK', NodesConserved, NEW s \in Sinks, SinkInv(s),
         Held(s)' = Held(s), NEW n \in batch[s], Free(s, n), IsNext(s, n),
         UNCHANGED <<pending, event, m_sequence, dropped, offered, lost, noticeSeq>>,
         lastWire' = [lastWire EXCEPT ![s] = event[s][n]],
         sent' = [sent EXCEPT ![s] = @ \union {event[s][n]}],
         wpc'[s] # "notify"
  PROVE  SinkInv(s)' /\ lastWire[s] < lastWire'[s]
<1> DEFINE q == event[s][n]
<1>1. /\ batch'[s] = batch[s] \ {n} /\ Queued(s)' = Queued(s) \ {n}
      /\ q \in Open(s) /\ Open(s)' = Open(s) \ {q}
  BY SinkFree
<1>2. lastWire'[s] = q /\ sent'[s] = sent[s] \union {q}
  BY DEF TypeOK, QueueTypes, WorkerTypes
<1>3. \A m \in Queued(s) : m # n => q < event[s][m]
  <2>1. \A m \in pending[s] \union Held(s) : q < event[s][m]
    BY DEF SinkInv, NumbersOf
  <2>2. \A m \in batch[s] : m # n => q <= event[s][m] /\ q # event[s][m]
    BY DEF IsNext, SinkInv, NumbersOf, Queued
  <2>3. \A m \in batch[s] : event[s][m] \in Nat
    BY DEF TypeOK, QueueTypes
  <2> QED BY <2>1, <2>2, <2>3 DEF Queued
<1>4. \A p \in Open(s)' : q < p
  BY <1>1, <1>3 DEF Open
<1>5. \A p \in sent[s] : p < q
  BY <1>1 DEF SinkInv, NumbersOf
<1>6. NumbersOf(s)'
  <2>1. \A p \in Open(s)' : /\ p > noticeSeq'[s] /\ p > lastWire'[s]
                            /\ \A r \in sent'[s] : r < p
    BY <1>1, <1>2, <1>4 DEF SinkInv, NumbersOf
  <2>2. \A k, m \in Queued(s)' : event'[s][k] = event'[s][m] => k = m
    BY <1>1 DEF SinkInv, NumbersOf
  <2>3. \A k \in batch'[s] : \A m \in pending'[s] \union Held(s)' : event'[s][k] < event'[s][m]
    BY <1>1 DEF SinkInv, NumbersOf
  <2> QED BY <1>1, <1>2, <2>1, <2>2, <2>3 DEF SinkInv, NumbersOf
<1>7. AccountOf(s)'
  BY <1>1, <1>2 DEF SinkInv, AccountOf
<1>8. lastWire[s] < lastWire'[s]
  BY <1>1, <1>2 DEF SinkInv, NumbersOf
<1> QED BY <1>6, <1>7, <1>8 DEF SinkInv

LEMMA SinkDiscard ==
  ASSUME TypeOK, TypeOK', NodesConserved, NEW s \in Sinks, SinkInv(s),
         Held(s)' = Held(s), NEW n \in batch[s], Free(s, n),
         UNCHANGED <<pending, event, m_sequence, offered, sent, noticeSeq, lastWire>>,
         dropped' = [dropped EXCEPT ![s] = @ + 1],
         lost' = [lost EXCEPT ![s] = @ \union {event[s][n]}],
         wpc'[s] # "notify"
  PROVE  SinkInv(s)'
<1> DEFINE q == event[s][n]
<1>1. /\ batch'[s] = batch[s] \ {n} /\ Queued(s)' = Queued(s) \ {n}
      /\ q \in Open(s) /\ Open(s)' = Open(s) \ {q}
  BY SinkFree
<1>2. dropped'[s] = dropped[s] + 1 /\ lost'[s] = lost[s] \union {q}
  BY DEF TypeOK, QueueTypes
<1>3. NumbersOf(s)'
  <2>1. \A p \in Open(s)' : p \in Open(s)
    BY <1>1
  <2>2. \A k, m \in Queued(s)' : event'[s][k] = event'[s][m] => k = m
    BY <1>1 DEF SinkInv, NumbersOf
  <2>3. \A k \in batch'[s] : \A m \in pending'[s] \union Held(s)' : event'[s][k] < event'[s][m]
    BY <1>1 DEF SinkInv, NumbersOf
  <2> QED BY <1>1, <2>1, <2>2, <2>3 DEF SinkInv, NumbersOf
<1>4. AccountOf(s)'
  <2>1. IsFiniteSet(lost[s])' /\ Cardinality(lost[s])' = Cardinality(lost[s]) + 1
    BY <1>1, <1>2, FS_AddElement DEF SinkInv, AccountOf
  <2> QED BY <1>1, <1>2, <2>1 DEF SinkInv, AccountOf
<1> QED BY <1>3, <1>4 DEF SinkInv

(* A notice is committed while nothing is queued, so it is the newest.     *)
LEMMA SinkCommit ==
  ASSUME TypeOK, TypeOK', Control, Ownership, NEW s \in Sinks, SinkInv(s), WorkerCommit(s),
         QueueIsEmpty(s)
  PROVE  SinkInv(s)' /\ Queued(s) = {}
<1>1. /\ m_sequence' = m_sequence + 1 /\ noticeSeq'[s] = m_sequence + 1
      /\ UNCHANGED <<pending, batch, event, dropped, offered, sent, lost, lastWire>>
  BY DEF WorkerCommit, TypeOK, WorkerTypes, queueVars, history
<1>2. Held(s) = {} /\ Held(s)' = {}
  <2>1. WorkerStep(s) /\ emitLock = NoThread
    BY DEF WorkerStep, WorkerCommit, LockIsFree
  <2> QED BY <2>1, HeldByNone, WorkerHeld
<1>3. pending[s] = {} /\ batch[s] = {}
  BY DEF WorkerCommit, QueueIsEmpty, Ownership
<1>4. Queued(s) = {} /\ Queued(s)' = {} /\ Open(s) = {} /\ Open(s)' = {}
  BY <1>1, <1>2, <1>3 DEF Queued, Open
<1>5. lastWire[s] <= m_sequence
  <2>1. sent[s] \subseteq offered[s] /\ (lastWire[s] \in sent[s] \/ lastWire[s] <= noticeSeq[s])
        /\ noticeSeq[s] <= m_sequence /\ \A q \in offered[s] : q <= m_sequence
    BY DEF SinkInv, AccountOf, NumbersOf
  <2>2. m_sequence \in Nat /\ noticeSeq[s] \in Nat /\ lastWire[s] \in Nat
    BY DEF TypeOK, ThreadTypes, WorkerTypes
  <2> QED BY <2>1, <2>2
<1>6. NumbersOf(s)'
  <2>1. lastWire'[s] <= noticeSeq'[s]
    BY <1>1, <1>5 DEF TypeOK, ThreadTypes, WorkerTypes
  <2> QED BY <1>1, <1>2, <1>3, <1>4, <1>5, <2>1
          DEF SinkInv, NumbersOf, TypeOK, ThreadTypes, QueueTypes, WorkerTypes
<1>7. AccountOf(s)'
  BY <1>1, <1>4 DEF SinkInv, AccountOf
<1> QED BY <1>4, <1>6, <1>7 DEF SinkInv

(* Writing Hello or a notice only moves what the receiver has seen.        *)
LEMMA SinkWrite ==
  ASSUME TypeOK, TypeOK', NEW s \in Sinks, SinkInv(s), Held(s)' = Held(s),
         UNCHANGED <<pending, batch, event, dropped, offered, sent, lost, noticeSeq, m_sequence>>,
         lastWire'[s] \in {0, noticeSeq[s]}, wpc'[s] # "notify"
  PROVE  SinkInv(s)'
<1>1. Queued(s)' = Queued(s) /\ Open(s)' = Open(s)
  BY DEF Queued, Open
<1>2. NumbersOf(s)'
  <2>1. \A q \in Open(s) : q > 0
    BY DEF SinkInv, NumbersOf, AccountOf
  <2>2. lastWire'[s] <= noticeSeq'[s]
    BY DEF TypeOK, WorkerTypes
  <2> QED BY <1>1, <2>1, <2>2 DEF SinkInv, NumbersOf
<1>3. AccountOf(s)'
  BY <1>1 DEF SinkInv, AccountOf
<1> QED BY <1>2, <1>3 DEF SinkInv

(* A worker's step leaves the other sinks alone.                           *)
LEMMA WorkerOthers ==
  ASSUME TypeOK, NEW s \in Sinks, WorkerStep(s), NEW r \in Sinks \ {s}
  PROVE  /\ free'[r] = free[r] /\ pending'[r] = pending[r] /\ batch'[r] = batch[r]
         /\ dropped'[r] = dropped[r] /\ sent'[r] = sent[r] /\ lost'[r] = lost[r]
         /\ noticeSeq'[r] = noticeSeq[r] /\ lastWire'[r] = lastWire[r] /\ claim'[r] = claim[r]
         /\ wpc'[r] = wpc[r] /\ drops'[r] = drops[r]
         /\ m_sequence <= m_sequence'
<1> USE DEF TypeOK, ThreadTypes, QueueTypes, WorkerTypes, WGoto, Flush, Free, Discard,
        ForgetReported, threadVars, queueVars, workerVars, history
<1>1. CASE WorkerConnect(s) \/ WorkerHello(s) \/ WorkerReconnect(s) \/ WorkerReadDrops(s)
  BY <1>1 DEF WorkerConnect, WorkerHello, WorkerReconnect, WorkerReadDrops
<1>2. CASE WorkerConnectFails(s) \/ WorkerDrain(s)
  BY <1>2 DEF WorkerConnectFails, WorkerDrain
<1>3. CASE WorkerSend(s)
  BY <1>3 DEF WorkerSend
<1>4. CASE WorkerSendFails(s) \/ WorkerRecycle(s)
  BY <1>4 DEF WorkerSendFails, WorkerRecycle
<1>5. CASE WorkerCommit(s)
  BY <1>5 DEF WorkerCommit
<1>6. CASE WorkerNotify(s) \/ WorkerNotifyFails(s)
  BY <1>6 DEF WorkerNotify, WorkerNotifyFails
<1> QED BY <1>1, <1>2, <1>3, <1>4, <1>5, <1>6 DEF WorkerStep

LEMMA WorkerSink ==
  ASSUME TypeOK, TypeOK', Control, Ownership, NodesConserved,
         NEW s \in Sinks, SinkInv(s), WorkerStep(s)
  PROVE  SinkInv(s)' /\ (lastWire'[s] # lastWire[s] => lastWire[s] < lastWire'[s] \/ wpc[s] = "hello")
<1> USE DEF TypeOK, ThreadTypes, QueueTypes, WorkerTypes, WGoto,
        threadVars, queueVars, workerVars, history
<1>0. Held(s)' = Held(s)
  BY WorkerHeld
<1>1. CASE WorkerConnect(s) \/ WorkerReconnect(s) \/ WorkerReadDrops(s) \/ WorkerNotifyFails(s)
  <2>1. /\ UNCHANGED <<m_sequence, pending, batch, event, dropped, offered, sent, lost>>
        /\ UNCHANGED <<noticeSeq, lastWire>>
        /\ wpc'[s] # "notify"
    BY <1>1 DEF WorkerConnect, WorkerReconnect, WorkerReadDrops, WorkerNotifyFails
  <2> QED BY <1>0, <2>1, SinkUntouched
<1>2. CASE WorkerHello(s)
  <2>1. /\ UNCHANGED <<m_sequence, pending, batch, event, dropped, offered, sent, lost, noticeSeq>>
        /\ lastWire'[s] = 0 /\ wpc'[s] # "notify" /\ wpc[s] = "hello"
    BY <1>2 DEF WorkerHello
  <2> QED BY <1>0, <2>1, SinkWrite
<1>3. CASE WorkerNotify(s)
  <2>1. /\ UNCHANGED <<m_sequence, pending, batch, event, dropped, offered, sent, lost, noticeSeq>>
        /\ lastWire'[s] = noticeSeq[s] /\ wpc'[s] # "notify" /\ wpc[s] = "notify"
    BY <1>3 DEF WorkerNotify
  <2>2. lastWire[s] < noticeSeq[s]
    BY <2>1 DEF SinkInv, NumbersOf
  <2> QED BY <1>0, <2>1, <2>2, SinkWrite
<1>4. CASE WorkerConnectFails(s) \/ WorkerDrain(s)
  <2>1. /\ UNCHANGED <<m_sequence, event, dropped, offered, sent, lost, noticeSeq, lastWire>>
        /\ Flush(s) /\ batch[s] = {} /\ wpc'[s] # "notify"
    BY <1>4 DEF WorkerConnectFails, WorkerDrain, Ownership
  <2> QED BY <1>0, <2>1, SinkFlush
<1>5. CASE WorkerSend(s)
  <2>1. PICK n \in batch[s] :
           /\ IsNext(s, n) /\ Free(s, n)
           /\ lastWire' = [lastWire EXCEPT ![s] = event[s][n]]
           /\ sent' = [sent EXCEPT ![s] = @ \union {event[s][n]}]
    BY <1>5 DEF WorkerSend
  <2>2. /\ UNCHANGED <<pending, event, m_sequence, dropped, offered, lost, noticeSeq>>
        /\ wpc[s] = "send" /\ wpc' = wpc
    BY <1>5 DEF WorkerSend
  <2> QED BY <1>0, <2>1, <2>2, SinkSend
<1>6. CASE WorkerSendFails(s) \/ WorkerRecycle(s)
  <2>1. PICK n \in batch[s] :
           /\ Free(s, n) /\ dropped' = [dropped EXCEPT ![s] = @ + 1]
           /\ lost' = [lost EXCEPT ![s] = @ \union {event[s][n]}]
    BY <1>6 DEF WorkerSendFails, WorkerRecycle, Discard
  <2>2. UNCHANGED <<pending, event, m_sequence, offered, sent, noticeSeq, lastWire>>
    BY <1>6 DEF WorkerSendFails, WorkerRecycle
  <2>3. wpc'[s] = "recycle"
    BY <1>6 DEF WorkerSendFails, WorkerRecycle
  <2> QED BY <1>0, <2>1, <2>2, <2>3, SinkDiscard
<1>7. CASE WorkerCommit(s)
  <2>1. CASE QueueIsEmpty(s)
    BY <1>7, <2>1, SinkCommit DEF WorkerCommit
  <2>2. CASE ~QueueIsEmpty(s)
    <3>1. /\ UNCHANGED <<m_sequence, pending, batch, event, dropped, offered, sent, lost>>
          /\ UNCHANGED <<noticeSeq, lastWire>>
          /\ wpc'[s] # "notify"
      BY <1>7, <2>2 DEF WorkerCommit
    <3> QED BY <1>0, <3>1, SinkUntouched
  <2> QED BY <2>1, <2>2
<1> QED BY <1>1, <1>2, <1>3, <1>4, <1>5, <1>6, <1>7 DEF WorkerStep

LEMMA EmitSinks ==
  ASSUME TypeOK, TypeOK', InBody, Control, Ownership, NodesConserved, Newest,
         \A s \in Sinks : SinkInv(s), NEW t \in Threads, EmitStep(t), NEW r \in Sinks
  PROVE  SinkInv(r)'
<1> USE DEF TypeOK, ThreadTypes, QueueTypes, WorkerTypes,
        threadVars, queueVars, workerVars, history
<1>1. CASE EmitCheck(t) \/ EmitLock(t) \/ EmitSkip(t) \/ EmitUnlock(t)
  <2>1. /\ UNCHANGED <<pending, batch, event, dropped, offered, sent, lost>>
        /\ UNCHANGED <<noticeSeq, lastWire, wpc>>
        /\ m_sequence <= m_sequence'
    BY <1>1 DEF EmitCheck, EmitLock, EmitSkip, EmitUnlock
  <2>2. Held(r)' = Held(r)
    BY <1>1, EmitHeld
  <2> QED BY <2>1, <2>2, SinkUntouched
<1>2. CASE EmitPop(t)
  <2>1. CASE r = cursor[t]
    <3>1. cursor' = cursor
      BY <1>2 DEF EmitPop
    <3> QED BY <1>2, <2>1, <3>1, SinkPop
  <2>2. CASE r # cursor[t]
    <3>1. /\ UNCHANGED <<m_sequence, pending, batch, dropped, sent, lost, noticeSeq, lastWire, wpc>>
          /\ event'[r] = event[r] /\ offered'[r] = offered[r]
      BY <1>2, <2>2 DEF EmitPop
    <3>2. Held(r)' = Held(r)
      BY <1>2, <2>2, PopHeld
    <3> QED BY <3>1, <3>2, SinkUntouched
  <2> QED BY <2>1, <2>2
<1>3. CASE EmitDrop(t)
  <2>1. CASE r = cursor[t]
    BY <1>3, <2>1, SinkDrop
  <2>2. CASE r # cursor[t]
    <3>1. /\ UNCHANGED <<m_sequence, pending, batch, event, sent, noticeSeq, lastWire, wpc>>
          /\ dropped'[r] = dropped[r] /\ offered'[r] = offered[r] /\ lost'[r] = lost[r]
      BY <1>3, <2>2 DEF EmitDrop
    <3>2. Held(r)' = Held(r)
      BY <1>3, EmitHeld
    <3> QED BY <3>1, <3>2, SinkUntouched
  <2> QED BY <2>1, <2>2
<1>4. CASE EmitPush(t)
  <2>1. CASE r = cursor[t]
    BY <1>4, <2>1, SinkPush
  <2>2. CASE r # cursor[t]
    <3>1. /\ UNCHANGED <<m_sequence, batch, event, dropped, offered, sent, lost>>
          /\ UNCHANGED <<noticeSeq, lastWire, wpc>> /\ pending'[r] = pending[r]
      BY <1>4, <2>2 DEF EmitPush
    <3>2. Held(r)' = Held(r)
      BY <1>4, <2>2, PushHeld
    <3> QED BY <3>1, <3>2, SinkUntouched
  <2> QED BY <2>1, <2>2
<1> QED BY <1>1, <1>2, <1>3, <1>4 DEF EmitStep

Base == TypeOK /\ InBody /\ Control /\ Ownership /\ NodesConserved /\ Newest

LEMMA NextSinks ==
  ASSUME Base, TypeOK', \A s \in Sinks : SinkInv(s), [Next]_vars, NEW r \in Sinks
  PROVE  SinkInv(r)'
<1> USE DEF Base
<1>1. ASSUME NEW t \in Threads, StartStep(t) PROVE SinkInv(r)'
  <2>1. wpc'[r] = "notify" => wpc[r] = "notify"
    BY <1>1 DEF StartStep, StartCheck, StartFlag, StartPinFails, StartSkip, StartSinkFails,
                StartSink, StartPublish, StartDone, workerVars, TypeOK, WorkerTypes
  <2>2. m_sequence <= m_sequence'
    BY <1>1, StartFrame DEF TypeOK, ThreadTypes
  <2> QED BY <1>1, <2>1, <2>2, StartFrame, StartHeld, SinkUntouched
<1>2. ASSUME NEW s \in Sinks, WorkerStep(s) PROVE SinkInv(r)'
  <2>1. CASE r = s
    BY <1>2, <2>1, WorkerSink
  <2>2. CASE r # s
    <3>1. event'[r] = event[r] /\ offered'[r] = offered[r] /\ Held(r)' = Held(r)
      BY <1>2, WorkerFrame, WorkerHeld
    <3> QED BY <1>2, <2>2, <3>1, WorkerOthers, SinkUntouched
  <2> QED BY <2>1, <2>2
<1>3. CASE UNCHANGED vars
  <2>1. /\ UNCHANGED <<m_sequence, pending, batch, event, dropped, offered, sent, lost>>
        /\ UNCHANGED <<noticeSeq, lastWire, wpc, at, cursor, hand>>
    BY <1>3 DEF vars, threadVars, queueVars, workerVars, history
  <2>2. Held(r)' = Held(r)
    BY <2>1 DEF Held
  <2> QED BY <2>1, <2>2, SinkUntouched DEF TypeOK, ThreadTypes
<1> QED BY <1>1, <1>2, <1>3, EmitSinks DEF Next

LEMMA InitSinks == Init => Newest /\ \A s \in Sinks : SinkInv(s)
<1> SUFFICES ASSUME Init PROVE Newest /\ \A s \in Sinks : SinkInv(s)
  OBVIOUS
<1>1. Newest
  BY DEF Init, Newest
<1>2. ASSUME NEW s \in Sinks PROVE SinkInv(s)
  <2>1. Queued(s) = {} /\ Open(s) = {} /\ Held(s) = {}
    BY DEF Init, Queued, Held, Open
  <2>2. NumbersOf(s)
    BY <2>1 DEF Init, NumbersOf
  <2>3. AccountOf(s)
    BY <2>1, FS_EmptySet DEF Init, AccountOf
  <2> QED BY <2>2, <2>3 DEF SinkInv
<1> QED BY <1>1, <1>2

(* The core of the invariant.                                              *)
Core == Base /\ \A s \in Sinks : SinkInv(s)

LEMMA InitCore == Init => Core
BY InitTypeOK, InitControl, InitNodes, InitSinks DEF Core, Base

LEMMA NextCore == Core /\ [Next]_vars => Core'
<1> SUFFICES ASSUME Core, [Next]_vars PROVE Core'
  OBVIOUS
<1>1. TypeOK' /\ InBody'
  BY NextTypeOK DEF Core, Base
<1>2. Control' /\ Ownership' /\ NodesConserved'
  BY NextControl, NextNodes DEF Core, Base
<1>3. Newest'
  BY NextNewest, SinkInvEquiv DEF Core, Base
<1>4. \A s \in Sinks : SinkInv(s)'
  BY <1>1, NextSinks DEF Core
<1> QED BY <1>1, <1>2, <1>3, <1>4 DEF Core, Base

LEMMA CoreHolds == Spec => []Core
BY InitCore, NextCore, PTL DEF Spec

(* Every event published to a sink is in its queue, written, or counted in *)
(* Sink::dropped, whatever fails.                                          *)
THEOREM LossIsAccounted == Spec => []LossAccounted
<1>1. Core => LossAccounted
  BY SinkInvEquiv DEF Core
<1> QED BY <1>1, CoreHolds, PTL

(* No receiver ever sees a frame out of sequence on a connection.          *)
THEOREM FramesAreInOrder == Spec => FramesInOrder
<1> DEFINE Ordered == \A s \in Sinks :
             lastWire'[s] # lastWire[s] => lastWire'[s] > lastWire[s] \/ wpc[s] = "hello"
<1>1. Core /\ [Next]_vars => [Ordered]_vars
  <2> SUFFICES ASSUME Core, Next, NEW s \in Sinks, lastWire'[s] # lastWire[s]
               PROVE  lastWire'[s] > lastWire[s] \/ wpc[s] = "hello"
    OBVIOUS
  <2>1. PICK r \in Sinks : WorkerStep(r)
    <3>1. ASSUME NEW t \in Threads, EmitStep(t) PROVE lastWire' = lastWire
      BY <3>1 DEF EmitStep, EmitCheck, EmitLock, EmitSkip, EmitPop, EmitDrop, EmitPush,
                  EmitUnlock, workerVars
    <3> QED BY <3>1, StartFrame DEF Next
  <2>2. r = s
    BY <2>1, WorkerOthers DEF Core, Base
  <2>3. TypeOK'
    BY NextCore DEF Core, Base
  <2>4. lastWire[s] < lastWire'[s] \/ wpc[s] = "hello"
    BY <2>1, <2>2, <2>3, WorkerSink DEF Core, Base
  <2> QED BY <2>3, <2>4 DEF Core, Base, TypeOK, WorkerTypes
<1> QED BY <1>1, CoreHolds, PTL DEF Spec, FramesInOrder
-----------------------------------------------------------------------------
(* The count of a DropNotice                                               *)

(* Between reading the drop counter and taking m_emit_lock, an event can   *)
(* only be dropped while the pending list is full.                         *)
CountOf(s) == wpc[s] = "notice" => pending[s] # {} \/ drops[s] = dropped[s]

Before(s) == {q \in offered[s] : q < noticeSeq[s]}

ExactOf(s) ==
  wpc[s] = "notify" =>
    /\ Before(s) \subseteq sent[s] \union lost[s]
    /\ claim[s] = SaturatedCount(Cardinality(Before(s) \intersect lost[s]))

NoticeInv(s) == CountOf(s) /\ ExactOf(s)

(* The inductive invariant.                                                *)
IInv == Core /\ \A s \in Sinks : NoticeInv(s)

LEMMA EmitNotice ==
  ASSUME Core, NEW t \in Threads, EmitStep(t), NEW r \in Sinks, NoticeInv(r)
  PROVE  NoticeInv(r)'
<1> USE DEF Core, Base
<1>1. /\ wpc' = wpc /\ drops' = drops /\ claim' = claim /\ noticeSeq' = noticeSeq
      /\ sent' = sent
  BY DEF EmitStep, EmitCheck, EmitLock, EmitSkip, EmitPop, EmitDrop, EmitPush,
         EmitUnlock, workerVars, history
<1>2. CASE /\ offered'[r] = offered[r] /\ lost'[r] = lost[r] /\ dropped'[r] = dropped[r]
           /\ pending[r] \subseteq pending'[r]
  BY <1>1, <1>2 DEF NoticeInv, CountOf, ExactOf, Before
<1>3. CASE /\ r = cursor[t] /\ at[t] = "pop" /\ pending' = pending
           /\ offered'[r] = offered[r] \union {seq[t]}
           /\ \/ lost'[r] = lost[r] /\ dropped'[r] = dropped[r]
              \/ lost'[r] = lost[r] \union {seq[t]} /\ free[r] = {}
  <2>1. seq[t] = m_sequence /\ noticeSeq[r] < m_sequence
    BY <1>3 DEF Newest
  <2>2. ~(m_sequence < noticeSeq[r])
    BY <2>1 DEF TypeOK, ThreadTypes, WorkerTypes
  <2>3. Before(r)' = Before(r)
    BY <1>1, <1>3, <2>1, <2>2 DEF Before
  <2>4. Before(r)' \intersect lost'[r] = Before(r) \intersect lost[r]
    BY <1>3, <2>1, <2>2, <2>3 DEF Before
  <2>5. ExactOf(r)'
    BY <1>1, <1>3, <2>3, <2>4 DEF NoticeInv, ExactOf
  <2>6. ASSUME wpc[r] = "notice", free[r] = {} PROVE pending[r] # {}
    <3>1. batch[r] = {} /\ Held(r) = {}
      BY <1>3, <2>6, HeldByHolder DEF Ownership
    <3> QED BY <2>6, <3>1, ConstantsAssumption DEF NodesConserved, Queued
  <2>7. CountOf(r)'
    BY <1>1, <1>3, <2>6 DEF NoticeInv, CountOf
  <2> QED BY <2>5, <2>7 DEF NoticeInv
<1>4. CASE EmitPop(t) \/ EmitDrop(t)
  <2>1. CASE r = cursor[t]
    BY <1>3, <1>4, <2>1 DEF EmitPop, EmitDrop, NoFreeNode, TypeOK, QueueTypes
  <2>2. CASE r # cursor[t]
    BY <1>2, <1>4, <2>2 DEF EmitPop, EmitDrop, TypeOK, QueueTypes
  <2> QED BY <2>1, <2>2
<1>5. CASE EmitCheck(t) \/ EmitLock(t) \/ EmitSkip(t) \/ EmitPush(t) \/ EmitUnlock(t)
  <2>1. UNCHANGED <<offered, lost, dropped>>
    BY <1>5 DEF EmitCheck, EmitLock, EmitSkip, EmitPush, EmitUnlock, queueVars, history
  <2>2. pending' = pending \/ \E n : pending' = [pending EXCEPT ![cursor[t]] = @ \union {n}]
    BY <1>5 DEF EmitCheck, EmitLock, EmitSkip, EmitPush, EmitUnlock, queueVars
  <2>3. pending[r] \subseteq pending'[r]
    BY <2>2 DEF TypeOK, QueueTypes
  <2> QED BY <1>2, <2>1, <2>3
<1> QED BY <1>4, <1>5 DEF EmitStep

(* The notice gets its number while nothing is queued: the count read      *)
(* before is still the number of lost events.                              *)
LEMMA CommitNotice ==
  ASSUME Core, Core', NEW s \in Sinks, WorkerCommit(s), QueueIsEmpty(s), NoticeInv(s)
  PROVE  NoticeInv(s)'
<1>0. Core /\ Core'
  OBVIOUS
<1> USE DEF Core, Base
<1>1. /\ wpc[s] = "notice" /\ wpc'[s] = "notify" /\ noticeSeq'[s] = m_sequence + 1
      /\ claim'[s] = SaturatedCount(drops[s])
      /\ offered' = offered /\ sent' = sent /\ lost' = lost
  BY DEF WorkerCommit, WGoto, TypeOK, WorkerTypes, history
<1>2. drops[s] = dropped[s]
  BY <1>1 DEF NoticeInv, CountOf, QueueIsEmpty
<1>3. Queued(s) = {}
  <2>1. TypeOK /\ TypeOK' /\ Control /\ Ownership /\ SinkInv(s)
    BY <1>0
  <2> QED BY <2>1, SinkCommit
<1>4. /\ offered[s] = sent[s] \union lost[s] /\ dropped[s] = Cardinality(lost[s])
      /\ \A q \in offered[s] : q <= m_sequence
  BY <1>3 DEF SinkInv, AccountOf, NumbersOf, Open
<1>5. Before(s)' = offered[s]
  BY <1>1, <1>4 DEF Before, TypeOK, ThreadTypes, QueueTypes
<1>6. Before(s)' \intersect lost[s] = lost[s]
  BY <1>4, <1>5
<1>7. ExactOf(s)'
  BY <1>1, <1>2, <1>4, <1>5, <1>6 DEF ExactOf, SaturatedCount
<1> QED BY <1>1, <1>7 DEF NoticeInv, CountOf

LEMMA WorkerNotice ==
  ASSUME Core, Core', NEW s \in Sinks, WorkerStep(s), NoticeInv(s)
  PROVE  NoticeInv(s)'
<1> USE DEF Core, Base, TypeOK, WorkerTypes, WGoto
<1>1. CASE WorkerReadDrops(s)
  <2>1. wpc'[s] # "notify" /\ drops'[s] = dropped'[s]
    BY <1>1 DEF WorkerReadDrops, queueVars
  <2> QED BY <2>1 DEF NoticeInv, CountOf, ExactOf
<1>2. CASE WorkerCommit(s)
  <2>1. CASE ~QueueIsEmpty(s)
    BY <1>2, <2>1 DEF WorkerCommit, NoticeInv, CountOf, ExactOf
  <2> QED BY <1>2, <2>1, CommitNotice
<1>3. CASE \/ WorkerConnect(s) \/ WorkerConnectFails(s) \/ WorkerHello(s) \/ WorkerDrain(s)
           \/ WorkerSend(s) \/ WorkerSendFails(s) \/ WorkerRecycle(s) \/ WorkerReconnect(s)
           \/ WorkerNotify(s) \/ WorkerNotifyFails(s)
  <2>1. wpc'[s] \notin {"notice", "notify"}
    BY <1>3 DEF WorkerConnect, WorkerConnectFails, WorkerHello, WorkerDrain, WorkerSend,
       WorkerSendFails, WorkerRecycle, WorkerReconnect, WorkerNotify, WorkerNotifyFails
  <2> QED BY <2>1 DEF NoticeInv, CountOf, ExactOf
<1> QED BY <1>1, <1>2, <1>3 DEF WorkerStep

LEMMA NextNotice == IInv /\ [Next]_vars => IInv'
<1> SUFFICES ASSUME IInv, [Next]_vars PROVE IInv'
  OBVIOUS
<1>1. Core'
  BY NextCore DEF IInv
<1> SUFFICES ASSUME NEW r \in Sinks PROVE NoticeInv(r)'
  BY <1>1 DEF IInv
<1> USE DEF IInv
<1>2. ASSUME /\ wpc'[r] \in {"notice", "notify"} => wpc'[r] = wpc[r]
             /\ pending'[r] = pending[r] /\ drops'[r] = drops[r] /\ dropped'[r] = dropped[r]
             /\ offered'[r] = offered[r] /\ sent'[r] = sent[r] /\ lost'[r] = lost[r]
             /\ noticeSeq'[r] = noticeSeq[r] /\ claim'[r] = claim[r]
      PROVE  NoticeInv(r)'
  BY <1>2 DEF NoticeInv, CountOf, ExactOf, Before
<1>3. ASSUME NEW t \in Threads, StartStep(t) PROVE NoticeInv(r)'
  <2>1. wpc'[r] \in {"notice", "notify"} => wpc'[r] = wpc[r]
    BY <1>3 DEF StartStep, StartCheck, StartFlag, StartPinFails, StartSkip, StartSinkFails,
                StartSink, StartPublish, StartDone, workerVars, Core, Base, TypeOK, WorkerTypes
  <2> QED BY <1>2, <1>3, <2>1, StartFrame
<1>4. ASSUME NEW s \in Sinks, WorkerStep(s) PROVE NoticeInv(r)'
  <2>1. CASE r = s
    BY <1>1, <1>4, <2>1, WorkerNotice
  <2>2. CASE r # s
    BY <1>2, <1>4, <2>2, WorkerOthers, WorkerFrame DEF Core, Base
  <2> QED BY <2>1, <2>2
<1>5. CASE UNCHANGED vars
  BY <1>2, <1>5 DEF vars, queueVars, workerVars, history
<1> QED BY <1>3, <1>4, <1>5, EmitNotice DEF Next

LEMMA InitNotice == Init => IInv
<1> SUFFICES ASSUME Init PROVE \A s \in Sinks : NoticeInv(s)
  BY InitCore DEF IInv
<1> QED BY DEF Init, NoticeInv, CountOf, ExactOf

LEMMA InvariantHolds == Spec => []IInv
BY InitNotice, NextNotice, PTL DEF Spec

(* Although its count is read before m_emit_lock is taken, a DropNotice    *)
(* states exactly how many of the earlier events were lost.                *)
THEOREM NoticesAreExact == Spec => []NoticeExact
<1>1. IInv => NoticeExact
  BY DEF IInv, NoticeInv, ExactOf, Before, NoticeExact
<1> QED BY <1>1, InvariantHolds, PTL
-----------------------------------------------------------------------------
(* The sinks implement LossyLog                                            *)

(* The events of the log still to be decided are those in the queue.       *)
LEMMA UndecidedIsOpen ==
  ASSUME Core, NEW s \in Sinks
  PROVE  Log!Undecided(s) = Open(s)
BY DEF Core, SinkInv, AccountOf, Log!Undecided

LEMMA InitRefines == Init => Log!LogInit
BY DEF Init, Log!LogInit

LEMMA EmitRefines ==
  ASSUME Core, NEW t \in Threads, EmitStep(t)
  PROVE  Log!LogNext \/ UNCHANGED <<offered, sent, lost, noticeSeq, claim>>
<1> USE DEF Core, Base
<1>1. CASE EmitCheck(t) \/ EmitLock(t) \/ EmitSkip(t) \/ EmitPush(t) \/ EmitUnlock(t)
  BY <1>1 DEF EmitCheck, EmitLock, EmitSkip, EmitPush, EmitUnlock, workerVars, history
<1>2. CASE EmitPop(t) \/ EmitDrop(t)
  <2>1. PICK s \in Sinks : s = cursor[t]
    BY <1>2 DEF EmitPop, EmitDrop
  <2>2. /\ at[t] = "pop" /\ UNCHANGED <<sent, noticeSeq, claim>>
        /\ offered' = [offered EXCEPT ![s] = @ \union {seq[t]}]
        /\ lost' = lost \/ lost' = [lost EXCEPT ![s] = @ \union {seq[t]}]
    BY <1>2, <2>1 DEF EmitPop, EmitDrop, workerVars
  <2>3. seq[t] = m_sequence /\ noticeSeq[s] < m_sequence /\ m_sequence \notin offered[s]
    BY <2>1, <2>2 DEF Newest, Reached, Sinks
  <2>4. \A p \in offered[s] : p < m_sequence
    <3>1. \A p \in offered[s] : p <= m_sequence
      BY DEF SinkInv, NumbersOf
    <3>2. offered[s] \subseteq Nat /\ m_sequence \in Nat
      BY DEF TypeOK, ThreadTypes, QueueTypes
    <3> QED BY <2>3, <3>1, <3>2
  <2>5. Log!IsNewest(s, seq[t])
    BY <2>3, <2>4 DEF Log!IsNewest, TypeOK, ThreadTypes, WorkerTypes, QueueTypes
  <2>6. Log!Offer(s, seq[t])
    BY <2>2, <2>5 DEF Log!Offer
  <2>7. seq[t] \in offered'[s]
    BY <2>2 DEF TypeOK, QueueTypes
  <2> QED BY <2>6, <2>7 DEF Log!LogNext
<1> QED BY <1>1, <1>2 DEF EmitStep

LEMMA SendRefines ==
  ASSUME Core, NEW s \in Sinks, WorkerSend(s)
  PROVE  Log!LogNext
<1> USE DEF Core, Base
<1>1. PICK n \in batch[s] :
         IsNext(s, n) /\ sent' = [sent EXCEPT ![s] = @ \union {event[s][n]}]
  BY DEF WorkerSend
<1> DEFINE q == event[s][n]
<1>2. q \in Log!Undecided(s) /\ q \in offered[s]
  BY UndecidedIsOpen DEF Open, Queued, Log!Undecided
<1>3. \A m \in Queued(s) : q <= event[s][m]
  <2>1. \A m \in Queued(s) : event[s][m] \in Nat
    BY DEF NodesConserved, TypeOK, QueueTypes
  <2>2. \A m \in pending[s] \union Held(s) : q < event[s][m]
    BY DEF SinkInv, NumbersOf
  <2> QED BY <1>1, <2>1, <2>2 DEF IsNext, Queued
<1>4. \A p \in Log!Undecided(s) : q <= p
  BY <1>3, UndecidedIsOpen DEF Open
<1>5. \A p \in sent[s] \union {noticeSeq[s]} : p < q
  <2>1. q \in Open(s)
    BY <1>2, UndecidedIsOpen
  <2>2. q > noticeSeq[s] /\ \A p \in sent[s] : p < q
    BY <2>1 DEF SinkInv, NumbersOf
  <2> QED BY <2>2 DEF TypeOK, WorkerTypes
<1>6. UNCHANGED <<offered, lost, noticeSeq, claim>>
  BY DEF WorkerSend
<1>7. Log!Deliver(s, q)
  BY <1>1, <1>2, <1>4, <1>5, <1>6 DEF Log!Deliver
<1> QED BY <1>2, <1>7 DEF Log!LogNext

LEMMA DiscardRefines ==
  ASSUME Core, NEW s \in Sinks, WorkerSendFails(s) \/ WorkerRecycle(s)
  PROVE  Log!LogNext
<1> USE DEF Core, Base
<1>1. PICK n \in batch[s] : lost' = [lost EXCEPT ![s] = @ \union {event[s][n]}]
  BY DEF WorkerSendFails, WorkerRecycle, Discard
<1>2. event[s][n] \in Log!Undecided(s) /\ event[s][n] \in offered[s]
  BY UndecidedIsOpen DEF Open, Queued, Log!Undecided
<1>3. UNCHANGED <<offered, sent, noticeSeq, claim>>
  BY DEF WorkerSendFails, WorkerRecycle
<1>4. Log!Lose(s, event[s][n])
  BY <1>1, <1>2, <1>3 DEF Log!Lose
<1> QED BY <1>2, <1>4 DEF Log!LogNext

LEMMA CommitRefines ==
  ASSUME IInv, IInv', NEW s \in Sinks, WorkerCommit(s), QueueIsEmpty(s)
  PROVE  Log!LogNext
<1>0. /\ Core /\ Core' /\ TypeOK /\ TypeOK' /\ Control /\ Ownership /\ SinkInv(s)
      /\ NoticeInv(s)
  BY DEF IInv, Core, Base
<1>1. /\ wpc[s] = "notice" /\ noticeSeq' = [noticeSeq EXCEPT ![s] = m_sequence + 1]
      /\ claim' = [claim EXCEPT ![s] = SaturatedCount(drops[s])]
      /\ offered' = offered /\ sent' = sent /\ lost' = lost
  BY DEF WorkerCommit, history
<1>2. drops[s] = Cardinality(lost[s])
  BY <1>0, <1>1 DEF NoticeInv, CountOf, QueueIsEmpty, SinkInv, AccountOf
<1>3. Log!Undecided(s) = {}
  <2>1. Queued(s) = {}
    BY <1>0, SinkCommit
  <2> QED BY <1>0, <2>1, UndecidedIsOpen DEF Open
<1>4. noticeSeq'[s] = m_sequence + 1
  BY <1>0, <1>1 DEF TypeOK, WorkerTypes
<1>5. Log!IsNewest(s, m_sequence + 1)
  <2>1. noticeSeq[s] <= m_sequence /\ \A p \in offered[s] : p <= m_sequence
    BY <1>0 DEF SinkInv, NumbersOf
  <2> QED BY <1>0, <2>1 DEF Log!IsNewest, TypeOK, ThreadTypes, QueueTypes, WorkerTypes
<1>6. SaturatedCount(drops[s]) = Log!Saturated(Log!Cardinality(lost[s]))
  <2>1. Log!Cardinality(lost[s]) = Cardinality(lost[s])
    BY DEF Cardinality, Log!Cardinality
  <2> QED BY <1>2, <2>1 DEF SaturatedCount, Log!Saturated
<1>7. Log!Notice(s, m_sequence + 1)
  <2>1. claim' = [claim EXCEPT ![s] = Log!Saturated(Log!Cardinality(lost[s]))]
    BY <1>1, <1>6, Zenon
  <2>2. UNCHANGED <<offered, sent, lost>>
    BY <1>1
  <2> QED BY <1>1, <1>3, <1>5, <2>1, <2>2, Zenon DEF Log!Notice
<1> QED BY <1>4, <1>7 DEF Log!LogNext

LEMMA WorkerRefines ==
  ASSUME IInv, IInv', NEW s \in Sinks, WorkerStep(s)
  PROVE  Log!LogNext \/ UNCHANGED <<offered, sent, lost, noticeSeq, claim>>
<1>1. CASE \/ WorkerConnect(s) \/ WorkerConnectFails(s) \/ WorkerHello(s) \/ WorkerDrain(s)
           \/ WorkerReconnect(s) \/ WorkerReadDrops(s) \/ WorkerNotify(s)
           \/ WorkerNotifyFails(s)
  BY <1>1 DEF WorkerConnect, WorkerConnectFails, WorkerHello, WorkerDrain, WorkerReconnect,
              WorkerReadDrops, WorkerNotify, WorkerNotifyFails, history
<1>2. CASE WorkerSend(s) \/ WorkerSendFails(s) \/ WorkerRecycle(s)
  BY <1>2, SendRefines, DiscardRefines DEF IInv
<1>3. CASE WorkerCommit(s)
  BY <1>3, CommitRefines DEF WorkerCommit, history
<1> QED BY <1>1, <1>2, <1>3 DEF WorkerStep

(* Every step of the threads and workers is a step of the abstract log or  *)
(* leaves it alone: numbered offers, ordered deliveries, exact notices.    *)
THEOREM RefinesLossyLog == Spec => ImplementsLossyLog
<1>1. ASSUME IInv, IInv', [Next]_vars
      PROVE  [Log!LogNext]_(Log!logVars)
  <2> SUFFICES Log!LogNext \/ UNCHANGED <<offered, sent, lost, noticeSeq, claim>>
    BY DEF Log!logVars
  <2>1. ASSUME NEW t \in Threads, StartStep(t)
        PROVE  UNCHANGED <<offered, sent, lost, noticeSeq, claim>>
    BY <2>1, StartFrame
  <2>2. CASE UNCHANGED vars
    BY <2>2 DEF vars, workerVars, history
  <2> QED BY <1>1, <2>1, <2>2, EmitRefines, WorkerRefines DEF Next, IInv
<1> QED BY <1>1, InitRefines, InvariantHolds, PTL DEF Spec, ImplementsLossyLog, Log!LogSpec
=============================================================================
