------------------------------ MODULE LossyLog -------------------------------
(***************************************************************************)
(* What a telemetry sink promises its receiver, without threads, nodes or  *)
(* pipes: a lossy log in order with an exact loss count.                   *)
(*                                                                         *)
(* Events are offered to a sink with ever higher numbers.  Each is later   *)
(* delivered or lost; deliveries follow the numbers.  A notice fences the  *)
(* log: it is issued when nothing is open, it states how many events were  *)
(* lost so far (saturating at kNoticeMax), and everything offered later    *)
(* carries a higher number than the notice.                                *)
(***************************************************************************)
EXTENDS Integers, FiniteSets

CONSTANTS Sinks, kNoticeMax

VARIABLES offered, sent, lost, fence, claim

logVars == <<offered, sent, lost, fence, claim>>

Undecided(s) == offered[s] \ (sent[s] \union lost[s])

LogInit ==
  /\ offered = [s \in Sinks |-> {}]
  /\ sent    = [s \in Sinks |-> {}]
  /\ lost    = [s \in Sinks |-> {}]
  /\ fence   = [s \in Sinks |-> 0]
  /\ claim   = [s \in Sinks |-> 0]

(* The numbers come from outside the log, which only asks that they grow.  *)
IsNewest(s, q) == q > fence[s] /\ \A p \in offered[s] : q > p

Offer(s, q) ==
  /\ IsNewest(s, q)
  /\ offered' = [offered EXCEPT ![s] = @ \union {q}]
  /\ lost' = lost \/ lost' = [lost EXCEPT ![s] = @ \union {q}]
  /\ UNCHANGED <<sent, fence, claim>>

Deliver(s, q) ==
  /\ q \in Undecided(s)
  /\ \A p \in Undecided(s) : q <= p
  /\ \A p \in sent[s] \union {fence[s]} : p < q
  /\ sent' = [sent EXCEPT ![s] = @ \union {q}]
  /\ UNCHANGED <<offered, lost, fence, claim>>

Lose(s, q) ==
  /\ q \in Undecided(s)
  /\ lost' = [lost EXCEPT ![s] = @ \union {q}]
  /\ UNCHANGED <<offered, sent, fence, claim>>

Saturated(n) == IF n <= kNoticeMax THEN n ELSE kNoticeMax

Notice(s, q) ==
  /\ IsNewest(s, q)
  /\ Undecided(s) = {}
  /\ fence' = [fence EXCEPT ![s] = q]
  /\ claim' = [claim EXCEPT ![s] = Saturated(Cardinality(lost[s]))]
  /\ UNCHANGED <<offered, sent, lost>>

LogNext ==
  \E s \in Sinks :
    \/ \E q \in offered'[s] : Offer(s, q)
    \/ \E q \in offered[s] : Deliver(s, q) \/ Lose(s, q)
    \/ Notice(s, fence'[s])

LogSpec == LogInit /\ [][LogNext]_logVars
=============================================================================
