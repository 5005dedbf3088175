-------------------------- MODULE ReceiversProofs ----------------------------
(* Proofs about what becomes of telemetry: EndToEnd, on the invariant of   *)
(* the engine, for any commands, faults and limits: nothing that is lost on*)
(* the way from the game leaves a session that looks right; and Viewer and *)
(* FrameStream, for any readers, limits and streams: the window shows the  *)
(* frames of a proxy in their order, and wherever a pipe cuts its bytes    *)
(* they arrive as whole frames.                                            *)
EXTENDS MCReceivers, ClippingEngineProofs, WellFoundedInduction

(***************************************************************************)
(* The way from the game to the snapshot.                                  *)
(***************************************************************************)

Notices == [type : {"DropNotice"}, count : Nat \ {0}]

Carried == {Hello} \union Commands \union Notices

WayFits ==
  /\ truth \in Playback /\ missed \in BOOLEAN /\ running \in BOOLEAN /\ faults \in Nat
  /\ queue \in Seq(Commands) /\ dropped \in Nat /\ reported \in Nat /\ reported <= dropped
  /\ wire \in Conns \union {NoConn} /\ writing \in [Conns -> BOOLEAN]
  /\ \A c \in Conns : writing[c] <=> c = wire
  /\ buffer \in [Conns -> Seq(Carried)]
  /\ serverEnd \in [Conns -> {"open", "failed", "disposed"}]

(* One session competes with no other.                                     *)
OneSession ==
  tracked \subseteq {Session} /\ evicted = {} /\ owner \in [Conns -> {Session, NoKey}]

(* Hello comes first and once, and nothing is read after the end.          *)
BufferSound(c) ==
  /\ \A i \in DOMAIN buffer[c] : buffer[c][i] = Hello <=> i = 1 /\ phase[c] = "new"
  /\ phase[c] = "closed" => buffer[c] = <<>> /\ (serverEnd[c] # "open" \/ c # wire)
  /\ phase[c] = "new" /\ c = wire /\ serverEnd[c] = "open" => buffer[c] # <<>>

(* The sink comes to a second connection by a loss only: the write that    *)
(* tells it of the end of the first loses what it wrote.                   *)
OnlyWire ==
  dropped = 0 =>
    \A c \in Conns : c # wire => phase[c] = "new" /\ buffer[c] = <<>> /\ serverEnd[c] = "open"

(* The reader of the connection has not ended.                             *)
Alive == wire = NoConn \/ (serverEnd[wire] = "open" /\ phase[wire] # "closed")

(* The frames between the game and the engine.                             *)
InFlight == IF wire = NoConn THEN queue ELSE buffer[wire] \o queue

(* The frames q lead from playback w to playback v.                        *)
Leads(w, q, v) ==
  \E st \in [0 .. Len(q) -> Playback] :
    /\ st[0] = w /\ st[Len(q)] = v
    /\ \A i \in 1 .. Len(q) : st[i] = Meaning(st[i - 1], q[i])

(* Without a loss, what is on its way leads the engine to the truth.       *)
OnItsWay ==
  dropped = 0 /\ ~missed /\ Alive => Leads(heard[Session], InFlight, truth)

NothingHeard == dropped = 0 /\ wire = NoConn => heard[Session] = Silence

(* A loss that was reported is known to the engine, or is about to be.     *)
LossIsKnown ==
  reported > 0 /\ wire # NoConn /\ Alive =>
    \/ Session \in disturbed
    \/ \E i \in DOMAIN buffer[wire] : buffer[wire][i] \in Notices

WayInv ==
  /\ EngineInv /\ WayFits /\ OneSession /\ \A c \in Conns : BufferSound(c)
  /\ OnlyWire /\ OnItsWay /\ NothingHeard /\ LossIsKnown

(* How frames lead on.                                                     *)
LEMMA LeadsNowhere ==
  ASSUME NEW w \in Playback
  PROVE  Leads(w, <<>>, w)
<1>1. PICK st : st = [i \in 0..0 |-> w] OBVIOUS
<1>2. st \in [0..0 -> Playback] /\ st[0] = w BY <1>1
<1>3. Len(<<>>) = 0 OBVIOUS
<1>4. QED BY <1>2, <1>3 DEF Leads

LEMMA LeadsHere ==
  ASSUME NEW w, NEW v, Leads(w, <<>>, v)
  PROVE  w = v
<1>1. Len(<<>>) = 0 OBVIOUS
<1>2. QED BY <1>1 DEF Leads

LEMMA LeadsFurther ==
  ASSUME NEW w, NEW v, NEW S, NEW q \in Seq(S), NEW f \in S, Leads(w, q, v),
         Meaning(v, f) \in Playback
  PROVE  Leads(w, Append(q, f), Meaning(v, f))
<1>1. PICK n \in Nat : n = Len(q) BY LenProperties
<1>2. PICK st \in [0 .. n -> Playback] :
        /\ st[0] = w /\ st[n] = v /\ \A i \in 1 .. n : st[i] = Meaning(st[i - 1], q[i])
  BY <1>1 DEF Leads
<1>3. PICK r : r = Append(q, f) OBVIOUS
<1>4. Len(r) = n + 1 /\ r[n + 1] = f /\ \A i \in 1 .. n : r[i] = q[i]
  BY <1>1, <1>3, AppendProperties
<1>5. PICK tt : tt = [i \in 0 .. n + 1 |-> IF i = n + 1 THEN Meaning(v, f) ELSE st[i]]
  OBVIOUS
<1>6. tt \in [0 .. n + 1 -> Playback] BY <1>1, <1>2, <1>5
<1>7. tt[0] = w /\ tt[n + 1] = Meaning(v, f) /\ \A i \in 0 .. n : tt[i] = st[i]
  BY <1>1, <1>2, <1>5
<1>8. ASSUME NEW i \in 1 .. n + 1 PROVE tt[i] = Meaning(tt[i - 1], r[i])
  <2>1. CASE i = n + 1 BY <1>1, <1>2, <1>4, <1>7, <2>1
  <2>2. CASE i # n + 1
    <3>1. i \in 1 .. n /\ i - 1 \in 0 .. n /\ i \in 0 .. n BY <1>1, <2>2
    <3>2. QED BY <1>2, <1>4, <1>7, <3>1
  <2>3. QED BY <2>1, <2>2
<1>9. Leads(w, r, Meaning(v, f)) BY <1>4, <1>6, <1>7, <1>8 DEF Leads
<1>10. QED BY <1>3, <1>9

LEMMA LeadsFromNext ==
  ASSUME NEW w, NEW v, NEW S, NEW q \in Seq(S), q # <<>>, Leads(w, q, v)
  PROVE  Leads(Meaning(w, Head(q)), Tail(q), v)
<1>1. PICK n \in Nat : n = Len(q) BY LenProperties
<1>2. n # 0 BY <1>1, EmptySeq
<1>3. PICK st \in [0 .. n -> Playback] :
        /\ st[0] = w /\ st[n] = v /\ \A i \in 1 .. n : st[i] = Meaning(st[i - 1], q[i])
  BY <1>1 DEF Leads
<1>4. PICK r : r = Tail(q) OBVIOUS
<1>5. Len(r) = n - 1 /\ \A i \in 1 .. n - 1 : r[i] = q[i + 1]
  BY <1>1, <1>4, HeadTailProperties
<1>6. Head(q) = q[1] OBVIOUS
<1>7. PICK tt : tt = [i \in 0 .. n - 1 |-> st[i + 1]] OBVIOUS
<1>8. tt \in [0 .. n - 1 -> Playback] BY <1>1, <1>2, <1>3, <1>7
<1>9. tt[0] = st[1] /\ tt[n - 1] = v BY <1>1, <1>2, <1>3, <1>7
<1>10. st[1] = Meaning(w, q[1])
  <2>1. 1 \in 1 .. n BY <1>1, <1>2
  <2>2. st[1] = Meaning(st[1 - 1], q[1]) BY <1>3, <2>1
  <2>3. QED BY <1>3, <2>2
<1>11. ASSUME NEW i \in 1 .. n - 1 PROVE tt[i] = Meaning(tt[i - 1], r[i])
  <2>1. tt[i] = st[i + 1] /\ tt[i - 1] = st[i] BY <1>1, <1>7
  <2>2. i + 1 \in 1 .. n /\ (i + 1) - 1 = i BY <1>1
  <2>3. st[i + 1] = Meaning(st[(i + 1) - 1], q[i + 1]) BY <1>3, <2>2
  <2>4. QED BY <1>5, <2>1, <2>2, <2>3
<1>12. Leads(Meaning(w, q[1]), r, v) BY <1>5, <1>8, <1>9, <1>10, <1>11 DEF Leads
<1>13. QED BY <1>4, <1>6, <1>12

(* Hello says nothing of playback.                                         *)
LEMMA LeadsThroughHello ==
  ASSUME NEW w, NEW v, NEW S, NEW q \in Seq(S), Hello \in S, Leads(w, q, v)
  PROVE  Leads(w, <<Hello>> \o q, v)
<1>1. PICK n \in Nat : n = Len(q) BY LenProperties
<1>2. PICK st \in [0 .. n -> Playback] :
        /\ st[0] = w /\ st[n] = v /\ \A i \in 1 .. n : st[i] = Meaning(st[i - 1], q[i])
  BY <1>1 DEF Leads
<1>3. PICK r : r = <<Hello>> \o q OBVIOUS
<1>4. <<Hello>> \in Seq(S) /\ Len(<<Hello>>) = 1 /\ <<Hello>>[1] = Hello OBVIOUS
<1>5. Len(r) = n + 1 /\ \A i \in 1 .. n + 1 : r[i] = IF i = 1 THEN Hello ELSE q[i - 1]
  BY <1>1, <1>3, <1>4, ConcatProperties
<1>6. PICK tt : tt = [i \in 0 .. n + 1 |-> IF i = 0 THEN w ELSE st[i - 1]] OBVIOUS
<1>7. tt \in [0 .. n + 1 -> Playback] BY <1>1, <1>2, <1>6
<1>8. tt[0] = w /\ tt[n + 1] = v /\ tt[1] = w BY <1>1, <1>2, <1>6
<1>9. Meaning(w, Hello) = w BY DEF Meaning, Hello
<1>10. ASSUME NEW i \in 1 .. n + 1 PROVE tt[i] = Meaning(tt[i - 1], r[i])
  <2>1. CASE i = 1
    <3>1. r[1] = Hello BY <1>1, <1>5
    <3>2. QED BY <1>8, <1>9, <2>1, <3>1
  <2>2. CASE i # 1
    <3>1. i - 1 \in 1 .. n BY <1>1, <2>2
    <3>2. tt[i] = st[i - 1] /\ tt[i - 1] = st[(i - 1) - 1] BY <1>1, <1>6, <2>2
    <3>3. st[i - 1] = Meaning(st[(i - 1) - 1], q[i - 1]) BY <1>2, <3>1
    <3>4. r[i] = q[i - 1] BY <1>1, <1>5, <2>2
    <3>5. QED BY <3>2, <3>3, <3>4
  <2>3. QED BY <2>1, <2>2
<1>11. Leads(w, r, v) BY <1>5, <1>7, <1>8, <1>10 DEF Leads
<1>12. QED BY <1>3, <1>11

(* The queue and the pipe are one line.                                    *)
LEMMA AppendThrough ==
  ASSUME NEW S, NEW p \in Seq(S), NEW q \in Seq(S), NEW f \in S
  PROVE  p \o Append(q, f) = Append(p \o q, f)
<1>1. Append(q, f) = q \o <<f>> BY AppendIsConcat
<1>2. p \o q \in Seq(S) BY ConcatProperties
<1>3. Append(p \o q, f) = (p \o q) \o <<f>> BY <1>2, AppendIsConcat
<1>4. <<f>> \in Seq(S) OBVIOUS
<1>5. QED BY <1>1, <1>3, <1>4, ConcatAssociative

LEMMA HeadThrough ==
  ASSUME NEW S, NEW p \in Seq(S), NEW q \in Seq(S), q # <<>>
  PROVE  Append(p, Head(q)) \o Tail(q) = p \o q
<1>1. Head(q) \in S /\ Tail(q) \in Seq(S) BY HeadTailProperties
<1>2. Append(p, Head(q)) = p \o <<Head(q)>> BY <1>1, AppendIsConcat
<1>3. <<Head(q)>> \in Seq(S) BY <1>1
<1>4. <<Head(q)>> \o Tail(q) = q
  <2>1. PICK n \in Nat : n = Len(q) BY LenProperties
  <2>2. n # 0 BY <2>1, EmptySeq
  <2>3. PICK t : t = Tail(q) OBVIOUS
  <2>4. t \in Seq(S) /\ Len(t) = n - 1 /\ \A i \in 1 .. n - 1 : t[i] = q[i + 1]
    BY <2>1, <2>3, HeadTailProperties
  <2>5. PICK h : h = Head(q) OBVIOUS
  <2>6. h \in S /\ h = q[1] BY <1>1, <2>5
  <2>7. PICK one : one = <<h>> OBVIOUS
  <2>8. one \in Seq(S) /\ Len(one) = 1 /\ one[1] = h BY <2>6, <2>7
  <2>9. PICK r : r = one \o t OBVIOUS
  <2>10. r \in Seq(S) /\ Len(r) = Len(one) + Len(t)
         /\ \A i \in 1 .. Len(one) + Len(t) :
              r[i] = IF i <= Len(one) THEN one[i] ELSE t[i - Len(one)]
    BY <2>4, <2>8, <2>9, ConcatProperties
  <2>11. Len(r) = n BY <2>1, <2>4, <2>8, <2>10
  <2>12. ASSUME NEW i \in 1 .. Len(r) PROVE r[i] = q[i]
    <3>1. i \in 1 .. n /\ Len(one) + Len(t) = n BY <2>1, <2>4, <2>8, <2>11
    <3>2. r[i] = IF i <= 1 THEN one[i] ELSE t[i - 1] BY <2>8, <2>10, <3>1
    <3>3. CASE i = 1 BY <2>6, <2>8, <3>2, <3>3
    <3>4. CASE i # 1
      <4>1. i - 1 \in 1 .. n - 1 /\ (i - 1) + 1 = i /\ ~(i <= 1) BY <2>1, <3>1, <3>4
      <4>2. t[i - 1] = q[(i - 1) + 1] BY <2>4, <4>1
      <4>3. QED BY <3>2, <4>1, <4>2
    <3>5. QED BY <3>3, <3>4
  <2>13. r = q BY <2>1, <2>10, <2>11, <2>12, SeqEqual
  <2>14. QED BY <2>3, <2>5, <2>7, <2>9, <2>13
<1>5. QED BY <1>1, <1>2, <1>3, <1>4, ConcatAssociative

LEMMA TailThrough ==
  ASSUME NEW S, NEW p \in Seq(S), NEW q \in Seq(S), p # <<>>
  PROVE  p \o q # <<>> /\ Head(p \o q) = Head(p) /\ Tail(p \o q) = Tail(p) \o q
<1>1. PICK n \in Nat : n = Len(p) BY LenProperties
<1>2. PICK m \in Nat : m = Len(q) BY LenProperties
<1>3. n # 0 BY <1>1, EmptySeq
<1>4. PICK r : r = p \o q OBVIOUS
<1>5. r \in Seq(S) /\ Len(r) = n + m
      /\ \A i \in 1 .. n + m : r[i] = IF i <= n THEN p[i] ELSE q[i - n]
  BY <1>1, <1>2, <1>4, ConcatProperties
<1>6. r # <<>>
  <2>1. Len(r) # 0 BY <1>1, <1>2, <1>3, <1>5
  <2>2. QED BY <1>5, <2>1, EmptySeq
<1>7. Head(r) = Head(p)
  <2>1. 1 \in 1 .. n + m /\ 1 <= n BY <1>1, <1>2, <1>3
  <2>2. r[1] = p[1] BY <1>5, <2>1
  <2>3. Head(r) = r[1] /\ Head(p) = p[1] OBVIOUS
  <2>4. QED BY <2>2, <2>3
<1>8. PICK t : t = Tail(p) OBVIOUS
<1>9. t \in Seq(S) /\ Len(t) = n - 1 /\ \A i \in 1 .. n - 1 : t[i] = p[i + 1]
  BY <1>1, <1>8, HeadTailProperties
<1>10. PICK u : u = Tail(r) OBVIOUS
<1>11. u \in Seq(S) /\ Len(u) = n + m - 1 /\ \A i \in 1 .. n + m - 1 : u[i] = r[i + 1]
  BY <1>5, <1>6, <1>10, HeadTailProperties
<1>12. PICK v : v = t \o q OBVIOUS
<1>13. v \in Seq(S) /\ Len(v) = Len(t) + Len(q)
       /\ \A i \in 1 .. Len(t) + Len(q) :
            v[i] = IF i <= Len(t) THEN t[i] ELSE q[i - Len(t)]
  BY <1>9, <1>12, ConcatProperties
<1>14. PICK l \in Nat : l = n - 1 BY <1>1, <1>3
<1>15. Len(t) = l /\ Len(v) = l + m /\ Len(u) = l + m /\ n = l + 1 /\ n + m = l + m + 1
       /\ n + m - 1 = l + m
  BY <1>1, <1>2, <1>9, <1>11, <1>13, <1>14
<1>16. ASSUME NEW i \in 1 .. l + m PROVE u[i] = v[i]
  <2>1. v[i] = IF i <= l THEN t[i] ELSE q[i - l] BY <1>2, <1>13, <1>15
  <2>2. i + 1 \in 1 .. n + m /\ i \in 1 .. n + m - 1 BY <1>2, <1>14, <1>15
  <2>3. u[i] = r[i + 1] BY <1>11, <2>2
  <2>4. r[i + 1] = IF i + 1 <= n THEN p[i + 1] ELSE q[(i + 1) - n] BY <1>5, <2>2
  <2>5. (i + 1) - n = i - l /\ (i + 1 <= n <=> i <= l) BY <1>1, <1>15
  <2>6. u[i] = IF i <= l THEN p[i + 1] ELSE q[i - l] BY <2>3, <2>4, <2>5
  <2>7. i <= l => t[i] = p[i + 1] BY <1>9, <1>14
  <2>8. QED BY <2>1, <2>6, <2>7
<1>17. u = v BY <1>11, <1>13, <1>15, <1>16, SeqEqual
<1>18. QED BY <1>4, <1>6, <1>7, <1>8, <1>10, <1>12, <1>17

(* The types of what is carried.                                           *)
LEMMA CarriedKinds ==
  /\ \A f \in Commands : f \in AnyFrame /\ f # Hello /\ f \in Carried
  /\ \A f \in Notices : f \in AnyFrame /\ f # Hello /\ f \in Carried /\ f.count > 0
                        /\ f.type = "DropNotice"
  /\ Hello \in Carried /\ Hello \notin Notices
<1>1. \A f \in AnyFrame : f.type # "Hello" BY DEF AnyFrame
<1>2. \A f \in Notices : f \in AnyFrame /\ f.count > 0 /\ f.type = "DropNotice"
  BY DEF Notices, AnyFrame
<1>3. Hello.type = "Hello" BY DEF Hello
<1>4. QED BY <1>1, <1>2, <1>3, PathConstants DEF Carried

LEMMA InFlightFits == ASSUME WayFits PROVE InFlight \in Seq(Carried) /\ queue \in Seq(Carried)
<1>1. queue \in Seq(Carried) BY CarriedKinds, SeqMonotonic DEF WayFits, Carried
<1>2. CASE wire = NoConn BY <1>1, <1>2 DEF InFlight
<1>3. CASE wire # NoConn
  <2>1. buffer[wire] \in Seq(Carried) BY <1>3 DEF WayFits
  <2>2. QED BY <1>1, <1>3, <2>1, ConcatProperties DEF InFlight
<1>4. QED BY <1>1, <1>2, <1>3

LEMMA NoWire == ASSUME WayFits, NEW c \in Conns PROVE c # NoConn
BY PathConstants

(* The engine does not notice what the sink and the pipes do.              *)
LEMMA EngineIdle == ASSUME EngineInv, UNCHANGED vars PROVE EngineInv'
<1>1. QueueFits' BY DEF EngineInv, QueueFits, QueueCountExact, vars, queueing
<1>2. QED BY <1>1, QueueMoves DEF vars

LEMMA SessionStays ==
  ASSUME OneSession, UNCHANGED vars
  PROVE  OneSession'
BY DEF OneSession, vars, registry, history

LEMMA BuffersStay ==
  ASSUME NEW c \in Conns, BufferSound(c), phase'[c] = phase[c], buffer'[c] = buffer[c],
         serverEnd'[c] = "open" => serverEnd[c] = "open", wire' = c => wire = c
  PROVE  BufferSound(c)'
BY DEF BufferSound

(* The parts of the engine that the way depends on.                        *)
LEMMA EngineParts ==
  ASSUME UNCHANGED vars
  PROVE  UNCHANGED <<phase, heard, disturbed>>
BY DEF vars, registry, history

LEMMA EmitStaysSound ==
  ASSUME WayInv, NEW f \in Commands, Emit(f)
  PROVE  WayInv'
<1>1. /\ EngineInv /\ WayFits /\ OneSession /\ \A c \in Conns : BufferSound(c)
      /\ OnlyWire /\ OnItsWay /\ NothingHeard /\ LossIsKnown
  BY DEF WayInv
<1>2. /\ truth' = Meaning(truth, f) /\ missed' = (missed \/ ~running)
      /\ \/ UNCHANGED queue /\ dropped' \in {dropped, dropped + 1}
         \/ queue' = Append(queue, f) /\ UNCHANGED dropped /\ running
      /\ ~running \/ dropped' = dropped + 1 \/ queue' = Append(queue, f)
      /\ UNCHANGED <<vars, running, reported, wire, writing, buffer, serverEnd, faults>>
  BY DEF Emit, pipeVars
<1>3. UNCHANGED <<phase, heard, disturbed>> BY <1>2, EngineParts
<1>4. EngineInv' BY <1>1, <1>2, EngineIdle
<1>5. OneSession' BY <1>1, <1>2, SessionStays
<1>6. Meaning(truth, f) \in Playback BY <1>1, CarriedKinds, MeaningFits DEF WayFits
<1>7. missed' \in BOOLEAN BY <1>1, <1>2 DEF WayFits
<1>8. queue' \in Seq(Commands) /\ dropped' \in Nat /\ reported <= dropped'
  <2>1. queue \in Seq(Commands) /\ dropped \in Nat /\ reported \in Nat /\ reported <= dropped
    BY <1>1 DEF WayFits
  <2>2. Append(queue, f) \in Seq(Commands) BY <2>1, AppendProperties
  <2>3. queue' \in Seq(Commands) BY <1>2, <2>1, <2>2
  <2>4. dropped' \in {dropped, dropped + 1} BY <1>2
  <2>5. QED BY <2>1, <2>3, <2>4
<1>9. WayFits' BY <1>1, <1>2, <1>6, <1>7, <1>8 DEF WayFits
<1>10. \A c \in Conns : BufferSound(c)' BY <1>1, <1>2, <1>3, BuffersStay
<1>11. dropped' = 0 => dropped = 0 /\ (~missed' => running /\ ~missed /\ queue' = Append(queue, f))
  <2>1. dropped \in Nat /\ missed \in BOOLEAN /\ running \in BOOLEAN BY <1>1 DEF WayFits
  <2>2. dropped' \in {dropped, dropped + 1} BY <1>2
  <2>3. dropped' = 0 => dropped = 0 /\ dropped' # dropped + 1 BY <2>1, <2>2
  <2>4. ~missed' => running /\ ~missed BY <1>2
  <2>5. QED BY <1>2, <2>3, <2>4
<1>12. OnlyWire' BY <1>1, <1>2, <1>3, <1>11 DEF OnlyWire
<1>13. OnItsWay'
  <2> SUFFICES ASSUME dropped' = 0, ~missed', Alive'
               PROVE  Leads(heard[Session], InFlight', truth')
    BY <1>3 DEF OnItsWay
  <2>1. Alive BY <1>2, <1>3 DEF Alive
  <2>2. queue' = Append(queue, f) BY <1>11
  <2>3. Leads(heard[Session], InFlight, truth) BY <1>1, <1>11, <2>1 DEF OnItsWay
  <2>4. InFlight \in Seq(Carried) /\ queue \in Seq(Carried) BY <1>1, InFlightFits
  <2>5. f \in Carried BY CarriedKinds
  <2>6. InFlight' = Append(InFlight, f)
    <3>1. CASE wire = NoConn BY <1>2, <2>2, <3>1 DEF InFlight
    <3>2. CASE wire # NoConn
      <4>1. PICK b \in Seq(Carried) : b = buffer[wire] BY <1>1, <3>2 DEF WayFits
      <4>2. InFlight' = b \o Append(queue, f) /\ InFlight = b \o queue
        BY <1>2, <2>2, <3>2, <4>1 DEF InFlight
      <4>3. PICK q \in Seq(Carried) : q = queue BY <2>4
      <4>4. b \o Append(q, f) = Append(b \o q, f) BY <2>5, AppendThrough
      <4>5. QED BY <4>2, <4>3, <4>4
    <3>3. QED BY <3>1, <3>2
  <2>7. QED BY <1>2, <1>6, <2>3, <2>4, <2>5, <2>6, LeadsFurther
<1>14. NothingHeard' BY <1>1, <1>2, <1>3, <1>11 DEF NothingHeard
<1>15. LossIsKnown' BY <1>1, <1>2, <1>3 DEF LossIsKnown, Alive
<1>16. QED BY <1>4, <1>5, <1>9, <1>10, <1>12, <1>13, <1>14, <1>15 DEF WayInv

LEMMA StartSinkStaysSound ==
  ASSUME WayInv, StartSink
  PROVE  WayInv'
<1>1. /\ EngineInv /\ WayFits /\ OneSession /\ \A c \in Conns : BufferSound(c)
      /\ OnlyWire /\ OnItsWay /\ NothingHeard /\ LossIsKnown
  BY DEF WayInv
<1>2. running' = TRUE
      /\ UNCHANGED <<vars, truth, missed, queue, dropped, reported, wire, writing, buffer,
                     serverEnd, faults>>
  BY DEF StartSink, pipeVars
<1>3. UNCHANGED <<phase, heard, disturbed>> BY <1>2, EngineParts
<1>4. EngineInv' BY <1>1, <1>2, EngineIdle
<1>5. OneSession' BY <1>1, <1>2, SessionStays
<1>6. WayFits' BY <1>1, <1>2 DEF WayFits
<1>7. \A c \in Conns : BufferSound(c)' BY <1>1, <1>2, <1>3, BuffersStay
<1>8. OnlyWire' /\ OnItsWay' /\ NothingHeard' /\ LossIsKnown'
  BY <1>1, <1>2, <1>3 DEF OnlyWire, OnItsWay, NothingHeard, LossIsKnown, Alive, InFlight
<1>9. QED BY <1>4, <1>5, <1>6, <1>7, <1>8 DEF WayInv

LEMMA OpenStaysSound ==
  ASSUME WayInv, NEW c \in Conns, Open(c)
  PROVE  WayInv'
<1>1. /\ EngineInv /\ WayFits /\ OneSession /\ \A d \in Conns : BufferSound(d)
      /\ OnlyWire /\ OnItsWay /\ NothingHeard /\ LossIsKnown
  BY DEF WayInv
<1>2. /\ running /\ wire = NoConn /\ phase[c] = "new" /\ buffer[c] = <<>> /\ serverEnd[c] = "open"
      /\ wire' = c /\ writing' = [writing EXCEPT ![c] = TRUE]
      /\ buffer' = [buffer EXCEPT ![c] = <<Hello>>] /\ reported' = 0
      /\ UNCHANGED <<vars, truth, missed, running, queue, dropped, serverEnd, faults>>
  BY DEF Open
<1>3. UNCHANGED <<phase, heard, disturbed>> BY <1>2, EngineParts
<1>4. EngineInv' BY <1>1, <1>2, EngineIdle
<1>5. OneSession' BY <1>1, <1>2, SessionStays
<1>6. c # NoConn BY <1>1, NoWire
<1>7. <<Hello>> \in Seq(Carried) /\ Len(<<Hello>>) = 1 /\ <<Hello>>[1] = Hello
  BY CarriedKinds
<1>8. WayFits'
  <2>1. buffer' \in [Conns -> Seq(Carried)] BY <1>1, <1>2, <1>7 DEF WayFits
  <2>2. \A d \in Conns : writing'[d] <=> d = wire' BY <1>1, <1>2, NoWire DEF WayFits
  <2>3. writing' \in [Conns -> BOOLEAN] BY <1>1, <1>2 DEF WayFits
  <2>4. QED BY <1>1, <1>2, <2>1, <2>2, <2>3 DEF WayFits
<1>9. buffer'[c] = <<Hello>> /\ \A d \in Conns : d # c => buffer'[d] = buffer[d]
  BY <1>1, <1>2 DEF WayFits
<1>10. \A d \in Conns : BufferSound(d)'
  <2> TAKE d \in Conns
  <2>1. CASE d = c
    <3>1. PICK b : b = <<Hello>> OBVIOUS
    <3>2. b # <<>> /\ \A i \in DOMAIN b : i = 1 /\ b[i] = Hello BY <3>1
    <3>3. QED BY <1>2, <1>3, <1>9, <2>1, <3>1, <3>2 DEF BufferSound
  <2>2. CASE d # c BY <1>1, <1>2, <1>3, <1>9, <2>2, BuffersStay
  <2>3. QED BY <2>1, <2>2
<1>11. OnlyWire' BY <1>1, <1>2, <1>3, <1>6, <1>9, NoWire DEF OnlyWire
<1>12. OnItsWay'
  <2> SUFFICES ASSUME dropped = 0, ~missed
               PROVE  Leads(heard[Session], InFlight', truth)
    BY <1>2, <1>3 DEF OnItsWay
  <2>1. Leads(heard[Session], queue, truth)
    BY <1>1, <1>2 DEF OnItsWay, Alive, InFlight
  <2>2. InFlight' = <<Hello>> \o queue BY <1>2, <1>6, <1>9 DEF InFlight
  <2>3. queue \in Seq(Carried) BY <1>1, InFlightFits
  <2>4. QED BY <2>1, <2>2, <2>3, CarriedKinds, LeadsThroughHello
<1>13. NothingHeard' BY <1>2, <1>6 DEF NothingHeard
<1>14. LossIsKnown' BY <1>2 DEF LossIsKnown
<1>15. QED BY <1>4, <1>5, <1>8, <1>10, <1>11, <1>12, <1>13, <1>14 DEF WayInv

(* A write that fails, or finds no server, ends with no wire and a loss.   *)
LEMMA LossStaysSound ==
  ASSUME WayInv, UNCHANGED <<vars, truth, missed, running, buffer, serverEnd>>,
         queue' \in Seq(Commands), dropped' \in Nat, dropped' # 0, reported' \in Nat,
         reported' <= dropped', faults' \in Nat, wire' = NoConn,
         writing' \in [Conns -> BOOLEAN], \A c \in Conns : ~writing'[c]
  PROVE  WayInv'
<1>1. EngineInv /\ WayFits /\ OneSession /\ \A c \in Conns : BufferSound(c) BY DEF WayInv
<1>2. UNCHANGED <<phase, heard, disturbed>> BY EngineParts
<1>3. EngineInv' BY <1>1, EngineIdle
<1>4. OneSession' BY <1>1, SessionStays
<1>5. WayFits' BY <1>1, NoWire DEF WayFits
<1>6. \A c \in Conns : BufferSound(c)' BY <1>1, <1>2, NoWire, BuffersStay
<1>7. OnlyWire' /\ OnItsWay' /\ NothingHeard' BY DEF OnlyWire, OnItsWay, NothingHeard
<1>8. LossIsKnown' BY DEF LossIsKnown
<1>9. QED BY <1>3, <1>4, <1>5, <1>6, <1>7, <1>8 DEF WayInv

LEMMA LosingFits ==
  ASSUME WayFits, NEW n \in 1 .. Len(queue), Lose(n)
  PROVE  /\ queue' \in Seq(Commands) /\ dropped' \in Nat /\ dropped' # 0
         /\ reported \in Nat /\ reported <= dropped'
<1>1. queue \in Seq(Commands) /\ dropped \in Nat /\ reported \in Nat /\ reported <= dropped
  BY DEF WayFits
<1>2. PICK m \in Nat : m = Len(queue) BY <1>1, LenProperties
<1>3. n \in 1 .. m /\ queue' = SubSeq(queue, n + 1, m) /\ dropped' = dropped + n
  BY <1>2 DEF Lose
<1>4. \A i \in n + 1 .. m : queue[i] \in Commands
  <2>1. \A i \in 1 .. Len(queue) : queue[i] \in Commands BY <1>1, ElementOfSeq
  <2>2. QED BY <1>2, <1>3, <2>1
<1>5. queue' \in Seq(Commands) BY <1>1, <1>2, <1>3, <1>4, SubSeqProperties
<1>6. QED BY <1>1, <1>2, <1>3, <1>5

LEMMA ClosingFits ==
  ASSUME WayFits, CloseWire
  PROVE  wire' = NoConn /\ writing' \in [Conns -> BOOLEAN] /\ \A c \in Conns : ~writing'[c]
BY DEF WayFits, CloseWire

LEMMA FaultFits ==
  ASSUME WayFits, Fault \/ UNCHANGED faults
  PROVE  faults' \in Nat
BY DEF WayFits, Fault

LEMMA OpenFailsStaysSound ==
  ASSUME WayInv, OpenFails
  PROVE  WayInv'
<1>1. WayFits BY DEF WayInv
<1>2. /\ wire = NoConn /\ queue # <<>> /\ Lose(Len(queue)) /\ (Fault \/ UNCHANGED faults)
      /\ UNCHANGED <<vars, truth, missed, running, reported, wire, writing, buffer, serverEnd>>
  BY DEF OpenFails, pipeVars
<1>3. PICK n \in Nat : n = Len(queue) BY <1>1, LenProperties DEF WayFits
<1>4. n # 0 BY <1>1, <1>2, <1>3, EmptySeq DEF WayFits
<1>5. n \in 1 .. Len(queue) /\ Lose(n) BY <1>2, <1>3, <1>4
<1>6. queue' \in Seq(Commands) /\ dropped' \in Nat /\ dropped' # 0
      /\ reported' \in Nat /\ reported' <= dropped'
  BY <1>1, <1>2, <1>5, LosingFits
<1>7. faults' \in Nat BY <1>1, <1>2, FaultFits
<1>8. wire' = NoConn /\ writing' \in [Conns -> BOOLEAN] /\ \A c \in Conns : ~writing'[c]
  BY <1>1, <1>2, NoWire DEF WayFits
<1>9. QED BY <1>2, <1>6, <1>7, <1>8, LossStaysSound

LEMMA SendFailsStaysSound ==
  ASSUME WayInv, SendFails
  PROVE  WayInv'
<1>1. WayFits BY DEF WayInv
<1>2. /\ CloseWire /\ (Fault \/ UNCHANGED faults)
      /\ UNCHANGED <<vars, truth, missed, running, reported, buffer, serverEnd>>
  BY DEF SendFails, pipeVars
<1>3. PICK n \in 1 .. Len(queue) : Lose(n) BY DEF SendFails
<1>4. queue' \in Seq(Commands) /\ dropped' \in Nat /\ dropped' # 0
      /\ reported' \in Nat /\ reported' <= dropped'
  BY <1>1, <1>2, <1>3, LosingFits
<1>5. faults' \in Nat BY <1>1, <1>2, FaultFits
<1>6. wire' = NoConn /\ writing' \in [Conns -> BOOLEAN] /\ \A c \in Conns : ~writing'[c]
  BY <1>1, <1>2, ClosingFits
<1>7. QED BY <1>2, <1>4, <1>5, <1>6, LossStaysSound

LEMMA NotifyFailsStaysSound ==
  ASSUME WayInv, NotifyFails
  PROVE  WayInv'
<1>1. WayFits BY DEF WayInv
<1>2. /\ CloseWire /\ (Fault \/ UNCHANGED faults) /\ dropped # reported /\ reported' = dropped
      /\ UNCHANGED <<vars, truth, missed, running, queue, dropped, buffer, serverEnd>>
  BY DEF NotifyFails, NoticeIsDue, pipeVars
<1>3. queue' \in Seq(Commands) /\ dropped' \in Nat /\ dropped' # 0
      /\ reported' \in Nat /\ reported' <= dropped'
  BY <1>1, <1>2 DEF WayFits
<1>4. faults' \in Nat BY <1>1, <1>2, FaultFits
<1>5. wire' = NoConn /\ writing' \in [Conns -> BOOLEAN] /\ \A c \in Conns : ~writing'[c]
  BY <1>1, <1>2, ClosingFits
<1>6. QED BY <1>2, <1>3, <1>4, <1>5, LossStaysSound

(* What is written comes last in the pipe.                                 *)
LEMMA WritingFits ==
  ASSUME WayFits, \A c \in Conns : BufferSound(c), wire # NoConn, serverEnd[wire] = "open",
         NEW f \in Commands \union Notices, Put(wire, f),
         UNCHANGED <<phase, wire, serverEnd>>
  PROVE  /\ buffer' \in [Conns -> Seq(Carried)]
         /\ buffer'[wire] = Append(buffer[wire], f)
         /\ \A c \in Conns \ {wire} : buffer'[c] = buffer[c]
         /\ \A c \in Conns : BufferSound(c)'
         /\ \E i \in DOMAIN buffer'[wire] : buffer'[wire][i] = f
         /\ \A i \in DOMAIN buffer[wire] :
              i \in DOMAIN buffer'[wire] /\ buffer'[wire][i] = buffer[wire][i]
<1>1. wire \in Conns /\ buffer \in [Conns -> Seq(Carried)] BY DEF WayFits
<1>2. f \in Carried /\ f # Hello BY CarriedKinds
<1>3. PICK b \in Seq(Carried) : b = buffer[wire] BY <1>1
<1>4. PICK r : r = Append(b, f) OBVIOUS
<1>5. PICK n \in Nat : n = Len(b) BY LenProperties
<1>6. r \in Seq(Carried) /\ r # <<>> /\ Len(r) = n + 1 /\ r[n + 1] = f
      /\ \A i \in 1 .. n : r[i] = b[i]
  BY <1>2, <1>4, <1>5, AppendProperties
<1>7. DOMAIN r = 1 .. n + 1 /\ DOMAIN b = 1 .. n BY <1>5, <1>6, LenProperties
<1>8. buffer' = [buffer EXCEPT ![wire] = r] BY <1>3, <1>4 DEF Put
<1>9. buffer' \in [Conns -> Seq(Carried)] /\ buffer'[wire] = r
      /\ \A c \in Conns \ {wire} : buffer'[c] = buffer[c]
  BY <1>1, <1>6, <1>8
<1>10. BufferSound(wire)'
  <2>1. BufferSound(wire) BY <1>1
  <2>2. phase[wire] # "closed" BY <2>1 DEF BufferSound
  <2>3. phase[wire] = "new" => n # 0
    <3>1. phase[wire] = "new" => b # <<>> BY <1>3, <2>1 DEF BufferSound
    <3>2. QED BY <1>5, <3>1, EmptySeq
  <2>4. \A i \in 1 .. n : b[i] = Hello <=> i = 1 /\ phase[wire] = "new"
    BY <1>3, <1>7, <2>1 DEF BufferSound
  <2>5. ASSUME NEW i \in 1 .. n + 1
        PROVE  r[i] = Hello <=> i = 1 /\ phase[wire] = "new"
    <3>1. CASE i = n + 1 BY <1>2, <1>5, <1>6, <2>3, <3>1
    <3>2. CASE i # n + 1
      <4>1. i \in 1 .. n BY <1>5, <3>2
      <4>2. QED BY <1>6, <2>4, <4>1
    <3>3. QED BY <3>1, <3>2
  <2>6. QED BY <1>6, <1>7, <1>9, <2>2, <2>5 DEF BufferSound
<1>11. \A c \in Conns : BufferSound(c)'
  <2> TAKE c \in Conns
  <2>1. CASE c = wire BY <1>10, <2>1
  <2>2. CASE c # wire BY <1>9, <2>2, BuffersStay
  <2>3. QED BY <2>1, <2>2
<1>12. n + 1 \in DOMAIN r /\ \A i \in DOMAIN b : i \in DOMAIN r /\ r[i] = b[i]
  BY <1>5, <1>6, <1>7
<1>13. QED BY <1>3, <1>4, <1>6, <1>9, <1>11, <1>12

(* What is written to a pipe that nobody reads is gone.                    *)
LEMMA WritingInVain ==
  ASSUME serverEnd[wire] # "open", NEW f, Put(wire, f)
  PROVE  UNCHANGED buffer
BY DEF Put

LEMMA SendStaysSound ==
  ASSUME WayInv, Send
  PROVE  WayInv'
<1>1. /\ EngineInv /\ WayFits /\ OneSession /\ \A c \in Conns : BufferSound(c)
      /\ OnlyWire /\ OnItsWay /\ NothingHeard /\ LossIsKnown
  BY DEF WayInv
<1>2. /\ wire # NoConn /\ queue # <<>> /\ Put(wire, Head(queue)) /\ queue' = Tail(queue)
      /\ UNCHANGED <<vars, truth, missed, running, dropped, reported, wire, writing, serverEnd,
                     faults>>
  BY DEF Send, CanWrite
<1>3. UNCHANGED <<phase, heard, disturbed>> BY <1>2, EngineParts
<1>4. EngineInv' BY <1>1, <1>2, EngineIdle
<1>5. OneSession' BY <1>1, <1>2, SessionStays
<1>6. queue \in Seq(Commands) BY <1>1 DEF WayFits
<1>7. Head(queue) \in Commands /\ queue' \in Seq(Commands) BY <1>2, <1>6, HeadTailProperties
<1>8. wire \in Conns BY <1>1, <1>2 DEF WayFits
<1>9. CASE serverEnd[wire] # "open"
  <2>1. UNCHANGED buffer BY <1>2, <1>9, WritingInVain
  <2>2. WayFits' BY <1>1, <1>2, <1>7, <2>1 DEF WayFits
  <2>3. \A c \in Conns : BufferSound(c)' BY <1>2, <1>1, <1>3, <2>1, BuffersStay
  <2>4. ~Alive' BY <1>2, <1>9 DEF Alive
  <2>5. OnlyWire' BY <1>1, <1>2, <1>3, <2>1 DEF OnlyWire
  <2>6. OnItsWay' /\ NothingHeard' /\ LossIsKnown'
    BY <1>2, <2>4 DEF OnItsWay, NothingHeard, LossIsKnown
  <2>7. QED BY <1>4, <1>5, <2>2, <2>3, <2>5, <2>6 DEF WayInv
<1>10. CASE serverEnd[wire] = "open"
  <2>1. PICK f \in Commands : f = Head(queue) BY <1>7
  <2>2. Put(wire, f) BY <1>2, <2>1
  <2>3. /\ buffer' \in [Conns -> Seq(Carried)]
        /\ buffer'[wire] = Append(buffer[wire], f)
        /\ \A c \in Conns \ {wire} : buffer'[c] = buffer[c]
        /\ \A c \in Conns : BufferSound(c)'
        /\ \A i \in DOMAIN buffer[wire] :
             i \in DOMAIN buffer'[wire] /\ buffer'[wire][i] = buffer[wire][i]
    BY <1>1, <1>2, <1>3, <1>10, <2>2, WritingFits
  <2>4. WayFits' BY <1>1, <1>2, <1>7, <2>3 DEF WayFits
  <2>5. OnlyWire' BY <1>1, <1>2, <1>3, <2>3 DEF OnlyWire
  <2>6. InFlight' = InFlight
    <3>1. PICK q \in Seq(Carried) : q = queue BY <1>1, InFlightFits
    <3>2. PICK b \in Seq(Carried) : b = buffer[wire] BY <1>1, <1>8 DEF WayFits
    <3>3. Append(b, Head(q)) \o Tail(q) = b \o q BY <1>2, <3>1, HeadThrough
    <3>4. InFlight = b \o q BY <1>2, <3>1, <3>2 DEF InFlight
    <3>5. InFlight' = Append(b, Head(q)) \o Tail(q) BY <1>2, <2>1, <2>3, <3>1, <3>2 DEF InFlight
    <3>6. QED BY <3>3, <3>4, <3>5
  <2>7. Alive' => Alive BY <1>2, <1>3 DEF Alive
  <2>8. OnItsWay' BY <1>1, <1>2, <1>3, <2>6, <2>7 DEF OnItsWay
  <2>9. NothingHeard' BY <1>2 DEF NothingHeard
  <2>10. LossIsKnown' BY <1>1, <1>2, <1>3, <2>3, <2>7 DEF LossIsKnown
  <2>11. QED BY <1>4, <1>5, <2>3, <2>4, <2>5, <2>8, <2>9, <2>10 DEF WayInv
<1>11. QED BY <1>9, <1>10

LEMMA NotifyStaysSound ==
  ASSUME WayInv, Notify
  PROVE  WayInv'
<1>1. /\ EngineInv /\ WayFits /\ OneSession /\ \A c \in Conns : BufferSound(c)
      /\ OnlyWire /\ OnItsWay /\ NothingHeard /\ LossIsKnown
  BY DEF WayInv
<1>2. /\ wire # NoConn /\ dropped # reported /\ reported' = dropped
      /\ Put(wire, [type |-> "DropNotice", count |-> dropped])
      /\ UNCHANGED <<vars, truth, missed, running, queue, dropped, wire, writing, serverEnd,
                     faults>>
  BY DEF Notify, NoticeIsDue
<1>3. UNCHANGED <<phase, heard, disturbed>> BY <1>2, EngineParts
<1>4. EngineInv' BY <1>1, <1>2, EngineIdle
<1>5. OneSession' BY <1>1, <1>2, SessionStays
<1>6. dropped \in Nat \ {0} BY <1>1, <1>2 DEF WayFits
<1>7. OnlyWire' /\ OnItsWay' /\ NothingHeard'
  BY <1>2, <1>6 DEF OnlyWire, OnItsWay, NothingHeard
<1>8. CASE serverEnd[wire] # "open"
  <2>1. UNCHANGED buffer BY <1>2, <1>8, WritingInVain
  <2>2. WayFits' BY <1>1, <1>2, <2>1 DEF WayFits
  <2>3. \A c \in Conns : BufferSound(c)' BY <1>2, <1>1, <1>3, <2>1, BuffersStay
  <2>4. LossIsKnown' BY <1>2, <1>8 DEF LossIsKnown, Alive
  <2>5. QED BY <1>4, <1>5, <1>7, <2>2, <2>3, <2>4 DEF WayInv
<1>9. CASE serverEnd[wire] = "open"
  <2>1. PICK f : f = [type |-> "DropNotice", count |-> dropped] OBVIOUS
  <2>2. f \in Notices BY <1>6, <2>1 DEF Notices
  <2>3. Put(wire, f) BY <1>2, <2>1
  <2>4. /\ buffer' \in [Conns -> Seq(Carried)]
        /\ \A c \in Conns : BufferSound(c)'
        /\ \E i \in DOMAIN buffer'[wire] : buffer'[wire][i] = f
    BY <1>1, <1>2, <1>3, <1>9, <2>2, <2>3, WritingFits
  <2>5. WayFits' BY <1>1, <1>2, <2>4 DEF WayFits
  <2>6. LossIsKnown' BY <1>2, <2>2, <2>4 DEF LossIsKnown
  <2>7. QED BY <1>4, <1>5, <1>7, <2>4, <2>5, <2>6 DEF WayInv
<1>10. QED BY <1>8, <1>9

(* What is read came first in the pipe.                                    *)
LEMMA ReadingFits ==
  ASSUME WayFits, \A d \in Conns : BufferSound(d), NEW c \in Conns, buffer[c] # <<>>,
         buffer' = [buffer EXCEPT ![c] = Tail(@)], phase[c] \in {"new", "open"},
         phase'[c] = "open", \A d \in Conns \ {c} : phase'[d] = phase[d],
         UNCHANGED <<wire, serverEnd, queue>>
  PROVE  /\ buffer' \in [Conns -> Seq(Carried)]
         /\ \A d \in Conns \ {c} : buffer'[d] = buffer[d]
         /\ \A d \in Conns : BufferSound(d)'
         /\ phase[c] = "new" => Head(buffer[c]) = Hello
         /\ phase[c] = "open" => Head(buffer[c]) \in Commands \union Notices
         /\ \A i \in DOMAIN buffer[c] :
              \/ buffer[c][i] = Head(buffer[c])
              \/ i - 1 \in DOMAIN buffer'[c] /\ buffer'[c][i - 1] = buffer[c][i]
         /\ c = wire => /\ InFlight # <<>> /\ Head(InFlight) = Head(buffer[c])
                        /\ InFlight' = Tail(InFlight)
<1>1. buffer \in [Conns -> Seq(Carried)] BY DEF WayFits
<1>2. PICK b \in Seq(Carried) : b = buffer[c] BY <1>1
<1>3. PICK n \in Nat : n = Len(b) BY LenProperties
<1>4. b # <<>> /\ n # 0 BY <1>2, <1>3, EmptySeq
<1>5. PICK t : t = Tail(b) OBVIOUS
<1>6. t \in Seq(Carried) /\ Len(t) = n - 1 /\ \A i \in 1 .. n - 1 : t[i] = b[i + 1]
  BY <1>3, <1>4, <1>5, HeadTailProperties
<1>7. DOMAIN t = 1 .. n - 1 /\ DOMAIN b = 1 .. n BY <1>3, <1>6, LenProperties
<1>8. PICK h \in Carried : h = Head(b) /\ h = b[1] BY <1>4, HeadTailProperties
<1>9. buffer' = [buffer EXCEPT ![c] = t] BY <1>2, <1>5
<1>10. buffer' \in [Conns -> Seq(Carried)] /\ buffer'[c] = t
       /\ \A d \in Conns \ {c} : buffer'[d] = buffer[d]
  BY <1>1, <1>6, <1>9
<1>11. 1 \in 1 .. n BY <1>3, <1>4
<1>12. \A i \in 1 .. n : b[i] = Hello <=> i = 1 /\ phase[c] = "new"
  BY <1>2, <1>7 DEF BufferSound
<1>13. h = Hello <=> phase[c] = "new" BY <1>8, <1>11, <1>12
<1>14. ASSUME NEW i \in 1 .. n - 1 PROVE t[i] # Hello
  <2>1. i + 1 \in 1 .. n /\ i + 1 # 1 BY <1>3
  <2>2. QED BY <1>6, <1>12, <2>1
<1>15. \A d \in Conns : BufferSound(d)'
  <2> TAKE d \in Conns
  <2>1. CASE d = c BY <1>7, <1>10, <1>14, <2>1 DEF BufferSound
  <2>2. CASE d # c BY <1>10, <2>2, BuffersStay
  <2>3. QED BY <2>1, <2>2
<1>16. h # Hello => h \in Commands \union Notices BY DEF Carried
<1>17. ASSUME NEW i \in 1 .. n PROVE b[i] = h \/ (i - 1 \in 1 .. n - 1 /\ t[i - 1] = b[i])
  <2>1. CASE i = 1 BY <1>8, <2>1
  <2>2. CASE i # 1
    <3>1. i - 1 \in 1 .. n - 1 /\ (i - 1) + 1 = i BY <1>3, <2>2
    <3>2. QED BY <1>6, <3>1
  <2>3. QED BY <2>1, <2>2
<1>18. ASSUME c = wire
       PROVE  /\ InFlight # <<>> /\ Head(InFlight) = h /\ InFlight' = Tail(InFlight)
  <2>1. PICK q \in Seq(Carried) : q = queue BY InFlightFits
  <2>2. wire # NoConn BY <1>18, NoWire
  <2>3. InFlight = b \o q /\ InFlight' = t \o q BY <1>2, <1>10, <1>18, <2>1, <2>2 DEF InFlight
  <2>4. b \o q # <<>> /\ Head(b \o q) = Head(b) /\ Tail(b \o q) = Tail(b) \o q
    BY <1>4, TailThrough
  <2>5. QED BY <1>5, <1>8, <2>3, <2>4
<1>19. QED BY <1>2, <1>7, <1>8, <1>10, <1>13, <1>15, <1>16, <1>17, <1>18

(* The only session makes no room for another.                             *)
LEMMA JoiningAlone ==
  ASSUME EngineInv, OneSession, NEW c \in Conns, Connect(Session, c)
  PROVE  OneSession'
<1>1. tracked \subseteq {Session} /\ evicted = {} /\ owner \in [Conns -> {Session, NoKey}]
  BY DEF OneSession
<1>2. owner' = [owner EXCEPT ![c] = Session] /\ Join(Session, c) BY DEF Connect
<1>3. Victims(Session) = {}
  <2>1. CASE Session \in tracked BY <2>1 DEF Victims
  <2>2. CASE Session \notin tracked
    <3>1. tracked = {} BY <1>1, <2>2
    <3>2. Evictable = {} BY <3>1 DEF Evictable
    <3>3. QED BY <3>2 DEF Victims
  <2>3. QED BY <2>1, <2>2
<1>4. PICK none : none = Victims(Session) OBVIOUS
<1>5. tracked' \subseteq {Session} /\ evicted' = {} BY <1>1, <1>2, <1>3 DEF Join
<1>6. QED BY <1>1, <1>2, <1>5 DEF OneSession

LEMMA MeaningOfHello ==
  ASSUME NEW w
  PROVE  Meaning(w, Hello) = w
BY DEF Meaning, Hello

LEMMA ReadStaysSound ==
  ASSUME WayInv, NEW c \in Conns, Read(c)
  PROVE  WayInv'
<1>1. /\ EngineInv /\ WayFits /\ OneSession /\ \A d \in Conns : BufferSound(d)
      /\ OnlyWire /\ OnItsWay /\ NothingHeard /\ LossIsKnown
  BY DEF WayInv
<1>2. /\ buffer[c] # <<>> /\ buffer' = [buffer EXCEPT ![c] = Tail(@)]
      /\ UNCHANGED <<truth, missed, running, queue, dropped, reported, wire, writing, serverEnd,
                     faults>>
      /\ IF phase[c] = "new" THEN Connect(Session, c) ELSE ProcessFrame(c, Head(buffer[c]))
  BY DEF Read, sinkVars
<1>3. phase \in [Conns -> {"new", "open", "closed"}] /\ heard \in [Keys -> Playback]
      /\ disturbed \subseteq Keys
  BY <1>1 DEF EngineInv, ReadersFit, HistoryFits
<1>4. phase[c] \in {"new", "open"} /\ phase'[c] = "open"
      /\ \A d \in Conns \ {c} : phase'[d] = phase[d]
  BY <1>2, <1>3 DEF Connect, ProcessFrame
<1>5. PICK h : h = Head(buffer[c]) OBVIOUS
<1>6. /\ buffer' \in [Conns -> Seq(Carried)]
      /\ \A d \in Conns \ {c} : buffer'[d] = buffer[d]
      /\ \A d \in Conns : BufferSound(d)'
      /\ phase[c] = "new" => h = Hello
      /\ phase[c] = "open" => h \in Commands \union Notices
      /\ \A i \in DOMAIN buffer[c] :
           \/ buffer[c][i] = h
           \/ i - 1 \in DOMAIN buffer'[c] /\ buffer'[c][i - 1] = buffer[c][i]
      /\ c = wire => InFlight # <<>> /\ Head(InFlight) = h /\ InFlight' = Tail(InFlight)
  BY <1>1, <1>2, <1>4, <1>5, ReadingFits
<1>7. /\ EngineInv' /\ OneSession' /\ heard'[Session] = Meaning(heard[Session], h)
      /\ disturbed \subseteq disturbed' /\ (h \in Notices => Session \in disturbed')
  <2>1. CASE phase[c] = "new"
    <3>1. Connect(Session, c) BY <1>2, <2>1
    <3>2. EngineInv' BY <1>1, <3>1, PathConstants, ConnectStaysSound
    <3>3. OneSession' BY <1>1, <3>1, JoiningAlone
    <3>4. UNCHANGED <<heard, disturbed>> BY <3>1 DEF Connect
    <3>5. h = Hello BY <1>6, <2>1
    <3>6. Meaning(heard[Session], h) = heard[Session] BY <3>5, MeaningOfHello
    <3>7. QED BY <3>2, <3>3, <3>4, <3>5, <3>6, CarriedKinds
  <2>2. CASE phase[c] = "open"
    <3>1. ProcessFrame(c, h) BY <1>2, <1>5, <2>2
    <3>2. h \in Commands \union Notices BY <1>6, <2>2
    <3>3. h \in AnyFrame BY <3>2, CarriedKinds
    <3>4. EngineInv' BY <1>1, <3>1, <3>3, FrameStaysSound
    <3>5. owner[c] = Session
      <4>1. owner[c] \in Keys /\ owner[c] \in {Session, NoKey}
        BY <1>1, <2>2 DEF EngineInv, ReadersFit, OneSession
      <4>2. QED BY <4>1, EngineConstants
    <3>6. /\ heard' = [heard EXCEPT ![Session] = Meaning(@, h)]
          /\ disturbed' = IF h.type = "DropNotice" /\ h.count > 0
                          THEN disturbed \union {Session} ELSE disturbed
          /\ UNCHANGED <<tracked, owner, evicted>>
      BY <3>1, <3>5 DEF ProcessFrame, Hear
    <3>7. OneSession' BY <1>1, <3>6 DEF OneSession
    <3>8. heard'[Session] = Meaning(heard[Session], h) BY <1>3, <3>6, PathConstants
    <3>9. h \in Notices => h.type = "DropNotice" /\ h.count > 0 BY CarriedKinds
    <3>10. disturbed \subseteq disturbed' /\ (h \in Notices => Session \in disturbed')
      BY <3>6, <3>9
    <3>11. QED BY <3>4, <3>7, <3>8, <3>10
  <2>3. QED BY <1>4, <2>1, <2>2
<1>8. WayFits' BY <1>1, <1>2, <1>6 DEF WayFits
<1>9. dropped = 0 => c = wire BY <1>1, <1>2 DEF OnlyWire
<1>10. OnlyWire' BY <1>1, <1>2, <1>4, <1>6, <1>9 DEF OnlyWire
<1>11. Alive' => Alive
  <2>1. c = wire => phase[wire] # "closed" BY <1>4
  <2>2. c # wire /\ wire # NoConn => phase'[wire] = phase[wire] BY <1>1, <1>4 DEF WayFits
  <2>3. QED BY <1>2, <2>1, <2>2 DEF Alive
<1>12. OnItsWay'
  <2> SUFFICES ASSUME dropped = 0, ~missed, Alive'
               PROVE  Leads(heard'[Session], InFlight', truth)
    BY <1>2 DEF OnItsWay
  <2>1. c = wire BY <1>9
  <2>2. PICK q \in Seq(Carried) : q = InFlight BY <1>1, InFlightFits
  <2>3. Leads(heard[Session], q, truth) BY <1>1, <1>11, <2>2 DEF OnItsWay
  <2>4. q # <<>> /\ Head(q) = h /\ InFlight' = Tail(q) BY <1>6, <2>1, <2>2
  <2>5. Leads(Meaning(heard[Session], Head(q)), Tail(q), truth) BY <2>3, <2>4, LeadsFromNext
  <2>6. QED BY <1>7, <2>4, <2>5
<1>13. NothingHeard' BY <1>1, <1>2, <1>9, NoWire DEF NothingHeard
<1>14. LossIsKnown'
  <2> SUFFICES ASSUME reported > 0, wire # NoConn, Alive', Session \notin disturbed'
               PROVE  \E i \in DOMAIN buffer'[wire] : buffer'[wire][i] \in Notices
    BY <1>2 DEF LossIsKnown
  <2>1. PICK i \in DOMAIN buffer[wire] : buffer[wire][i] \in Notices
    BY <1>1, <1>7, <1>11 DEF LossIsKnown
  <2>2. CASE c = wire
    <3>1. buffer[c][i] # h BY <1>7, <2>1, <2>2
    <3>2. i - 1 \in DOMAIN buffer'[c] /\ buffer'[c][i - 1] = buffer[c][i]
      BY <1>6, <2>1, <2>2, <3>1
    <3>3. QED BY <2>1, <2>2, <3>2
  <2>3. CASE c # wire
    <3>1. wire \in Conns \ {c} BY <1>1, <2>3 DEF WayFits
    <3>2. buffer'[wire] = buffer[wire] BY <1>6, <3>1
    <3>3. QED BY <2>1, <3>2
  <2>4. QED BY <2>2, <2>3
<1>15. QED BY <1>6, <1>7, <1>8, <1>10, <1>12, <1>13, <1>14 DEF WayInv

(* A connection whose reader ends says nothing more.                       *)
LEMMA EndingStaysSound ==
  ASSUME WayInv, EngineInv', OneSession', NEW c \in Conns, NothingMore(c),
         phase[c] \in {"new", "open"}, phase' = [phase EXCEPT ![c] = "closed"],
         UNCHANGED <<heard, truth, missed, running, queue, dropped, reported, wire, writing,
                     buffer, serverEnd, faults>>,
         disturbed \subseteq disturbed'
  PROVE  WayInv'
<1>1. /\ EngineInv /\ WayFits /\ OneSession /\ \A d \in Conns : BufferSound(d)
      /\ OnlyWire /\ OnItsWay /\ NothingHeard /\ LossIsKnown
  BY DEF WayInv
<1>2. phase \in [Conns -> {"new", "open", "closed"}] BY <1>1 DEF EngineInv, ReadersFit
<1>3. phase'[c] = "closed" /\ \A d \in Conns \ {c} : phase'[d] = phase[d] BY <1>2
<1>4. buffer[c] = <<>> /\ (serverEnd[c] # "open" \/ (phase[c] = "open" /\ c # wire))
  BY <1>1 DEF NothingMore, WayFits
<1>5. WayFits' BY <1>1 DEF WayFits
<1>6. \A d \in Conns : BufferSound(d)'
  <2> TAKE d \in Conns
  <2>1. CASE d = c
    <3>1. PICK b : b = <<>> OBVIOUS
    <3>2. DOMAIN b = {} BY <3>1
    <3>3. QED BY <1>3, <1>4, <2>1, <3>1, <3>2 DEF BufferSound
  <2>2. CASE d # c BY <1>1, <1>3, <2>2, BuffersStay
  <2>3. QED BY <2>1, <2>2
<1>7. dropped = 0 => c = wire BY <1>1, <1>4 DEF OnlyWire
<1>8. OnlyWire' BY <1>1, <1>3, <1>7 DEF OnlyWire
<1>9. Alive' => Alive /\ c # wire
  <2>1. c = wire => ~Alive' BY <1>1, <1>3, NoWire DEF Alive
  <2>2. c # wire /\ wire # NoConn => phase'[wire] = phase[wire] BY <1>1, <1>3 DEF WayFits
  <2>3. QED BY <2>1, <2>2 DEF Alive
<1>10. OnItsWay' BY <1>7, <1>9 DEF OnItsWay
<1>11. NothingHeard' BY <1>1 DEF NothingHeard
<1>12. LossIsKnown' BY <1>1, <1>9 DEF LossIsKnown
<1>13. QED BY <1>5, <1>6, <1>8, <1>10, <1>11, <1>12 DEF WayInv

LEMMA LeavingStaysSound ==
  ASSUME WayInv, NEW c \in Conns, Leaving(c)
  PROVE  WayInv'
<1>1. EngineInv /\ OneSession BY DEF WayInv
<1>2. /\ NothingMore(c) /\ Disconnect(c)
      /\ UNCHANGED <<truth, missed, running, queue, dropped, reported, wire, writing, buffer,
                     serverEnd, faults>>
  BY DEF Leaving, sinkVars, pipeVars
<1>3. /\ phase[c] = "open" /\ phase' = [phase EXCEPT ![c] = "closed"]
      /\ disturbed \subseteq disturbed' /\ UNCHANGED <<heard, tracked, owner, evicted>>
  BY <1>2 DEF Disconnect
<1>4. EngineInv' BY <1>1, <1>2, DisconnectStaysSound
<1>5. OneSession' BY <1>1, <1>3 DEF OneSession
<1>6. QED BY <1>2, <1>3, <1>4, <1>5, EndingStaysSound

LEMMA LeavingUnknownStaysSound ==
  ASSUME WayInv, NEW c \in Conns, LeavingUnknown(c)
  PROVE  WayInv'
<1>1. EngineInv /\ OneSession BY DEF WayInv
<1>2. /\ NothingMore(c) /\ phase[c] = "new" /\ phase' = [phase EXCEPT ![c] = "closed"]
      /\ UNCHANGED <<sources, tracked, order, sourceDrops, owner, queueing, history>>
      /\ UNCHANGED <<truth, missed, running, queue, dropped, reported, wire, writing, buffer,
                     serverEnd, faults>>
  BY DEF LeavingUnknown, sinkVars, pipeVars
<1>3. UNCHANGED <<heard, disturbed, evicted, edge>> BY <1>2 DEF history
<1>4. phase \in [Conns -> {"new", "open", "closed"}] BY <1>1 DEF EngineInv, ReadersFit
<1>5. phase'[c] = "closed" /\ \A d \in Conns \ {c} : phase'[d] = phase[d] BY <1>2, <1>4
<1>6. EngineInv'
  <2>1. SourcesFit' /\ OrderIsTotal' BY <1>1, <1>2 DEF EngineInv, SourcesFit, OrderIsTotal, Bounded
  <2>2. ReadersFit' BY <1>1, <1>2, <1>4, <1>5 DEF EngineInv, ReadersFit
  <2>3. HistoryFits' BY <1>1, <1>3 DEF EngineInv, HistoryFits
  <2>4. QueueFits' BY <1>1, <1>2 DEF EngineInv, QueueFits, QueueCountExact, queueing
  <2>5. \A k \in Keys : (SourceSound(k) /\ EdgeTells(k))'
    BY <1>1, <1>2, <1>3 DEF EngineInv, SourceSound, EdgeTells
  <2>6. \A k \in Keys : Readers(k)' = Readers(k) BY <1>2, <1>5 DEF Readers
  <2>7. \A k \in Keys : Undisturbed(k) => Undisturbed(k)' BY <1>2, <1>3 DEF Undisturbed
  <2>8. AllHeard' BY <1>1, <1>2, <2>6, <2>7 DEF EngineInv, AllHeard
  <2>9. QED BY <2>1, <2>2, <2>3, <2>4, <2>5, <2>8 DEF EngineInv
<1>7. OneSession' BY <1>1, <1>2, <1>3 DEF OneSession
<1>8. QED BY <1>2, <1>3, <1>6, <1>7, EndingStaysSound

(* A pipe that is no longer read is of no use to the sink.                 *)
LEMMA BreakingStaysSound ==
  ASSUME WayInv, NEW c \in Conns, NEW e \in {"failed", "disposed"},
         phase[c] # "new" \/ writing[c] \/ buffer[c] # <<>> \/ serverEnd[c] # "open",
         serverEnd' = [serverEnd EXCEPT ![c] = e],
         NEW b \in Seq(Carried), buffer' = [buffer EXCEPT ![c] = b],
         phase[c] = "closed" => b = <<>>,
         \A i \in DOMAIN b : i \in DOMAIN buffer[c] /\ b[i] = buffer[c][i],
         UNCHANGED <<vars, truth, missed, running, queue, dropped, reported, wire, writing>>,
         faults' \in Nat
  PROVE  WayInv'
<1>1. /\ EngineInv /\ WayFits /\ OneSession /\ \A d \in Conns : BufferSound(d)
      /\ OnlyWire /\ OnItsWay /\ NothingHeard /\ LossIsKnown
  BY DEF WayInv
<1>2. UNCHANGED <<phase, heard, disturbed>> BY EngineParts
<1>3. EngineInv' BY <1>1, EngineIdle
<1>4. OneSession' BY <1>1, SessionStays
<1>5. /\ serverEnd'[c] = e /\ buffer'[c] = b
      /\ \A d \in Conns \ {c} : serverEnd'[d] = serverEnd[d] /\ buffer'[d] = buffer[d]
      /\ serverEnd' \in [Conns -> {"open", "failed", "disposed"}]
      /\ buffer' \in [Conns -> Seq(Carried)]
  BY <1>1 DEF WayFits
<1>6. WayFits' BY <1>1, <1>5 DEF WayFits
<1>7. \A d \in Conns : BufferSound(d)'
  <2> TAKE d \in Conns
  <2>1. CASE d = c BY <1>1, <1>2, <1>5, <2>1 DEF BufferSound
  <2>2. CASE d # c BY <1>1, <1>2, <1>5, <2>2, BuffersStay
  <2>3. QED BY <2>1, <2>2
<1>8. dropped = 0 => c = wire BY <1>1 DEF OnlyWire, WayFits
<1>9. OnlyWire' BY <1>1, <1>2, <1>5, <1>8 DEF OnlyWire
<1>10. c = wire => ~Alive' BY <1>1, <1>5, NoWire DEF Alive
<1>11. Alive' => Alive
  <2>1. c # wire /\ wire # NoConn => serverEnd'[wire] = serverEnd[wire] BY <1>1, <1>5 DEF WayFits
  <2>2. QED BY <1>2, <1>10, <2>1 DEF Alive
<1>12. OnItsWay' BY <1>8, <1>10 DEF OnItsWay
<1>13. NothingHeard' BY <1>1, <1>2 DEF NothingHeard
<1>14. LossIsKnown'
  <2>1. c # wire /\ wire # NoConn => buffer'[wire] = buffer[wire] BY <1>1, <1>5 DEF WayFits
  <2>2. QED BY <1>1, <1>2, <1>10, <1>11, <2>1 DEF LossIsKnown
<1>15. QED BY <1>3, <1>4, <1>6, <1>7, <1>9, <1>12, <1>13, <1>14 DEF WayInv

LEMMA DisposeStaysSound ==
  ASSUME WayInv, NEW c \in Conns, Dispose(c)
  PROVE  WayInv'
<1>1. WayFits /\ BufferSound(c) BY DEF WayInv
<1>2. /\ phase[c] = "closed" /\ serverEnd' = [serverEnd EXCEPT ![c] = "disposed"]
      /\ UNCHANGED <<vars, truth, missed, running, queue, dropped, reported, wire, writing,
                     buffer, faults>>
  BY DEF Dispose, sinkVars
<1>3. PICK b \in Seq(Carried) : b = buffer[c] BY <1>1 DEF WayFits
<1>4. buffer' = [buffer EXCEPT ![c] = b] BY <1>1, <1>2, <1>3 DEF WayFits
<1>5. b = <<>> BY <1>1, <1>2, <1>3 DEF BufferSound
<1>6. faults' \in Nat BY <1>1, <1>2 DEF WayFits
<1>7. QED BY <1>2, <1>3, <1>4, <1>5, <1>6, BreakingStaysSound

LEMMA ReadFailsStaysSound ==
  ASSUME WayInv, NEW c \in Conns, ReadFails(c)
  PROVE  WayInv'
<1>1. WayFits BY DEF WayInv
<1>2. /\ serverEnd' = [serverEnd EXCEPT ![c] = "failed"] /\ buffer' = [buffer EXCEPT ![c] = <<>>]
      /\ Accepted(c) /\ Fault
      /\ UNCHANGED <<vars, truth, missed, running, queue, dropped, reported, wire, writing>>
  BY DEF ReadFails, sinkVars
<1>3. PICK b \in Seq(Carried) : b = <<>> BY EmptySeq
<1>4. buffer' = [buffer EXCEPT ![c] = b] BY <1>2, <1>3
<1>5. DOMAIN b = {} BY <1>3
<1>6. phase[c] # "new" \/ writing[c] \/ buffer[c] # <<>> \/ serverEnd[c] # "open"
  BY <1>2 DEF Accepted
<1>7. faults' \in Nat BY <1>1, <1>2, FaultFits
<1>8. QED BY <1>2, <1>3, <1>4, <1>5, <1>6, <1>7, BreakingStaysSound

LEMMA StopClientStaysSound ==
  ASSUME WayInv, NEW c \in Conns, StopClient(c)
  PROVE  WayInv'
<1>1. WayFits BY DEF WayInv
<1>2. /\ serverEnd' = [serverEnd EXCEPT ![c] = "disposed"] /\ Accepted(c) /\ Fault
      /\ UNCHANGED <<vars, truth, missed, running, queue, dropped, reported, wire, writing>>
  BY DEF StopClient, sinkVars
<1>3. PICK n \in 0 .. Len(buffer[c]) : buffer' = [buffer EXCEPT ![c] = SubSeq(@, 1, n)]
  BY DEF StopClient
<1>4. PICK a \in Seq(Carried) : a = buffer[c] BY <1>1 DEF WayFits
<1>5. PICK m \in Nat : m = Len(a) BY LenProperties
<1>6. n \in 0 .. m BY <1>3, <1>4, <1>5
<1>7. PICK b : b = SubSeq(a, 1, n) OBVIOUS
<1>8. \A i \in 1 .. n : a[i] \in Carried
  <2>1. \A i \in 1 .. m : a[i] \in Carried BY <1>5, ElementOfSeq
  <2>2. QED BY <1>5, <1>6, <2>1
<1>9. b \in Seq(Carried) /\ Len(b) = n /\ \A i \in 1 .. n : b[i] = a[i]
  <2>1. n \in Int /\ 1 \in Int /\ n - 1 + 1 = n BY <1>5, <1>6
  <2>2. /\ b \in Seq(Carried) /\ Len(b) = (IF 1 <= n THEN n - 1 + 1 ELSE 0)
        /\ \A i \in 1 .. n - 1 + 1 : b[i] = a[1 + i - 1]
    BY <1>7, <1>8, <2>1, SubSeqProperties
  <2>3. \A i \in 1 .. n : 1 + i - 1 = i BY <1>5, <1>6
  <2>4. QED BY <1>5, <1>6, <2>1, <2>2, <2>3
<1>10. DOMAIN b = 1 .. n /\ DOMAIN a = 1 .. m BY <1>5, <1>9, LenProperties
<1>11. \A i \in DOMAIN b : i \in DOMAIN a /\ b[i] = a[i] BY <1>5, <1>6, <1>9, <1>10
<1>12. buffer' = [buffer EXCEPT ![c] = b] BY <1>3, <1>4, <1>7
<1>13. phase[c] # "closed"
       /\ (phase[c] # "new" \/ writing[c] \/ buffer[c] # <<>> \/ serverEnd[c] # "open")
  BY <1>2 DEF Accepted
<1>14. faults' \in Nat BY <1>1, <1>2, FaultFits
<1>15. QED BY <1>2, <1>4, <1>9, <1>11, <1>12, <1>13, <1>14, BreakingStaysSound

LEMMA RestartStaysSound ==
  ASSUME WayInv, Restart
  PROVE  WayInv'
<1>1. /\ EngineInv /\ WayFits /\ OneSession /\ \A d \in Conns : BufferSound(d)
      /\ OnlyWire /\ OnItsWay /\ NothingHeard /\ LossIsKnown
  BY DEF WayInv
<1>2. /\ phase' = [c \in Conns |-> IF Accepted(c) \/ phase[c] = "closed" THEN "closed" ELSE "new"]
      /\ serverEnd' = [c \in Conns |-> IF phase'[c] = "closed" THEN "disposed" ELSE "open"]
      /\ buffer' = [c \in Conns |-> <<>>] /\ Fault
      /\ UNCHANGED <<truth, missed, running, queue, dropped, reported, wire, writing>>
  BY DEF Restart, sinkVars
<1>3. Fresh' BY <1>2 DEF Restart, Fresh
<1>4. EngineInv' BY <1>3, FreshNext
<1>5. OneSession' BY <1>3 DEF Fresh, OneSession
<1>6. heard'[Session] = Silence BY <1>3, PathConstants DEF Fresh
<1>7. faults' \in Nat BY <1>1, <1>2, FaultFits
<1>8. PICK b \in Seq(Carried) : b = <<>> BY EmptySeq
<1>9. buffer' = [c \in Conns |-> b] /\ DOMAIN b = {} BY <1>2, <1>8
<1>10. WayFits' BY <1>1, <1>2, <1>7, <1>9 DEF WayFits
<1>11. phase \in [Conns -> {"new", "open", "closed"}] BY <1>1 DEF EngineInv, ReadersFit
<1>12. \A c \in Conns : c = wire => phase'[c] = "closed" /\ serverEnd'[c] = "disposed"
  BY <1>1, <1>2, <1>11 DEF Accepted, WayFits
<1>13. \A c \in Conns : BufferSound(c)' BY <1>2, <1>8, <1>9, <1>12 DEF BufferSound
<1>14. OnlyWire'
  <2> SUFFICES ASSUME dropped = 0, NEW c \in Conns, c # wire
               PROVE  phase'[c] = "new" /\ buffer'[c] = <<>> /\ serverEnd'[c] = "open"
    BY <1>2 DEF OnlyWire
  <2>1. phase[c] = "new" /\ buffer[c] = <<>> /\ serverEnd[c] = "open" BY <1>1 DEF OnlyWire
  <2>2. ~writing[c] BY <1>1 DEF WayFits
  <2>3. ~Accepted(c) BY <2>1, <2>2 DEF Accepted
  <2>4. QED BY <1>2, <2>1, <2>3
<1>15. wire # NoConn => ~Alive' BY <1>1, <1>2, <1>12 DEF Alive, WayFits
<1>16. OnItsWay'
  <2> SUFFICES ASSUME dropped = 0, ~missed, Alive'
               PROVE  Leads(heard'[Session], InFlight', truth)
    BY <1>2 DEF OnItsWay
  <2>1. wire = NoConn BY <1>15
  <2>2. Alive BY <2>1 DEF Alive
  <2>3. InFlight' = InFlight BY <1>2, <2>1 DEF InFlight
  <2>4. heard[Session] = Silence BY <1>1, <2>1 DEF NothingHeard
  <2>5. QED BY <1>1, <1>6, <2>2, <2>3, <2>4 DEF OnItsWay
<1>17. NothingHeard' BY <1>6 DEF NothingHeard
<1>18. LossIsKnown' BY <1>2, <1>15 DEF LossIsKnown
<1>19. QED BY <1>4, <1>5, <1>10, <1>13, <1>14, <1>16, <1>17, <1>18 DEF WayInv

(* The timer and the transition queue.                                     *)
LEMMA TimerStaysSound ==
  ASSUME WayInv, EngineInv', UNCHANGED <<tracked, owner, phase, heard, disturbed, evicted>>,
         UNCHANGED <<truth, missed, running, queue, dropped, reported, wire, writing, buffer,
                     serverEnd, faults>>
  PROVE  WayInv'
<1>1. /\ EngineInv /\ WayFits /\ OneSession /\ \A d \in Conns : BufferSound(d)
      /\ OnlyWire /\ OnItsWay /\ NothingHeard /\ LossIsKnown
  BY DEF WayInv
<1>2. WayFits' BY <1>1 DEF WayFits
<1>3. OneSession' BY <1>1 DEF OneSession
<1>4. \A c \in Conns : BufferSound(c)' BY <1>1, BuffersStay
<1>5. OnlyWire' /\ OnItsWay' /\ NothingHeard' /\ LossIsKnown'
  BY <1>1 DEF OnlyWire, OnItsWay, NothingHeard, LossIsKnown, Alive, InFlight
<1>6. QED BY <1>2, <1>3, <1>4, <1>5 DEF WayInv

LEMMA EngineStaysSound ==
  ASSUME WayInv, Engine
  PROVE  WayInv'
<1>1. EngineInv BY DEF WayInv
<1>2. UNCHANGED <<truth, missed, running, queue, dropped, reported, wire, writing, buffer,
                  serverEnd, faults>>
  BY DEF Engine, sinkVars, pipeVars
<1>3. CASE Tick
  <2>1. EngineInv' BY <1>1, <1>3, TickStaysSound
  <2>2. UNCHANGED <<tracked, owner, phase, heard, disturbed, evicted>> BY <1>3 DEF Tick
  <2>3. QED BY <1>2, <2>1, <2>2, TimerStaysSound
<1>4. CASE EnqueueCount \/ EnqueueShed
  <2>1. EngineInv' BY <1>1, <1>4, QueueStaysSound
  <2>2. UNCHANGED <<tracked, owner, phase, heard, disturbed, evicted>>
    BY <1>4 DEF EnqueueCount, EnqueueShed, registry, history
  <2>3. QED BY <1>2, <2>1, <2>2, TimerStaysSound
<1>5. QED BY <1>3, <1>4 DEF Engine

LEMMA StutterStaysSound == ASSUME WayInv, UNCHANGED allVars PROVE WayInv'
<1>1. EngineInv BY DEF WayInv
<1>2. UNCHANGED vars
      /\ UNCHANGED <<truth, missed, running, queue, dropped, reported, wire, writing, buffer,
                     serverEnd, faults>>
  BY DEF allVars, sinkVars, pipeVars
<1>3. EngineInv' BY <1>1, <1>2, EngineIdle
<1>4. UNCHANGED <<tracked, owner, phase, heard, disturbed, evicted>>
  BY <1>2 DEF vars, registry, history
<1>5. QED BY <1>2, <1>3, <1>4, TimerStaysSound

LEMMA WayStartsSound == ASSUME E2EInit PROVE WayInv
<1>1. Init /\ truth = Silence /\ running = FALSE /\ missed = FALSE
      /\ queue = <<>> /\ dropped = 0 /\ reported = 0 /\ wire = NoConn
      /\ writing = [c \in Conns |-> FALSE]
      /\ buffer = [c \in Conns |-> <<>>] /\ serverEnd = [c \in Conns |-> "open"] /\ faults = 0
  BY DEF E2EInit
<1>2. EngineInv BY <1>1, StartsSound
<1>3. tracked = {} /\ evicted = {} /\ owner = [c \in Conns |-> NoKey]
      /\ phase = [c \in Conns |-> "new"] /\ heard = [k \in Keys |-> Silence]
  BY <1>1 DEF Init
<1>4. Silence \in Playback BY DEF Silence, Playback
<1>5. PICK b \in Seq(Carried) : b = <<>> BY EmptySeq
<1>6. buffer = [c \in Conns |-> b] /\ DOMAIN b = {} BY <1>1, <1>5
<1>7. queue \in Seq(Commands) BY <1>1, EmptySeq
<1>8. WayFits
  <2>1. /\ writing \in [Conns -> BOOLEAN] /\ \A c \in Conns : writing[c] <=> c = wire
        /\ serverEnd \in [Conns -> {"open", "failed", "disposed"}]
    BY <1>1, PathConstants
  <2>2. buffer \in [Conns -> Seq(Carried)] BY <1>6
  <2>3. truth \in Playback BY <1>1, <1>4, Zenon
  <2>4. missed \in BOOLEAN /\ running \in BOOLEAN BY <1>1
  <2>5. faults \in Nat /\ dropped \in Nat /\ reported \in Nat /\ reported <= dropped
    BY <1>1
  <2>6. wire \in Conns \union {NoConn} BY <1>1
  <2>7. QED BY <1>7, <2>1, <2>2, <2>3, <2>4, <2>5, <2>6 DEF WayFits
<1>9. OneSession BY <1>3 DEF OneSession
<1>10. \A c \in Conns : BufferSound(c)
  <2> TAKE c \in Conns
  <2>1. c # wire /\ phase[c] = "new" /\ buffer[c] = b BY <1>1, <1>3, <1>6, <1>8, NoWire
  <2>2. DOMAIN b = {} BY <1>6
  <2>3. QED BY <1>5, <2>1, <2>2 DEF BufferSound
<1>11. OnlyWire BY <1>1, <1>3 DEF OnlyWire
<1>12. OnItsWay
  <2>1. heard[Session] = truth /\ InFlight = <<>> BY <1>1, <1>3, PathConstants DEF InFlight
  <2>2. QED BY <1>1, <1>4, <2>1, LeadsNowhere DEF OnItsWay
<1>13. NothingHeard BY <1>3, PathConstants DEF NothingHeard
<1>14. LossIsKnown BY <1>1 DEF LossIsKnown
<1>15. QED BY <1>2, <1>8, <1>9, <1>10, <1>11, <1>12, <1>13, <1>14 DEF WayInv

LEMMA WayInvariant == E2ESpec => []WayInv
<1>1. ASSUME WayInv, [E2ENext]_allVars PROVE WayInv'
  <2>1. ASSUME NEW f \in Commands, Emit(f) PROVE WayInv' BY <1>1, <2>1, EmitStaysSound
  <2>2. CASE StartSink BY <1>1, <2>2, StartSinkStaysSound
  <2>3. CASE OpenFails BY <1>1, <2>3, OpenFailsStaysSound
  <2>4. CASE Send BY <1>1, <2>4, SendStaysSound
  <2>5. CASE SendFails BY <1>1, <2>5, SendFailsStaysSound
  <2>6. CASE Notify BY <1>1, <2>6, NotifyStaysSound
  <2>7. CASE NotifyFails BY <1>1, <2>7, NotifyFailsStaysSound
  <2>8. ASSUME NEW c \in Conns, Open(c) PROVE WayInv' BY <1>1, <2>8, OpenStaysSound
  <2>9. ASSUME NEW c \in Conns, Read(c) PROVE WayInv' BY <1>1, <2>9, ReadStaysSound
  <2>10. ASSUME NEW c \in Conns, Leaving(c) PROVE WayInv' BY <1>1, <2>10, LeavingStaysSound
  <2>11. ASSUME NEW c \in Conns, LeavingUnknown(c) PROVE WayInv'
    BY <1>1, <2>11, LeavingUnknownStaysSound
  <2>12. ASSUME NEW c \in Conns, Dispose(c) PROVE WayInv' BY <1>1, <2>12, DisposeStaysSound
  <2>13. ASSUME NEW c \in Conns, ReadFails(c) PROVE WayInv' BY <1>1, <2>13, ReadFailsStaysSound
  <2>14. ASSUME NEW c \in Conns, StopClient(c) PROVE WayInv' BY <1>1, <2>14, StopClientStaysSound
  <2>15. CASE Restart BY <1>1, <2>15, RestartStaysSound
  <2>16. CASE Engine BY <1>1, <2>16, EngineStaysSound
  <2>17. CASE UNCHANGED allVars BY <1>1, <2>17, StutterStaysSound
  <2>18. QED
    BY <1>1, <2>1, <2>2, <2>3, <2>4, <2>5, <2>6, <2>7, <2>8, <2>9, <2>10, <2>11, <2>12, <2>13,
       <2>14, <2>15, <2>16, <2>17 DEF E2ENext
<1>2. QED BY <1>1, WayStartsSound, PTL DEF E2ESpec

(* Whenever nothing is on its way, a session shown as reliable is shown as *)
(* the game has left it, whatever broke, was discarded or was restarted:   *)
(* for any calls of the game, any sizes of queue and limits, and any number*)
(* of faults.                                                              *)
THEOREM FailsClosed == E2ESpec => []FailClosed
<1>1. ASSUME WayInv PROVE FailClosed
  <2>1. /\ EngineInv /\ WayFits /\ OneSession
        /\ OnItsWay /\ LossIsKnown
    BY <1>1 DEF WayInv
  <2> SUFFICES ASSUME Settled, DataReliable(Session), ~missed PROVE Shown = truth
    BY DEF FailClosed
  <2>2. /\ wire # NoConn /\ phase[wire] = "open" /\ serverEnd[wire] = "open"
        /\ queue = <<>> /\ reported = dropped /\ \A c \in Conns : buffer[c] = <<>>
    BY DEF Settled
  <2>3. ~sourceDrops /\ sources[Session].issues = {} BY DEF DataReliable, EstimateReliable
  <2>4. Session \notin disturbed /\ Now(sources[Session]) = heard[Session]
    BY <2>1, <2>3, PathConstants DEF EngineInv, AllHeard, Undisturbed, OneSession
  <2>5. Alive /\ wire \in Conns BY <2>1, <2>2 DEF Alive, WayFits
  <2>6. PICK b : b = <<>> OBVIOUS
  <2>7. DOMAIN b = {} /\ buffer[wire] = b BY <2>2, <2>5, <2>6
  <2>8. ~(reported > 0) BY <2>1, <2>2, <2>4, <2>5, <2>7 DEF LossIsKnown
  <2>9. dropped = 0 BY <2>1, <2>2, <2>8 DEF WayFits
  <2>10. InFlight = <<>>
    <3>1. PICK e \in Seq(Carried) : e = <<>> BY EmptySeq
    <3>2. e \o <<>> = e BY ConcatEmptySeq
    <3>3. InFlight = e \o <<>> BY <2>2, <2>5, <3>1 DEF InFlight
    <3>4. QED BY <3>1, <3>2, <3>3
  <2>11. heard[Session] = truth BY <2>1, <2>5, <2>9, <2>10, LeadsHere DEF OnItsWay
  <2>12. QED BY <2>4, <2>11 DEF Shown, Now, Play
<1>2. QED BY <1>1, WayInvariant, PTL

(***************************************************************************)
(* A session without a cause for doubt.                                    *)
(***************************************************************************)

(* The game stays within the limits of the engine and starts no effect by  *)
(* a button, which telemetry does not report.                              *)
Roomy ==
  /\ MaximumSources > 0
  /\ Cardinality(Devices) <= MaximumDevices /\ Cardinality(Effects) <= MaximumEffects
  /\ \A f \in Commands : f.type \in {"EffectCreated", "EffectParameters"} => f.trigger # "button"

(* No new issue, and no effect that a button may start.                    *)
Keeps(s, t) ==
  t \in Sources /\ t.issues = s.issues /\ (s.triggered = {} => t.triggered = {})

LEMMA RoomForAll ==
  ASSUME Roomy, NEW s, Bounded(s)
  PROVE  (\A d \in Devices : DeviceRoom(s, d)) /\ (\A e \in Effects : EffectRoom(s, e))
<1>1. s.devices \subseteq Devices /\ s.effects \subseteq Effects BY DEF Bounded, Sources
<1>2. IsFiniteSet(Devices) /\ IsFiniteSet(Effects) BY DevicesAreFinite, EngineConstants
<1>3. ASSUME NEW S, IsFiniteSet(S), NEW T \in SUBSET S, NEW x \in S \ T
      PROVE  Cardinality(T) < Cardinality(S)
  <2>1. IsFiniteSet(T) /\ Cardinality(T) <= Cardinality(S)
        /\ (Cardinality(S) = Cardinality(T) => S = T)
    BY <1>3, FS_Subset
  <2>2. Cardinality(T) \in Nat /\ Cardinality(S) \in Nat BY <1>3, <2>1, FS_CardinalityType
  <2>3. S # T OBVIOUS
  <2>4. QED BY <2>1, <2>2, <2>3
<1>4. Cardinality(Devices) \in Nat /\ Cardinality(Effects) \in Nat
  BY <1>2, FS_CardinalityType
<1>5. Cardinality(s.devices) \in Nat /\ Cardinality(s.effects) \in Nat
  BY BoundedIsFinite, FS_CardinalityType
<1>6. ASSUME NEW d \in Devices PROVE DeviceRoom(s, d)
  <2>1. d \notin s.devices => Cardinality(s.devices) < Cardinality(Devices) BY <1>1, <1>2, <1>3
  <2>2. QED BY <1>4, <1>5, <2>1, EngineConstants DEF DeviceRoom, Roomy
<1>7. ASSUME NEW e \in Effects PROVE EffectRoom(s, e)
  <2>1. e \notin s.effects => Cardinality(s.effects) < Cardinality(Effects) BY <1>1, <1>2, <1>3
  <2>2. e[1] \in Devices BY DEF Devices
  <2>3. QED BY <1>4, <1>5, <1>6, <2>1, <2>2, EngineConstants DEF EffectRoom, Roomy
<1>8. QED BY <1>6, <1>7

LEMMA TrackingKeeps ==
  ASSUME Roomy, NEW s, Bounded(s)
  PROVE  /\ \A d \in Devices : Keeps(s, WithDevice(s, d))
         /\ \A e \in Effects : Keeps(s, WithEffect(s, e))
<1>1. s \in Sources BY DEF Bounded
<1>2. ASSUME NEW d \in Devices PROVE Keeps(s, WithDevice(s, d))
  <2>1. DeviceRoom(s, d) BY RoomForAll
  <2>2. QED BY <1>1, <2>1 DEF Keeps, WithDevice, Sources
<1>3. ASSUME NEW e \in Effects PROVE Keeps(s, WithEffect(s, e))
  <2>1. EffectRoom(s, e) /\ e[1] \in Devices BY RoomForAll DEF Devices
  <2>2. QED BY <1>1, <2>1 DEF Keeps, WithEffect, Sources
<1>4. QED BY <1>2, <1>3

LEMMA PlayingKeeps ==
  ASSUME NEW s, NEW t, Keeps(s, t)
  PROVE  /\ \A e \in Effects : Keeps(s, Begin(t, e))
         /\ \A E : Keeps(s, StopEffects(t, E))
         /\ \A e \in Effects, trigger \in Triggers \ {"button"} : Keeps(s, SetTrigger(t, e, trigger))
<1>1. t \in Sources BY DEF Keeps
<1>2. ASSUME NEW e \in Effects PROVE Keeps(s, Begin(t, e))
  BY <1>1 DEF Keeps, Begin, Sources
<1>3. ASSUME NEW E PROVE Keeps(s, StopEffects(t, E))
  <2>1. PICK a : a = t.started \ E OBVIOUS
  <2>2. a \subseteq Effects BY <1>1, <2>1 DEF Sources
  <2>3. StopEffects(t, E) = [t EXCEPT !.started = a] BY <2>1 DEF StopEffects
  <2>4. QED BY <1>1, <2>2, <2>3 DEF Keeps, Sources
<1>4. ASSUME NEW e \in Effects, NEW trigger \in Triggers \ {"button"}
      PROVE  Keeps(s, SetTrigger(t, e, trigger))
  <2>1. PICK a : a = CASE trigger = "button" -> t.triggered \union {e}
                       [] trigger = "none"   -> t.triggered \ {e}
                       [] trigger = "absent" -> t.triggered
    OBVIOUS
  <2>2. a \subseteq t.triggered BY <2>1 DEF Triggers
  <2>3. SetTrigger(t, e, trigger) = [t EXCEPT !.triggered = a] BY <2>1 DEF SetTrigger
  <2>4. QED BY <1>1, <2>2, <2>3 DEF Keeps, Sources
<1>5. QED BY <1>2, <1>3, <1>4

LEMMA CommandKeeps ==
  ASSUME Roomy, NEW s, Bounded(s), NEW f \in AnyFrame, f.type = "DeviceCommand"
  PROVE  Keeps(s, DeviceCommand(s, f))
<1>1. PICK d \in Devices : d = f.device BY DEF AnyFrame
<1>2. PICK B : B = f.bits OBVIOUS
<1>3. PICK device : device = WithDevice(s, d) OBVIOUS
<1>4. DeviceRoom(s, d) /\ Keeps(s, device) BY <1>3, RoomForAll, TrackingKeeps
<1>5. PICK halted : halted = StopEffects(device, OnDevice(d)) OBVIOUS
<1>6. Keeps(s, halted) BY <1>4, <1>5, PlayingKeeps
<1>7. PICK stopped : stopped = IF B \intersect {"Reset", "StopAll"} # {}
                               THEN [halted EXCEPT !.paused = @ \ {d}] ELSE device
  OBVIOUS
<1>8. Keeps(s, stopped) BY <1>4, <1>6, <1>7 DEF Keeps, Sources
<1>9. PICK p : p = IF "Pause" \in B THEN stopped.paused \union {d} ELSE stopped.paused OBVIOUS
<1>10. PICK q : q = IF "Continue" \in B THEN p \ {d} ELSE p OBVIOUS
<1>11. PICK m : m = IF B \intersect {"Reset", "Off"} # {} THEN s.muted \union {d} ELSE s.muted
  OBVIOUS
<1>12. PICK n : n = IF "On" \in B THEN m \ {d} ELSE m OBVIOUS
<1>13. q \subseteq Devices /\ n \subseteq Devices
  <2>1. stopped.paused \subseteq Devices /\ s.muted \subseteq Devices
    BY <1>8 DEF Keeps, Bounded, Sources
  <2>2. QED BY <1>9, <1>10, <1>11, <1>12, <2>1
<1>14. DeviceCommand(s, f) = [stopped EXCEPT !.paused = q, !.muted = n]
  BY <1>1, <1>2, <1>3, <1>4, <1>5, <1>7, <1>9, <1>10, <1>11, <1>12, Zenon DEF DeviceCommand
<1>15. QED BY <1>8, <1>13, <1>14 DEF Keeps, Sources

LEMMA ApplyKeeps ==
  ASSUME Roomy, NEW s, Bounded(s), NEW f \in Commands
  PROVE  Keeps(s, Apply(s, f))
<1>1. f \in AnyFrame /\ f.type # "DropNotice" BY PathConstants
<1>2. Keeps(s, s) BY DEF Keeps, Bounded
<1>3. CASE f.type = "Failed" BY <1>2, <1>3 DEF Apply
<1>4. CASE f.type = "DeviceCreated"
  <2>1. f.device \in Devices BY <1>1, <1>4 DEF AnyFrame
  <2>2. QED BY <1>4, <2>1, TrackingKeeps DEF Apply
<1>5. CASE f.type = "EffectCreated"
  <2>1. PICK e \in Effects : e = f.effect BY <1>1, <1>5 DEF AnyFrame
  <2>2. PICK trigger \in Triggers \ {"button"} : trigger = f.trigger
    BY <1>1, <1>5 DEF AnyFrame, Roomy
  <2>3. EffectRoom(s, e) BY RoomForAll
  <2>4. PICK t : t = WithEffect(s, e) OBVIOUS
  <2>5. PICK u : u = StopEffects(t, {e}) OBVIOUS
  <2>6. PICK v : v = [u EXCEPT !.triggered = @ \ {e}] OBVIOUS
  <2>7. Keeps(s, t) BY <2>4, TrackingKeeps
  <2>8. Keeps(s, u) BY <2>5, <2>7, PlayingKeeps
  <2>9. Keeps(s, v) BY <2>6, <2>8 DEF Keeps, Sources
  <2>10. EffectCreated(s, f) = SetTrigger(v, e, trigger)
    BY <2>1, <2>2, <2>3, <2>4, <2>5, <2>6, Zenon DEF EffectCreated
  <2>11. QED BY <1>5, <2>9, <2>10, PlayingKeeps, Zenon DEF Apply
<1>6. CASE f.type = "EffectParameters"
  <2>1. PICK e \in Effects : e = f.effect BY <1>1, <1>6 DEF AnyFrame
  <2>2. PICK trigger \in Triggers \ {"button"} : trigger = f.trigger
    BY <1>1, <1>6 DEF AnyFrame, Roomy
  <2>3. EffectRoom(s, e) BY RoomForAll
  <2>4. PICK t : t = SetTrigger(WithEffect(s, e), e, trigger) OBVIOUS
  <2>5. Keeps(s, WithEffect(s, e)) BY TrackingKeeps
  <2>6. Keeps(s, t) /\ Keeps(s, Begin(t, e)) BY <2>4, <2>5, PlayingKeeps, Zenon
  <2>7. EffectParameters(s, f) = IF f.start THEN Begin(t, e) ELSE t
    BY <2>1, <2>2, <2>3, <2>4, Zenon DEF EffectParameters
  <2>8. Apply(s, f) = EffectParameters(s, f) BY <1>6 DEF Apply
  <2>9. QED BY <2>6, <2>7, <2>8
<1>7. CASE f.type = "Start"
  <2>1. PICK e \in Effects : e = f.effect BY <1>1, <1>7 DEF AnyFrame
  <2>2. EffectRoom(s, e) BY RoomForAll
  <2>3. PICK others : others = IF f.solo THEN OnDevice(e[1]) \ {e} ELSE {} OBVIOUS
  <2>4. PICK t : t = StopEffects(WithEffect(s, e), others) OBVIOUS
  <2>5. Keeps(s, WithEffect(s, e)) BY TrackingKeeps
  <2>6. Keeps(s, t) BY <2>4, <2>5, PlayingKeeps, Zenon
  <2>7. Keeps(s, Begin(t, e)) BY <2>6, PlayingKeeps, Zenon
  <2>8. StartEffect(s, f) = Begin(t, e) BY <2>1, <2>2, <2>3, <2>4, Zenon DEF StartEffect
  <2>9. Apply(s, f) = StartEffect(s, f) BY <1>7 DEF Apply
  <2>10. QED BY <2>7, <2>8, <2>9
<1>8. CASE f.type = "Stop"
  <2>1. Apply(s, f) = StopEffects(s, {f.effect}) BY <1>8 DEF Apply
  <2>2. QED BY <1>2, <2>1, PlayingKeeps
<1>9. CASE f.type = "Release"
  <2>1. Apply(s, f) = ReleaseEffect(s, f.effect) BY <1>9 DEF Apply
  <2>2. s \in Sources BY DEF Bounded
  <2>3. QED BY <2>1, <2>2 DEF Keeps, ReleaseEffect, Sources
<1>10. CASE f.type = "DeviceCommand"
  <2>1. Apply(s, f) = DeviceCommand(s, f) BY <1>10 DEF Apply
  <2>2. QED BY <1>1, <1>10, <2>1, CommandKeeps
<1>11. QED BY <1>1, <1>3, <1>4, <1>5, <1>6, <1>7, <1>8, <1>9, <1>10 DEF AnyFrame

(* Until something is lost or fails, the engine has no cause for doubt and *)
(* no reader has come to an end or is to read of a loss.                   *)
Quiet(c) ==
  /\ phase[c] # "closed" /\ serverEnd[c] = "open"
  /\ \A i \in DOMAIN buffer[c] : buffer[c][i] \notin Notices

Untroubled ==
  dropped = 0 /\ faults = 0 =>
    /\ ~sourceDrops /\ sources[Session].issues = {} /\ sources[Session].triggered = {}
    /\ \A c \in Conns : Quiet(c)

LEMMA FaultTells == ASSUME WayFits, Fault PROVE faults' # 0
BY DEF WayFits, Fault

(* What the engine does not notice, and what puts no notice in a pipe.     *)
LEMMA QuietStays ==
  ASSUME Untroubled, dropped' = 0 /\ faults' = 0 => dropped = 0 /\ faults = 0, UNCHANGED vars,
         \A c \in Conns : /\ serverEnd'[c] = serverEnd[c]
                          /\ \A i \in DOMAIN buffer'[c] :
                               \/ buffer'[c][i] \notin Notices
                               \/ i \in DOMAIN buffer[c] /\ buffer'[c][i] = buffer[c][i]
  PROVE  Untroubled'
<1>1. UNCHANGED <<sources, sourceDrops, phase>> BY DEF vars, registry
<1> SUFFICES ASSUME dropped' = 0, faults' = 0
             PROVE  /\ ~sourceDrops' /\ sources'[Session].issues = {}
                    /\ sources'[Session].triggered = {} /\ \A c \in Conns : Quiet(c)'
  BY DEF Untroubled
<1>2. /\ ~sourceDrops /\ sources[Session].issues = {} /\ sources[Session].triggered = {}
      /\ \A c \in Conns : Quiet(c)
  BY DEF Untroubled
<1>3. \A c \in Conns : Quiet(c)' BY <1>1, <1>2 DEF Quiet
<1>4. QED BY <1>1, <1>2, <1>3

LEMMA SinkStaysQuiet ==
  ASSUME WayInv, Untroubled,
         (\E f \in Commands : Emit(f)) \/ StartSink \/ OpenFails \/ SendFails \/ NotifyFails
  PROVE  Untroubled'
<1>1. WayFits BY DEF WayInv
<1>2. dropped \in Nat /\ reported \in Nat /\ reported <= dropped BY <1>1 DEF WayFits
<1>3. CASE (\E f \in Commands : Emit(f)) \/ StartSink
  <2>1. UNCHANGED <<vars, buffer, serverEnd, faults>> /\ dropped' \in {dropped, dropped + 1}
    BY <1>3 DEF Emit, StartSink, pipeVars
  <2>2. dropped' = 0 => dropped = 0 BY <1>2, <2>1
  <2>3. QED BY <2>1, <2>2, QuietStays
<1>4. CASE OpenFails
  <2>1. faults' # 0 BY <1>1, <1>4, FaultTells DEF OpenFails
  <2>2. QED BY <2>1 DEF Untroubled
<1>5. CASE SendFails
  <2>1. dropped' # 0 BY <1>1, <1>5, LosingFits DEF SendFails
  <2>2. QED BY <2>1 DEF Untroubled
<1>6. CASE NotifyFails
  <2>1. dropped' # 0 BY <1>2, <1>6 DEF NotifyFails, NoticeIsDue
  <2>2. QED BY <2>1 DEF Untroubled
<1>7. QED BY <1>3, <1>4, <1>5, <1>6

LEMMA WritingStaysQuiet ==
  ASSUME WayInv, Untroubled, (\E c \in Conns : Open(c)) \/ Send \/ Notify
  PROVE  Untroubled'
<1>1. WayFits /\ \A c \in Conns : BufferSound(c) BY DEF WayInv
<1>2. dropped \in Nat /\ reported \in Nat /\ reported <= dropped BY <1>1 DEF WayFits
<1>3. ASSUME NEW c \in Conns, Open(c) PROVE Untroubled'
  <2>1. buffer' = [buffer EXCEPT ![c] = <<Hello>>]
        /\ UNCHANGED <<vars, serverEnd, dropped, faults>>
    BY <1>3 DEF Open
  <2>2. PICK h : h = <<Hello>> OBVIOUS
  <2>3. \A i \in DOMAIN h : h[i] \notin Notices BY <2>2, CarriedKinds
  <2>4. buffer'[c] = h /\ \A d \in Conns \ {c} : buffer'[d] = buffer[d]
    BY <1>1, <2>1, <2>2 DEF WayFits
  <2>5. QED BY <2>1, <2>3, <2>4, QuietStays
<1>4. CASE Notify
  <2>1. dropped' # 0 BY <1>2, <1>4 DEF Notify, NoticeIsDue
  <2>2. QED BY <2>1 DEF Untroubled
<1>5. CASE Send
  <2>1. wire # NoConn /\ queue # <<>> /\ Put(wire, Head(queue))
        /\ UNCHANGED <<vars, wire, serverEnd, dropped, faults>>
    BY <1>5 DEF Send, CanWrite
  <2>2. PICK f \in Commands : f = Head(queue)
    BY <1>1, <2>1, HeadTailProperties DEF WayFits
  <2>3. f \notin Notices BY <2>2, CarriedKinds, PathConstants
  <2>4. wire \in Conns /\ buffer \in [Conns -> Seq(Carried)] BY <1>1, <2>1 DEF WayFits
  <2>5. PICK b \in Seq(Carried) : b = buffer[wire] BY <2>4
  <2>6. PICK r : r = Append(b, f) OBVIOUS
  <2>7. PICK n \in Nat : n = Len(b) BY LenProperties
  <2>8. f \in Carried BY CarriedKinds
  <2>9. r \in Seq(Carried) /\ Len(r) = n + 1 /\ r[n + 1] = f /\ \A i \in 1 .. n : r[i] = b[i]
    BY <2>6, <2>7, <2>8, AppendProperties
  <2>10. DOMAIN r = 1 .. n + 1 /\ DOMAIN b = 1 .. n BY <2>7, <2>9, LenProperties
  <2>11. \A i \in DOMAIN r : r[i] \notin Notices \/ (i \in DOMAIN b /\ r[i] = b[i])
    <3>1. \A i \in 1 .. n + 1 : i = n + 1 \/ i \in 1 .. n OBVIOUS
    <3>2. QED BY <2>3, <2>9, <2>10, <3>1
  <2>12. buffer' = buffer \/ buffer' = [buffer EXCEPT ![wire] = r]
    BY <2>1, <2>2, <2>5, <2>6 DEF Put
  <2>13. \A d \in Conns : buffer'[d] = buffer[d] \/ (d = wire /\ buffer'[d] = r)
    BY <2>4, <2>12
  <2>14. QED BY <2>1, <2>5, <2>11, <2>13, QuietStays
<1>6. QED BY <1>3, <1>4, <1>5

(* The only session always finds room.                                     *)
LEMMA JoiningStaysQuiet ==
  ASSUME Roomy, EngineInv, OneSession, NEW c \in Conns, Connect(Session, c)
  PROVE  /\ UNCHANGED sourceDrops
         /\ sources'[Session].issues = sources[Session].issues
         /\ sources'[Session].triggered = sources[Session].triggered
<1>1. tracked \subseteq {Session} /\ sources[Session] \in Sources
      /\ sources \in [Keys -> Sources]
  BY PathConstants DEF OneSession, EngineInv, SourcesFit
<1>2. Join(Session, c) BY DEF Connect
<1>3. PICK none : none = Victims(Session) OBVIOUS
<1>4. PICK kept : kept = tracked \ Victims(Session) OBVIOUS
<1>5. Session \in tracked \/ SourceRoom(kept)
  <2>1. CASE Session \notin tracked
    <3>1. kept = {} BY <1>1, <1>4, <2>1
    <3>2. QED BY <3>1, FS_EmptySet, EngineConstants DEF SourceRoom, Roomy
  <2>2. QED BY <2>1
<1>6. UNCHANGED sourceDrops
      /\ sources' = [l \in Keys |-> IF l = Session
                                    THEN [sources[Session] EXCEPT !.conns = @ \union {c}]
                                    ELSE IF l \in none THEN NewSource ELSE sources[l]]
  BY <1>2, <1>3, <1>4, <1>5, Zenon DEF Join
<1>7. sources'[Session] = [sources[Session] EXCEPT !.conns = @ \union {c}]
  BY <1>6, PathConstants
<1>8. QED BY <1>1, <1>6, <1>7 DEF Sources

LEMMA ReadingStaysQuiet ==
  ASSUME Roomy, WayInv, Untroubled, NEW c \in Conns, Read(c)
  PROVE  Untroubled'
<1>1. EngineInv /\ WayFits /\ OneSession /\ \A d \in Conns : BufferSound(d) BY DEF WayInv
<1>2. /\ buffer[c] # <<>> /\ buffer' = [buffer EXCEPT ![c] = Tail(@)]
      /\ UNCHANGED <<wire, serverEnd, queue, dropped, faults>>
  BY DEF Read, sinkVars
<1> SUFFICES ASSUME dropped' = 0, faults' = 0
             PROVE  /\ ~sourceDrops' /\ sources'[Session].issues = {}
                    /\ sources'[Session].triggered = {} /\ \A d \in Conns : Quiet(d)'
  BY DEF Untroubled
<1>3. /\ ~sourceDrops /\ sources[Session].issues = {} /\ sources[Session].triggered = {}
      /\ \A d \in Conns : Quiet(d)
  BY <1>2 DEF Untroubled
<1>4. phase \in [Conns -> {"new", "open", "closed"}] /\ owner \in [Conns -> {Session, NoKey}]
      /\ sources \in [Keys -> Sources] /\ Bounded(sources[Session])
  BY <1>1, PathConstants DEF EngineInv, ReadersFit, SourcesFit, OneSession
<1>5. PICK b \in Seq(Carried) : b = buffer[c] BY <1>1 DEF WayFits
<1>6. PICK h : h = Head(b) OBVIOUS
<1>7. PICK t : t = Tail(b) OBVIOUS
<1>8. PICK n \in Nat : n = Len(b) BY LenProperties
<1>9. b # <<>> /\ n # 0 /\ \A i \in 1 .. n : b[i] \notin Notices
  <2>1. b # <<>> /\ n # 0 BY <1>2, <1>5, <1>8, EmptySeq
  <2>2. DOMAIN b = 1 .. n BY <1>8, LenProperties
  <2>3. QED BY <1>3, <1>5, <2>1, <2>2 DEF Quiet
<1>10. h = b[1] /\ h \notin Notices /\ t \in Seq(Carried) /\ Len(t) = n - 1
       /\ \A i \in 1 .. n - 1 : t[i] = b[i + 1]
  BY <1>6, <1>7, <1>8, <1>9, HeadTailProperties
<1>11. \A i \in DOMAIN t : t[i] \notin Notices
  <2>1. DOMAIN t = 1 .. n - 1 BY <1>8, <1>10, LenProperties
  <2>2. \A i \in 1 .. n - 1 : i + 1 \in 1 .. n BY <1>8
  <2>3. QED BY <1>9, <1>10, <2>1, <2>2
<1>12. buffer'[c] = t /\ \A d \in Conns \ {c} : buffer'[d] = buffer[d]
  BY <1>1, <1>2, <1>5, <1>7 DEF WayFits
<1>13. ASSUME \A d \in Conns : phase'[d] # "closed" PROVE \A d \in Conns : Quiet(d)'
  BY <1>2, <1>3, <1>11, <1>12, <1>13 DEF Quiet
<1>14. CASE phase[c] = "new"
  <2>1. Connect(Session, c) BY <1>14 DEF Read
  <2>2. phase' = [phase EXCEPT ![c] = "open"] BY <2>1 DEF Connect
  <2>3. \A d \in Conns : phase'[d] # "closed" BY <1>3, <1>4, <2>2 DEF Quiet
  <2>4. QED BY <1>1, <1>3, <1>13, <2>1, <2>3, JoiningStaysQuiet
<1>15. CASE phase[c] # "new"
  <2>1. ProcessFrame(c, h) BY <1>5, <1>6, <1>15 DEF Read
  <2>2. /\ phase[c] = "open" /\ Receive(owner[c], h) /\ UNCHANGED <<sourceDrops, phase>>
    BY <2>1 DEF ProcessFrame
  <2>3. \A d \in Conns : Quiet(d)' BY <1>3, <1>13, <2>2 DEF Quiet
  <2>4. owner[c] = Session
    BY <1>1, <1>4, <2>2, EngineConstants DEF EngineInv, ReadersFit
  <2>5. h \in Commands
    <3>1. h # Hello
      <4>1. 1 \in DOMAIN b BY <1>8, <1>9, LenProperties
      <4>2. BufferSound(c) BY <1>1
      <4>3. QED BY <1>5, <1>10, <1>15, <4>1, <4>2 DEF BufferSound
    <3>2. h \in Carried BY <1>6, <1>9, HeadTailProperties
    <3>3. QED BY <1>10, <3>1, <3>2 DEF Carried
  <2>6. PICK after : after = Apply(sources[Session], h) OBVIOUS
  <2>7. Keeps(sources[Session], after) BY <1>4, <2>5, <2>6, ApplyKeeps
  <2>8. sources' = sources \/ sources' = [sources EXCEPT ![Session] = after]
    BY <2>2, <2>4, <2>6 DEF Receive
  <2>9. sources'[Session] = sources[Session] \/ sources'[Session] = after
    BY <1>4, <2>8, PathConstants
  <2>10. sources'[Session].issues = {} /\ sources'[Session].triggered = {}
    BY <1>3, <2>7, <2>9 DEF Keeps
  <2>11. QED BY <1>3, <2>2, <2>3, <2>10
<1>16. QED BY <1>14, <1>15

(* No reader comes to an end without a loss or a failure.                  *)
LEMMA EndingIsTold ==
  ASSUME WayInv, Untroubled, NEW c \in Conns,
         Leaving(c) \/ LeavingUnknown(c) \/ Dispose(c) \/ ReadFails(c) \/ StopClient(c)
  PROVE  Untroubled'
<1>1. WayFits /\ OnlyWire BY DEF WayInv
<1>2. CASE ReadFails(c) \/ StopClient(c)
  <2>1. faults' # 0 BY <1>1, <1>2, FaultTells DEF ReadFails, StopClient
  <2>2. QED BY <2>1 DEF Untroubled
<1>3. CASE Leaving(c) \/ LeavingUnknown(c) \/ Dispose(c)
  <2>1. UNCHANGED <<dropped, faults>> BY <1>3 DEF Leaving, LeavingUnknown, Dispose, sinkVars
  <2> SUFFICES ASSUME dropped = 0, faults = 0 PROVE FALSE BY <2>1 DEF Untroubled
  <2>2. phase[c] # "closed" /\ serverEnd[c] = "open" BY DEF Untroubled, Quiet
  <2>3. NothingMore(c) BY <1>3, <2>2 DEF Leaving, LeavingUnknown, Dispose
  <2>4. phase[c] = "open" /\ ~writing[c] BY <2>2, <2>3 DEF NothingMore
  <2>5. c # wire BY <1>1, <2>4 DEF WayFits
  <2>6. QED BY <1>1, <2>4, <2>5 DEF OnlyWire
<1>4. QED BY <1>2, <1>3

LEMMA EngineStaysQuiet ==
  ASSUME WayInv, Untroubled, Engine
  PROVE  Untroubled'
<1>1. UNCHANGED <<dropped, faults, buffer, serverEnd>> BY DEF Engine, sinkVars, pipeVars
<1>2. CASE EnqueueCount \/ EnqueueShed
  <2>1. UNCHANGED <<sources, sourceDrops, phase>>
    BY <1>2 DEF EnqueueCount, EnqueueShed, registry
  <2>2. QED BY <1>1, <2>1 DEF Untroubled, Quiet
<1>3. CASE Tick
  <2>1. sources \in [Keys -> Sources] BY DEF WayInv, EngineInv, SourcesFit
  <2>2. UNCHANGED <<sourceDrops, phase>> BY <1>3 DEF Tick
  <2>3. PICK C : sources' = ClippingAfterTick(C) BY <1>3 DEF Tick
  <2>4. PICK s \in Sources : s = sources[Session] BY <2>1, PathConstants
  <2>5. PICK v \in BOOLEAN : v <=> Session \in C OBVIOUS
  <2>6. sources'[Session] = s \/ sources'[Session] = [s EXCEPT !.clipping = v]
    BY <2>3, <2>4, <2>5, PathConstants, Zenon DEF ClippingAfterTick
  <2>7. sources'[Session].issues = s.issues /\ sources'[Session].triggered = s.triggered
    BY <2>4, <2>6 DEF Sources
  <2>8. QED BY <1>1, <2>2, <2>4, <2>7 DEF Untroubled, Quiet
<1>4. QED BY <1>2, <1>3 DEF Engine

LEMMA UntroubledStarts == ASSUME E2EInit PROVE Untroubled
<1>1. /\ sources = [k \in Keys |-> NewSource] /\ sourceDrops = FALSE
      /\ phase = [c \in Conns |-> "new"] /\ serverEnd = [c \in Conns |-> "open"]
      /\ buffer = [c \in Conns |-> <<>>]
  BY DEF E2EInit, Init
<1>2. sources[Session] = NewSource BY <1>1, PathConstants
<1>3. sources[Session].issues = {} /\ sources[Session].triggered = {} BY <1>2 DEF NewSource
<1>4. PICK b : b = <<>> OBVIOUS
<1>5. DOMAIN b = {} BY <1>4
<1>6. \A c \in Conns : Quiet(c) BY <1>1, <1>4, <1>5 DEF Quiet
<1>7. QED BY <1>1, <1>3, <1>6 DEF Untroubled

LEMMA UntroubledInvariant == Roomy => (E2ESpec => []Untroubled)
<1> SUFFICES ASSUME Roomy PROVE E2ESpec => []Untroubled OBVIOUS
<1>1. ASSUME WayInv, Untroubled, [E2ENext]_allVars PROVE Untroubled'
  <2>1. CASE (\E f \in Commands : Emit(f)) \/ StartSink \/ OpenFails \/ SendFails \/ NotifyFails
    BY <1>1, <2>1, SinkStaysQuiet
  <2>2. CASE (\E c \in Conns : Open(c)) \/ Send \/ Notify BY <1>1, <2>2, WritingStaysQuiet
  <2>3. ASSUME NEW c \in Conns, Read(c) PROVE Untroubled' BY <1>1, <2>3, ReadingStaysQuiet
  <2>4. ASSUME NEW c \in Conns,
               Leaving(c) \/ LeavingUnknown(c) \/ Dispose(c) \/ ReadFails(c) \/ StopClient(c)
        PROVE  Untroubled'
    BY <1>1, <2>4, EndingIsTold
  <2>5. CASE Restart
    <3>1. WayFits /\ Fault BY <1>1, <2>5 DEF WayInv, Restart
    <3>2. faults' # 0 BY <3>1, FaultTells
    <3>3. QED BY <3>2 DEF Untroubled
  <2>6. CASE Engine BY <1>1, <2>6, EngineStaysQuiet
  <2>7. CASE UNCHANGED allVars
    <3>1. UNCHANGED <<vars, dropped, faults, buffer, serverEnd>>
      BY <2>7 DEF allVars, sinkVars, pipeVars
    <3>2. QED BY <1>1, <3>1, QuietStays
  <2>8. QED BY <1>1, <2>1, <2>2, <2>3, <2>4, <2>5, <2>6, <2>7 DEF E2ENext
<1>2. QED BY <1>1, UntroubledStarts, WayInvariant, PTL DEF E2ESpec

(* In a game within the limits of the engine, a session of which nothing   *)
(* was lost and nothing has failed is shown as reliable as soon as nothing *)
(* is on its way: it is never called unreliable without a cause.           *)
THEOREM NoFalseAlarms == Roomy => (E2ESpec => []NoFalseAlarm)
<1>1. ASSUME WayInv, Untroubled PROVE NoFalseAlarm
  <2> SUFFICES ASSUME Settled, dropped = 0, faults = 0 PROVE DataReliable(Session)
    BY DEF NoFalseAlarm
  <2>1. ~sourceDrops /\ sources[Session].issues = {} /\ sources[Session].triggered = {}
    BY <1>1 DEF Untroubled
  <2>2. EngineInv /\ WayFits /\ OneSession BY <1>1 DEF WayInv
  <2>3. wire \in Conns /\ phase[wire] = "open" BY <2>2 DEF Settled, WayFits
  <2>4. owner[wire] = Session
    BY <2>2, <2>3, EngineConstants DEF EngineInv, ReadersFit, OneSession
  <2>5. sources[Session].conns = Readers(Session) /\ SourceSound(Session)
    BY <2>1, <2>2, PathConstants DEF EngineInv, AllHeard
  <2>6. wire \in sources[Session].conns BY <2>3, <2>4, <2>5 DEF Readers
  <2>7. Session \in tracked BY <2>5, <2>6 DEF SourceSound, NewSource
  <2>8. QED BY <2>1, <2>6, <2>7 DEF DataReliable, Connected, EstimateReliable
<1>2. QED BY <1>1, WayInvariant, UntroubledInvariant, PTL

(***************************************************************************)
(* The window of the viewer.                                               *)
(***************************************************************************)

ViewFrame == [from : Clients, number : Nat, dropped : 0..1]

Items(q) == {q[i] : i \in DOMAIN q}

(* The frames of c are in their order in q, and those in q come before     *)
(* those in r.                                                             *)
Rising(q, c) ==
  \A i, j \in DOMAIN q : i < j /\ q[i].from = c /\ q[j].from = c => q[i].number < q[j].number

Before(q, r, c) ==
  \A f \in Items(q), g \in Items(r) : f.from = c /\ g.from = c => f.number < g.number

(* What the lists of frames hold, from the newest on.                      *)
LineInOrder(c) ==
  /\ Rising(pipe[c], c) /\ Rising(batch[c], c) /\ Rising(vQueue, c) /\ Rising(events, c)
  /\ Before(batch[c], pipe[c], c) /\ Before(vQueue, pipe[c], c) /\ Before(events, pipe[c], c)
  /\ Before(vQueue, batch[c], c) /\ Before(events, batch[c], c) /\ Before(events, vQueue, c)

(* Frames are those that a proxy has numbered, told a loss only by one that*)
(* had one; a batch and a pipe hold frames of one proxy.                   *)
Made(f) == f.number <= written[f.from] /\ f.dropped <= lost[f.from]

LineIsMade ==
  /\ \A f \in Items(vQueue) \union Items(events) : Made(f)
  /\ \A c \in Clients : \A f \in Items(batch[c]) \union Items(pipe[c]) : Made(f) /\ f.from = c

Lost == Cardinality({c \in Clients : lost[c] = 1})

(* A thread has read the count when it was not too high, and the window is *)
(* about to write a count that is not zero.                                *)
CountsAreReal ==
  /\ \A t \in Clients \union {"gui"} : loaded[t] <= vMissed + Lost
  /\ vDropped <= vMissed + Lost
  /\ window = "counting" => events # <<>> /\ V!Last(events).dropped > 0
  /\ vMissed > 0 => vDropped > 0

(* Nobody closes the window, and the threads are somewhere.                *)
ThreadsFit ==
  /\ stopping = FALSE /\ closing = "open" /\ targets = {} /\ wakes = 1 /\ timedOut = FALSE
  /\ guest \in Clients \union {V!Nobody, V!Waker} /\ listener \in BOOLEAN
  /\ acceptor \in {"loop", "created", "listening", "waiting", "connected", "registering", "ended"}
  /\ peer \in [Clients -> {"away", "here", "gone"}]
  /\ reader \in [Clients -> {"none", "checking", "reading", "handing", "dropping", "leaving",
                             "closing", "ended"}]
  /\ handle \in [Clients -> {"none", "open", "closed"}]

FramesFit ==
  /\ vQueue \in Seq(ViewFrame) /\ Len(vQueue) <= QueueSize
  /\ events \in Seq(ViewFrame) /\ Len(events) <= StoreCapacity
  /\ batch \in [Clients -> Seq(ViewFrame)] /\ pipe \in [Clients -> Seq(ViewFrame)]
  /\ vDropped \in Nat /\ vMissed \in Nat /\ loaded \in [Clients \union {"gui"} -> Nat]
  /\ window \in {"idle", "counting"}
  /\ written \in [Clients -> Nat] /\ lost \in [Clients -> 0..1]
  /\ \A c \in Clients : reader[c] = "dropping" => batch[c] # <<>>

ViewerHolds ==
  /\ ThreadsFit /\ FramesFit /\ LineIsMade /\ CountsAreReal
  /\ \A c \in Clients : LineInOrder(c)

(* Lists that grow at the end and shrink at the front.                     *)
IsAppended(S, q, f, r) ==
  /\ r \in Seq(S) /\ Len(r) = Len(q) + 1 /\ Items(r) = Items(q) \union {f}
  /\ \A c : Rising(q, c) /\ (\A g \in Items(q) : g.from = c /\ f.from = c => g.number < f.number)
              => Rising(r, c)

IsTail(S, q, r) ==
  /\ r \in Seq(S) /\ Len(q) \in Nat /\ Len(r) = Len(q) - 1 /\ Items(r) \subseteq Items(q)
  /\ Head(q) \in Items(q) /\ Head(q) \in S
  /\ \A c : Rising(q, c) =>
       /\ Rising(r, c)
       /\ \A g \in Items(r) : Head(q).from = c /\ g.from = c => Head(q).number < g.number

IsCut(S, q, r, s) ==
  /\ r \in Seq(S) /\ s \in Seq(S) /\ Items(r) \subseteq Items(q) /\ Items(s) \subseteq Items(q)
  /\ \A c : Rising(q, c) => Rising(r, c) /\ Rising(s, c) /\ Before(r, s, c)

IsJoined(S, q, r, s) ==
  /\ s \in Seq(S) /\ Items(s) = Items(q) \union Items(r)
  /\ \A c : Rising(q, c) /\ Rising(r, c) /\ Before(q, r, c) => Rising(s, c)

LEMMA AppendedItems ==
  ASSUME NEW S, NEW q \in Seq(S), NEW f \in S, NEW r, r = Append(q, f)
  PROVE  IsAppended(S, q, f, r)
<1>1. PICK n \in Nat : n = Len(q) BY LenProperties
<1>2. DOMAIN q = 1..n BY <1>1, LenProperties
<1>3. r \in Seq(S) /\ Len(r) = n + 1 /\ r[n + 1] = f /\ \A i \in 1..n : r[i] = q[i]
  BY <1>1, AppendProperties
<1>4. DOMAIN r = 1..n + 1 BY <1>3, LenProperties
<1>5. \A i \in 1..n + 1 : i = n + 1 \/ i \in 1..n OBVIOUS
<1>6. n + 1 \in 1..n + 1 /\ \A i \in 1..n : i \in 1..n + 1 OBVIOUS
<1>7. Items(r) = Items(q) \union {f} BY <1>2, <1>3, <1>4, <1>5, <1>6 DEF Items
<1>8. ASSUME NEW c, Rising(q, c),
             \A g \in Items(q) : g.from = c /\ f.from = c => g.number < f.number
      PROVE  Rising(r, c)
  <2> SUFFICES ASSUME NEW i \in 1..n + 1, NEW j \in 1..n + 1, i < j, r[i].from = c, r[j].from = c
               PROVE  r[i].number < r[j].number
    BY <1>4 DEF Rising
  <2>1. i \in 1..n /\ r[i] = q[i] /\ q[i] \in Items(q) BY <1>2, <1>3 DEF Items
  <2>2. CASE j = n + 1 BY <1>3, <1>8, <2>1, <2>2
  <2>3. CASE j \in 1..n BY <1>2, <1>3, <1>8, <2>1, <2>3 DEF Rising
  <2>4. QED BY <1>5, <2>2, <2>3
<1>9. QED BY <1>1, <1>3, <1>7, <1>8 DEF IsAppended

LEMMA TailItems ==
  ASSUME NEW S, NEW q \in Seq(S), q # <<>>, NEW r, r = Tail(q)
  PROVE  IsTail(S, q, r)
<1>1. PICK n \in Nat : n = Len(q) BY LenProperties
<1>2. DOMAIN q = 1..n BY <1>1, LenProperties
<1>3. n # 0 BY <1>1, EmptySeq
<1>4. r \in Seq(S) /\ Len(r) = n - 1 /\ \A i \in 1..n - 1 : r[i] = q[i + 1]
  BY <1>1, HeadTailProperties
<1>5. Head(q) = q[1] /\ Head(q) \in S BY HeadTailProperties
<1>6. DOMAIN r = 1..n - 1 BY <1>4, LenProperties
<1>7. \A i \in 1..n - 1 : i + 1 \in 1..n /\ 1 < i + 1 BY <1>3
<1>8. 1 \in 1..n BY <1>3
<1>9. Items(r) \subseteq Items(q) /\ Head(q) \in Items(q)
  BY <1>2, <1>4, <1>5, <1>6, <1>7, <1>8 DEF Items
<1>10. ASSUME NEW c, Rising(q, c)
       PROVE  /\ Rising(r, c)
              /\ \A g \in Items(r) : Head(q).from = c /\ g.from = c => Head(q).number < g.number
  <2>1. \A i, j \in 1..n : i < j /\ q[i].from = c /\ q[j].from = c => q[i].number < q[j].number
    BY <1>2, <1>10 DEF Rising
  <2>2. ASSUME NEW i \in 1..n - 1, NEW j \in 1..n - 1, i < j, r[i].from = c, r[j].from = c
        PROVE  r[i].number < r[j].number
    <3>1. i + 1 < j + 1 /\ i + 1 \in 1..n /\ j + 1 \in 1..n BY <1>7, <2>2
    <3>2. r[i] = q[i + 1] /\ r[j] = q[j + 1] BY <1>4
    <3>3. QED BY <2>1, <2>2, <3>1, <3>2
  <2>3. Rising(r, c) BY <1>6, <2>2 DEF Rising
  <2>4. ASSUME NEW g \in Items(r), Head(q).from = c, g.from = c PROVE Head(q).number < g.number
    <3>1. PICK i \in 1..n - 1 : g = r[i] BY <1>6 DEF Items
    <3>2. g = q[i + 1] BY <1>4, <3>1
    <3>3. QED BY <1>5, <1>7, <1>8, <2>1, <2>4, <3>2
  <2>5. QED BY <2>3, <2>4
<1>11. QED BY <1>1, <1>4, <1>5, <1>9, <1>10 DEF IsTail

LEMMA CutItems ==
  ASSUME NEW S, NEW q \in Seq(S), NEW n \in 1..Len(q),
         NEW r, r = SubSeq(q, 1, n), NEW s, s = SubSeq(q, n + 1, Len(q))
  PROVE  IsCut(S, q, r, s)
<1>1. PICK m \in Nat : m = Len(q) BY LenProperties
<1>2. DOMAIN q = 1..m /\ n \in 1..m BY <1>1, LenProperties
<1>3. n \in Nat /\ n <= m BY <1>2
<1>4. \A i \in 1..m : q[i] \in S BY <1>1, ElementOfSeq
<1>5. r = [i \in 1..n |-> q[i]]
  <2>1. r = [i \in 1..(1 + n - 1) |-> q[1 + i - 1]] BY <1>3 DEF SubSeq
  <2>2. 1..(1 + n - 1) = 1..n /\ \A i \in 1..n : 1 + i - 1 = i BY <1>3
  <2>3. QED BY <2>1, <2>2
<1>6. s = [i \in 1..m - n |-> q[n + i]]
  <2>1. s = [i \in 1..(1 + m - (n + 1)) |-> q[n + 1 + i - 1]] BY <1>1, <1>3 DEF SubSeq
  <2>2. 1 + m - (n + 1) = m - n /\ \A i \in 1..m - n : n + 1 + i - 1 = n + i BY <1>3
  <2>3. QED BY <2>1, <2>2
<1>7. m - n \in Nat /\ (\A i \in 1..n : i \in 1..m) /\ \A i \in 1..m - n : n + i \in 1..m
  BY <1>3
<1>8. r \in Seq(S) /\ DOMAIN r = 1..n
  <2>1. r \in [1..n -> S] BY <1>4, <1>5, <1>7
  <2>2. QED BY <1>3, <2>1
<1>9. s \in Seq(S) /\ DOMAIN s = 1..m - n
  <2>1. s \in [1..m - n -> S] BY <1>4, <1>6, <1>7
  <2>2. QED BY <1>7, <2>1
<1>10. (\A i \in 1..n : r[i] = q[i]) /\ \A i \in 1..m - n : s[i] = q[n + i] BY <1>5, <1>6
<1>11. Items(r) \subseteq Items(q) /\ Items(s) \subseteq Items(q)
  BY <1>2, <1>7, <1>8, <1>9, <1>10 DEF Items
<1>12. ASSUME NEW c, Rising(q, c) PROVE Rising(r, c) /\ Rising(s, c) /\ Before(r, s, c)
  <2>1. \A i, j \in 1..m : i < j /\ q[i].from = c /\ q[j].from = c => q[i].number < q[j].number
    BY <1>2, <1>12 DEF Rising
  <2>2. Rising(r, c) BY <1>7, <1>8, <1>10, <2>1 DEF Rising
  <2>3. ASSUME NEW i \in 1..m - n, NEW j \in 1..m - n, i < j, s[i].from = c, s[j].from = c
        PROVE  s[i].number < s[j].number
    <3>1. n + i < n + j /\ n + i \in 1..m /\ n + j \in 1..m BY <1>3, <1>7, <2>3
    <3>2. s[i] = q[n + i] /\ s[j] = q[n + j] BY <1>10
    <3>3. QED BY <2>1, <2>3, <3>1, <3>2
  <2>4. ASSUME NEW i \in 1..n, NEW j \in 1..m - n, r[i].from = c, s[j].from = c
        PROVE  r[i].number < s[j].number
    <3>1. i < n + j /\ i \in 1..m /\ n + j \in 1..m BY <1>3, <1>7
    <3>2. r[i] = q[i] /\ s[j] = q[n + j] BY <1>10
    <3>3. QED BY <2>1, <2>4, <3>1, <3>2
  <2>5. Rising(s, c) BY <1>9, <2>3 DEF Rising
  <2>6. ASSUME NEW f \in Items(r), NEW g \in Items(s), f.from = c, g.from = c
        PROVE  f.number < g.number
    <3>1. PICK i \in 1..n : f = r[i] BY <1>8 DEF Items
    <3>2. PICK j \in 1..m - n : g = s[j] BY <1>9 DEF Items
    <3>3. QED BY <2>4, <2>6, <3>1, <3>2
  <2>7. QED BY <2>2, <2>5, <2>6 DEF Before
<1>13. QED BY <1>8, <1>9, <1>11, <1>12 DEF IsCut

LEMMA EmptyItems ==
  Items(<<>>) = {} /\ \A c : Rising(<<>>, c)
BY DEF Items, Rising

LEMMA JoinedRises ==
  ASSUME NEW S, NEW q \in Seq(S), NEW r \in Seq(S), NEW s, s = q \o r
  PROVE  IsJoined(S, q, r, s)
<1>1. PICK m \in Nat : m = Len(q) BY LenProperties
<1>2. PICK n \in Nat : n = Len(r) BY LenProperties
<1>3. DOMAIN q = 1..m /\ DOMAIN r = 1..n BY <1>1, <1>2, LenProperties
<1>4. /\ s \in Seq(S) /\ Len(s) = m + n
      /\ \A i \in 1..m + n : s[i] = IF i <= m THEN q[i] ELSE r[i - m]
  BY <1>1, <1>2, ConcatProperties
<1>5. DOMAIN s = 1..m + n BY <1>4, LenProperties
<1>6. \A i \in 1..m + n : IF i <= m THEN i \in 1..m ELSE i - m \in 1..n OBVIOUS
<1>7. Items(s) = Items(q) \union Items(r)
  <2>1. Items(s) \subseteq Items(q) \union Items(r) BY <1>3, <1>4, <1>5, <1>6 DEF Items
  <2>2. \A i \in 1..m : i \in 1..m + n /\ s[i] = q[i] BY <1>4
  <2>3. \A i \in 1..n : m + i \in 1..m + n /\ s[m + i] = r[i] BY <1>4
  <2>4. Items(q) \subseteq Items(s) BY <1>3, <1>5, <2>2 DEF Items
  <2>5. Items(r) \subseteq Items(s) BY <1>3, <1>5, <2>3 DEF Items
  <2>6. QED BY <2>1, <2>4, <2>5
<1>8. ASSUME NEW c, Rising(q, c), Rising(r, c), Before(q, r, c) PROVE Rising(s, c)
  <2> SUFFICES ASSUME NEW i \in 1..m + n, NEW j \in 1..m + n, i < j, s[i].from = c, s[j].from = c
               PROVE  s[i].number < s[j].number
    BY <1>5 DEF Rising
  <2>1. CASE j <= m
    <3>1. i \in 1..m /\ j \in 1..m /\ s[i] = q[i] /\ s[j] = q[j] BY <1>4, <2>1
    <3>2. QED BY <1>3, <1>8, <3>1 DEF Rising
  <2>2. CASE i <= m /\ ~(j <= m)
    <3>1. i \in 1..m /\ j - m \in 1..n /\ s[i] = q[i] /\ s[j] = r[j - m] BY <1>4, <2>2
    <3>2. q[i] \in Items(q) /\ r[j - m] \in Items(r) BY <1>3, <3>1 DEF Items
    <3>3. QED BY <1>8, <3>1, <3>2 DEF Before
  <2>3. CASE ~(i <= m)
    <3>1. i - m \in 1..n /\ j - m \in 1..n /\ i - m < j - m /\ ~(j <= m) BY <2>3
    <3>2. s[i] = r[i - m] /\ s[j] = r[j - m] BY <1>4, <2>3, <3>1
    <3>3. QED BY <1>3, <1>8, <3>1, <3>2 DEF Rising
  <2>4. QED BY <2>1, <2>2, <2>3
<1>9. QED BY <1>4, <1>7, <1>8 DEF IsJoined

(* The threads go from place to place.                                     *)
LEMMA AcceptorMoves ==
  ASSUME ThreadsFit, V!AcceptorStep \/ V!PipeFails
  PROVE  ThreadsFit'
BY DEF ThreadsFit, V!AcceptorStep, V!PipeFails, V!CreatePipe, V!SetListener, V!CheckBeforeWait,
   V!ClientArrives, V!CheckAfterWait, V!Register, V!TurnAway, V!Proceed, V!Accepts, V!closingVars,
   V!readerVars, V!peerVars

LEMMA ReaderMoves ==
  ASSUME ThreadsFit, NEW c \in Clients, V!ReaderStep(c)
  PROVE  ThreadsFit'
BY DEF ThreadsFit, V!ReaderStep, V!CheckStop, V!ReadSome, V!ReadFails, V!HandFrame, V!CountDrop,
   V!NextChunk, V!CloseHandle, V!Unregister, V!Goes, V!serverVars, V!closingVars, V!peerVars

LEMMA ProxyMoves ==
  ASSUME ThreadsFit, NEW c \in Clients, V!Connect(c) \/ V!Write(c) \/ V!Leave(c)
  PROVE  ThreadsFit'
BY DEF ThreadsFit, V!Connect, V!Write, V!Leave, V!serverVars, V!closingVars, V!readerVars

LEMMA WindowMoves ==
  ASSUME ThreadsFit, V!Refresh \/ V!CountTold
  PROVE  ThreadsFit'
BY DEF ThreadsFit, V!Refresh, V!CountTold, V!serverVars, V!closingVars, V!readerVars, V!peerVars

LEMMA WindowStaysOpen ==
  ASSUME ThreadsFit
  PROVE  ~V!Stop /\ ~V!StopStep
BY DEF ThreadsFit, V!Stop, V!StopStep, V!TakeHandles, V!Disconnect, V!WakeListener, V!JoinAcceptor,
   V!JoinReader, V!Return

(* Most steps of the threads concern no frame and no count.                *)
frameVars == <<vQueue, events, batch, pipe, vDropped, vMissed, loaded, window, written, lost>>

LEMMA FramesStay ==
  ASSUME ViewerHolds, ThreadsFit', UNCHANGED frameVars,
         \A c \in Clients : reader'[c] = "dropping" => reader[c] = "dropping"
  PROVE  ViewerHolds'
<1>1. UNCHANGED <<vQueue, events, batch, pipe, vDropped, vMissed, loaded, window, written, lost>>
  BY DEF frameVars
<1>2. FramesFit' BY <1>1 DEF ViewerHolds, FramesFit
<1>3. LineIsMade' BY <1>1 DEF ViewerHolds, LineIsMade, Made, Items
<1>4. CountsAreReal' BY <1>1 DEF ViewerHolds, CountsAreReal, Lost
<1>5. ASSUME NEW c \in Clients PROVE LineInOrder(c)'
  BY <1>1 DEF ViewerHolds, LineInOrder, Rising, Before, Items
<1>6. QED BY <1>2, <1>3, <1>4, <1>5 DEF ViewerHolds

LEMMA AcceptorKeeps ==
  ASSUME ViewerHolds, V!AcceptorStep \/ V!PipeFails
  PROVE  ViewerHolds'
<1>1. ThreadsFit' BY AcceptorMoves DEF ViewerHolds
<1>2. UNCHANGED frameVars
  BY DEF frameVars, V!AcceptorStep, V!PipeFails, V!CreatePipe, V!SetListener, V!CheckBeforeWait,
     V!ClientArrives, V!CheckAfterWait, V!Register, V!TurnAway, V!Proceed, V!readerVars, V!peerVars,
     V!windowVars, V!countVars
<1>3. \A c \in Clients : reader'[c] = "dropping" => reader[c] = "dropping"
  <2>1. reader \in [Clients -> {"none", "checking", "reading", "handing", "dropping", "leaving",
                                "closing", "ended"}]
    BY DEF ViewerHolds, ThreadsFit
  <2>2. QED
    BY <2>1 DEF V!AcceptorStep, V!PipeFails, V!CreatePipe, V!SetListener, V!CheckBeforeWait,
       V!ClientArrives, V!CheckAfterWait, V!Register, V!TurnAway, V!Proceed, V!readerVars
<1>4. QED BY <1>1, <1>2, <1>3, FramesStay

LEMMA OthersKeep ==
  ASSUME ViewerHolds, NEW c \in Clients,
         \/ V!Connect(c) \/ V!Leave(c) \/ V!CheckStop(c) \/ V!ReadFails(c)
         \/ V!CloseHandle(c) \/ V!Unregister(c)
  PROVE  ViewerHolds'
<1>1. ThreadsFit' BY ReaderMoves, ProxyMoves DEF ViewerHolds, V!ReaderStep
<1>2. UNCHANGED frameVars
  BY DEF frameVars, V!Connect, V!Leave, V!CheckStop, V!ReadFails, V!CloseHandle, V!Unregister,
     V!readerVars, V!peerVars, V!windowVars, V!countVars
<1>3. \A d \in Clients : reader'[d] = "dropping" => reader[d] = "dropping"
  <2>1. reader \in [Clients -> {"none", "checking", "reading", "handing", "dropping", "leaving",
                                "closing", "ended"}]
    BY DEF ViewerHolds, ThreadsFit
  <2>2. QED
    BY <2>1 DEF V!Connect, V!Leave, V!CheckStop, V!ReadFails, V!CloseHandle, V!Unregister, V!Goes,
       V!readerVars
<1>4. QED BY <1>1, <1>2, <1>3, FramesStay

(* The parts of the invariant, for a step that keeps the others.           *)
LEMMA ViewerParts ==
  ASSUME ViewerHolds
  PROVE  /\ ThreadsFit /\ FramesFit /\ LineIsMade /\ CountsAreReal /\ \A c \in Clients : LineInOrder(c)
         /\ Lost \in Nat /\ \A c \in Clients : lost[c] = 1 => Lost > 0
<1>1. PICK L : L = {c \in Clients : lost[c] = 1} OBVIOUS
<1>2. IsFiniteSet(L) BY <1>1, ViewerConstants, FS_Subset
<1>3. Cardinality(L) \in Nat /\ (L # {} => Cardinality(L) # 0)
  BY <1>2, FS_CardinalityType, FS_EmptySet
<1>4. QED BY <1>1, <1>3 DEF ViewerHolds, Lost

(* A proxy writes a frame with its next number.                            *)
LEMMA WriteKeeps ==
  ASSUME ViewerHolds, NEW c \in Clients, V!Write(c)
  PROVE  ViewerHolds'
<1>1. /\ FramesFit /\ LineIsMade /\ CountsAreReal /\ \A d \in Clients : LineInOrder(d)
  BY ViewerParts
<1>2. ThreadsFit' BY ProxyMoves DEF ViewerHolds
<1>3. /\ UNCHANGED <<vQueue, events, batch, reader, loaded, vDropped, vMissed, window, lost>>
      /\ written' = [written EXCEPT ![c] = @ + 1]
  BY DEF V!Write, V!readerVars, V!windowVars, V!countVars
<1>4. PICK told \in {0, lost[c]} :
        pipe' = [pipe EXCEPT ![c] = Append(@, [from |-> c, number |-> written'[c], dropped |-> told])]
  BY DEF V!Write
<1>5. PICK f : f = [from |-> c, number |-> written'[c], dropped |-> told] OBVIOUS
<1>6. PICK p : p = Append(pipe[c], f) OBVIOUS
<1>7. pipe' = [pipe EXCEPT ![c] = p] BY <1>4, <1>5, <1>6
<1>8. written[c] \in Nat /\ lost[c] \in 0..1 /\ pipe[c] \in Seq(ViewFrame)
      /\ pipe \in [Clients -> Seq(ViewFrame)] /\ written \in [Clients -> Nat]
      /\ lost \in [Clients -> 0..1]
  BY <1>1 DEF FramesFit
<1>9. written'[c] = written[c] + 1 BY <1>3, <1>8
<1>10. f.from = c /\ f.number = written[c] + 1 /\ f.dropped = told BY <1>5, <1>9
<1>11. f \in ViewFrame BY <1>5, <1>8, <1>9 DEF ViewFrame
<1>12. IsAppended(ViewFrame, pipe[c], f, p) BY <1>6, <1>8, <1>11, AppendedItems
<1>13. p \in Seq(ViewFrame) /\ Items(p) = Items(pipe[c]) \union {f} BY <1>12 DEF IsAppended
<1>14. pipe' \in [Clients -> Seq(ViewFrame)] /\ written' \in [Clients -> Nat]
  BY <1>3, <1>7, <1>8, <1>13
<1>15. FramesFit' BY <1>1, <1>3, <1>14 DEF FramesFit
<1>16. pipe'[c] = p /\ \A d \in Clients \ {c} : pipe'[d] = pipe[d] BY <1>7, <1>8
<1>17. \A d \in Clients : written'[d] >= written[d] BY <1>3, <1>8
<1>18. \A g \in ViewFrame : Made(g) => Made(g)'
  BY <1>3, <1>8, <1>14, <1>17 DEF Made, ViewFrame
<1>19. \A d \in Clients : \A g \in Items(pipe[d]) \union Items(batch[d]) : g \in ViewFrame
  BY <1>1, ElementOfSeq, LenProperties DEF FramesFit, Items
<1>20. \A g \in Items(vQueue) \union Items(events) : g \in ViewFrame
  BY <1>1, ElementOfSeq, LenProperties DEF FramesFit, Items
<1>21. LineIsMade'
  <2>1. Made(f)' BY <1>3, <1>8, <1>9, <1>10 DEF Made
  <2>2. \A g \in Items(vQueue) \union Items(events) : Made(g)' BY <1>1, <1>18, <1>20 DEF LineIsMade
  <2>3. ASSUME NEW d \in Clients, NEW g \in Items(batch[d]) \union Items(pipe'[d])
        PROVE  Made(g)' /\ g.from = d
    <3>1. g \in Items(batch[d]) \union Items(pipe[d]) \/ (g = f /\ d = c)
      BY <1>13, <1>16, <2>3
    <3>2. QED BY <1>1, <1>10, <1>18, <1>19, <2>1, <3>1 DEF LineIsMade
  <2>4. (\A g \in Items(vQueue') \union Items(events') : Made(g)')
        /\ \A d \in Clients : \A g \in Items(batch'[d]) \union Items(pipe'[d]) : Made(g)' /\ g.from = d
    BY <1>3, <2>2, <2>3
  <2>5. QED BY <2>4 DEF LineIsMade
<1>22. CountsAreReal' BY <1>1, <1>3 DEF CountsAreReal, Lost
<1>23. ASSUME NEW d \in Clients PROVE LineInOrder(d)'
  <2>1. CASE d # c
    <3>1. pipe'[d] = pipe[d] BY <1>16, <2>1
    <3>2. QED BY <1>1, <1>3, <3>1 DEF LineInOrder, Rising, Before, Items
  <2>2. CASE d = c
    <3>1. /\ Rising(pipe[c], c) /\ Rising(batch[c], c) /\ Rising(vQueue, c) /\ Rising(events, c)
          /\ Before(batch[c], pipe[c], c) /\ Before(vQueue, pipe[c], c) /\ Before(events, pipe[c], c)
          /\ Before(vQueue, batch[c], c) /\ Before(events, batch[c], c) /\ Before(events, vQueue, c)
      BY <1>1 DEF LineInOrder
    <3>2. \A g \in Items(pipe[c]) \union Items(batch[c]) \union Items(vQueue) \union Items(events) :
            g.from = c => g.number < f.number
      BY <1>1, <1>8, <1>10, <1>19, <1>20 DEF LineIsMade, Made, ViewFrame
    <3>3. Rising(p, c) BY <1>12, <3>1, <3>2 DEF IsAppended
    <3>4. Before(batch[c], p, c) /\ Before(vQueue, p, c) /\ Before(events, p, c)
      BY <1>13, <3>1, <3>2 DEF Before
    <3>5. QED BY <1>3, <1>16, <2>2, <3>1, <3>3, <3>4 DEF LineInOrder
  <2>3. QED BY <2>1, <2>2
<1>24. QED BY <1>2, <1>15, <1>21, <1>22, <1>23 DEF ViewerHolds

LEMMA FramesAreTyped ==
  ASSUME FramesFit
  PROVE  /\ \A g \in Items(vQueue) \union Items(events) : g \in ViewFrame
         /\ \A d \in Clients : \A g \in Items(pipe[d]) \union Items(batch[d]) : g \in ViewFrame
BY ElementOfSeq, LenProperties DEF FramesFit, Items

(* Frames of a batch are lost, together or one by one.                     *)
LEMMA BatchShrinks ==
  ASSUME ViewerHolds, ThreadsFit', UNCHANGED <<vQueue, events, pipe, written, lost, window, loaded>>,
         batch' \in [Clients -> Seq(ViewFrame)], vDropped' \in Nat, vMissed' \in Nat,
         \A d \in Clients : Items(batch'[d]) \subseteq Items(batch[d]) /\ Rising(batch'[d], d),
         \A d \in Clients : reader'[d] = "dropping" => batch'[d] # <<>>,
         CountsAreReal'
  PROVE  ViewerHolds'
<1>1. FramesFit /\ LineIsMade /\ \A d \in Clients : LineInOrder(d) BY ViewerParts
<1>2. FramesFit' BY <1>1 DEF FramesFit
<1>3. LineIsMade' BY <1>1 DEF LineIsMade, Made
<1>4. ASSUME NEW d \in Clients PROVE LineInOrder(d)'
  <2>1. Items(batch'[d]) \subseteq Items(batch[d]) /\ Rising(batch'[d], d) OBVIOUS
  <2>2. PICK b : b = batch'[d] OBVIOUS
  <2>3. /\ Rising(pipe[d], d) /\ Rising(b, d) /\ Rising(vQueue, d) /\ Rising(events, d)
        /\ Before(b, pipe[d], d) /\ Before(vQueue, pipe[d], d) /\ Before(events, pipe[d], d)
        /\ Before(vQueue, b, d) /\ Before(events, b, d) /\ Before(events, vQueue, d)
    BY <1>1, <2>1, <2>2 DEF LineInOrder, Before
  <2>4. QED BY <2>2, <2>3 DEF LineInOrder
<1>5. QED BY <1>2, <1>3, <1>4 DEF ViewerHolds

LEMMA NextKeeps ==
  ASSUME ViewerHolds, NEW c \in Clients, V!NextChunk(c)
  PROVE  ViewerHolds'
<1>1. /\ FramesFit /\ CountsAreReal /\ \A d \in Clients : LineInOrder(d) BY ViewerParts
<1>2. ThreadsFit' BY ReaderMoves DEF ViewerHolds, V!ReaderStep
<1>3. /\ UNCHANGED <<vQueue, events, pipe, written, lost, window, loaded, vDropped, vMissed>>
      /\ batch' = [batch EXCEPT ![c] = <<>>]
      /\ \E to \in {"checking", "leaving"} : reader' = [reader EXCEPT ![c] = to]
  BY DEF V!NextChunk, V!Goes, V!peerVars, V!windowVars, V!countVars
<1>4. batch \in [Clients -> Seq(ViewFrame)] /\ vDropped \in Nat /\ vMissed \in Nat
      /\ \A d \in Clients : reader[d] = "dropping" => batch[d] # <<>>
  BY <1>1 DEF FramesFit
<1>5. reader \in [Clients -> {"none", "checking", "reading", "handing", "dropping", "leaving",
                              "closing", "ended"}]
  BY DEF ViewerHolds, ThreadsFit
<1>6. PICK none : none = <<>> OBVIOUS
<1>7. none \in Seq(ViewFrame) /\ Items(none) = {} /\ \A d \in Clients : Rising(none, d)
  BY <1>6, EmptyItems
<1>8. batch'[c] = none /\ reader'[c] # "dropping"
      /\ \A d \in Clients \ {c} : batch'[d] = batch[d] /\ reader'[d] = reader[d]
  BY <1>3, <1>4, <1>5, <1>6
<1>9. batch' \in [Clients -> Seq(ViewFrame)] BY <1>3, <1>4, <1>6, <1>7
<1>10. \A d \in Clients : Items(batch'[d]) \subseteq Items(batch[d]) /\ Rising(batch'[d], d)
  <2>1. \A d \in Clients : Rising(batch[d], d) BY <1>1 DEF LineInOrder
  <2>2. QED BY <1>7, <1>8, <2>1
<1>11. \A d \in Clients : reader'[d] = "dropping" => batch'[d] # <<>> BY <1>4, <1>8
<1>12. CountsAreReal' BY <1>1, <1>3 DEF CountsAreReal, Lost
<1>13. vDropped' \in Nat /\ vMissed' \in Nat BY <1>3, <1>4
<1>14. QED BY <1>2, <1>3, <1>9, <1>10, <1>11, <1>12, <1>13, BatchShrinks

(* The second half of an update of the count: others may have written it   *)
(* since the first.                                                        *)
LEMMA DropKeeps ==
  ASSUME ViewerHolds, NEW c \in Clients, V!CountDrop(c)
  PROVE  ViewerHolds'
<1>1. /\ FramesFit /\ CountsAreReal /\ Lost \in Nat /\ \A d \in Clients : LineInOrder(d)
  BY ViewerParts
<1>2. ThreadsFit' BY ReaderMoves DEF ViewerHolds, V!ReaderStep
<1>3. /\ UNCHANGED <<vQueue, events, pipe, written, lost, window, loaded>>
      /\ batch' = [batch EXCEPT ![c] = Tail(@)]
      /\ reader[c] = "dropping" /\ reader' = [reader EXCEPT ![c] = "handing"]
      /\ vDropped' = loaded[c] + 1 /\ vMissed' = vMissed + 1
  BY DEF V!CountDrop, V!Incremented, V!Goes, V!peerVars, V!windowVars
<1>4. batch \in [Clients -> Seq(ViewFrame)] /\ vDropped \in Nat /\ vMissed \in Nat
      /\ loaded \in [Clients \union {"gui"} -> Nat]
      /\ \A d \in Clients : reader[d] = "dropping" => batch[d] # <<>>
  BY <1>1 DEF FramesFit
<1>5. reader \in [Clients -> {"none", "checking", "reading", "handing", "dropping", "leaving",
                              "closing", "ended"}]
  BY DEF ViewerHolds, ThreadsFit
<1>6. PICK b : b = Tail(batch[c]) OBVIOUS
<1>7. batch[c] \in Seq(ViewFrame) /\ batch[c] # <<>> BY <1>3, <1>4
<1>8. IsTail(ViewFrame, batch[c], b) BY <1>6, <1>7, TailItems
<1>9. b \in Seq(ViewFrame) /\ Items(b) \subseteq Items(batch[c])
      /\ (Rising(batch[c], c) => Rising(b, c))
  BY <1>8 DEF IsTail
<1>10. batch'[c] = b /\ reader'[c] # "dropping"
       /\ \A d \in Clients \ {c} : batch'[d] = batch[d] /\ reader'[d] = reader[d]
  BY <1>3, <1>4, <1>5, <1>6
<1>11. batch' \in [Clients -> Seq(ViewFrame)] BY <1>3, <1>4, <1>6, <1>9
<1>12. \A d \in Clients : Items(batch'[d]) \subseteq Items(batch[d]) /\ Rising(batch'[d], d)
  <2>1. \A d \in Clients : Rising(batch[d], d) BY <1>1 DEF LineInOrder
  <2>2. QED BY <1>9, <1>10, <2>1
<1>13. \A d \in Clients : reader'[d] = "dropping" => batch'[d] # <<>> BY <1>4, <1>10
<1>14. CountsAreReal'
  <2>1. Lost' = Lost BY <1>3 DEF Lost
  <2>2. \A t \in Clients \union {"gui"} : loaded[t] \in Nat /\ loaded[t] <= vMissed + Lost
    BY <1>1, <1>4 DEF CountsAreReal
  <2>3. \A t \in Clients \union {"gui"} : loaded'[t] <= vMissed' + Lost'
    BY <1>1, <1>3, <1>4, <2>1, <2>2
  <2>4. loaded[c] \in Nat /\ loaded[c] <= vMissed + Lost BY <2>2
  <2>5. vDropped' <= vMissed' + Lost' /\ vDropped' > 0 BY <1>1, <1>3, <1>4, <2>1, <2>4
  <2>6. window' = "counting" => events' # <<>> /\ V!Last(events').dropped > 0
    BY <1>1, <1>3 DEF CountsAreReal
  <2>7. QED BY <2>3, <2>5, <2>6 DEF CountsAreReal
<1>15. vDropped' \in Nat /\ vMissed' \in Nat BY <1>3, <1>4
<1>16. QED BY <1>2, <1>3, <1>11, <1>12, <1>13, <1>14, <1>15, BatchShrinks

(* A reader takes some of what is in its pipe.                             *)
LEMMA ReadKeeps ==
  ASSUME ViewerHolds, NEW c \in Clients, V!ReadSome(c)
  PROVE  ViewerHolds'
<1>1. /\ FramesFit /\ LineIsMade /\ CountsAreReal /\ \A d \in Clients : LineInOrder(d)
  BY ViewerParts
<1>2. ThreadsFit' BY ReaderMoves DEF ViewerHolds, V!ReaderStep
<1>3. /\ UNCHANGED <<vQueue, events, written, lost, window, loaded, vDropped, vMissed>>
      /\ reader' = [reader EXCEPT ![c] = "handing"]
  BY DEF V!ReadSome, V!Goes, V!windowVars, V!countVars
<1>4. PICK n \in 1..Len(pipe[c]) :
        /\ batch' = [batch EXCEPT ![c] = SubSeq(pipe[c], 1, n)]
        /\ pipe' = [pipe EXCEPT ![c] = SubSeq(@, n + 1, Len(@))]
  BY DEF V!ReadSome
<1>5. batch \in [Clients -> Seq(ViewFrame)] /\ pipe \in [Clients -> Seq(ViewFrame)]
      /\ \A d \in Clients : reader[d] = "dropping" => batch[d] # <<>>
  BY <1>1 DEF FramesFit
<1>6. reader \in [Clients -> {"none", "checking", "reading", "handing", "dropping", "leaving",
                              "closing", "ended"}]
  BY DEF ViewerHolds, ThreadsFit
<1>7. PICK b : b = SubSeq(pipe[c], 1, n) OBVIOUS
<1>8. PICK p : p = SubSeq(pipe[c], n + 1, Len(pipe[c])) OBVIOUS
<1>9. batch' = [batch EXCEPT ![c] = b] /\ pipe' = [pipe EXCEPT ![c] = p] BY <1>4, <1>7, <1>8
<1>10. IsCut(ViewFrame, pipe[c], b, p) BY <1>5, <1>7, <1>8, CutItems
<1>11. b \in Seq(ViewFrame) /\ p \in Seq(ViewFrame)
       /\ Items(b) \subseteq Items(pipe[c]) /\ Items(p) \subseteq Items(pipe[c])
       /\ (Rising(pipe[c], c) => Rising(b, c) /\ Rising(p, c) /\ Before(b, p, c))
  BY <1>10 DEF IsCut
<1>12. batch'[c] = b /\ pipe'[c] = p /\ reader'[c] # "dropping"
       /\ \A d \in Clients \ {c} :
            batch'[d] = batch[d] /\ pipe'[d] = pipe[d] /\ reader'[d] = reader[d]
  BY <1>3, <1>5, <1>6, <1>9
<1>13. batch' \in [Clients -> Seq(ViewFrame)] /\ pipe' \in [Clients -> Seq(ViewFrame)]
  BY <1>5, <1>9, <1>11
<1>14. \A d \in Clients : reader'[d] = "dropping" => batch'[d] # <<>> BY <1>5, <1>12
<1>15. FramesFit' BY <1>1, <1>3, <1>13, <1>14 DEF FramesFit
<1>16. LineIsMade'
  <2>1. \A d \in Clients : Items(batch'[d]) \union Items(pipe'[d]) \subseteq
                             Items(batch[d]) \union Items(pipe[d])
    BY <1>11, <1>12
  <2>2. QED BY <1>1, <1>3, <2>1 DEF LineIsMade, Made
<1>17. CountsAreReal' BY <1>1, <1>3 DEF CountsAreReal, Lost
<1>18. ASSUME NEW d \in Clients PROVE LineInOrder(d)'
  <2>1. CASE d # c
    <3>1. pipe'[d] = pipe[d] /\ batch'[d] = batch[d] BY <1>12, <2>1
    <3>2. QED BY <1>1, <1>3, <3>1 DEF LineInOrder, Rising, Before, Items
  <2>2. CASE d = c
    <3>1. /\ Rising(vQueue, c) /\ Rising(events, c) /\ Before(events, vQueue, c)
          /\ Rising(p, c) /\ Rising(b, c) /\ Before(b, p, c)
          /\ Before(vQueue, pipe[c], c) /\ Before(events, pipe[c], c)
      BY <1>1, <1>11 DEF LineInOrder
    <3>2. /\ Before(vQueue, p, c) /\ Before(events, p, c)
          /\ Before(vQueue, b, c) /\ Before(events, b, c)
      BY <1>11, <3>1 DEF Before
    <3>3. QED BY <1>3, <1>12, <2>2, <3>1, <3>2 DEF LineInOrder
  <2>3. QED BY <2>1, <2>2
<1>19. QED BY <1>2, <1>15, <1>16, <1>17, <1>18 DEF ViewerHolds

(* A frame is handed over to the window, where there is room.              *)
LEMMA HandKeeps ==
  ASSUME ViewerHolds, NEW c \in Clients, V!HandFrame(c)
  PROVE  ViewerHolds'
<1>1. /\ FramesFit /\ LineIsMade /\ CountsAreReal /\ Lost \in Nat /\ \A d \in Clients : LineInOrder(d)
  BY ViewerParts
<1>2. ThreadsFit' BY ReaderMoves DEF ViewerHolds, V!ReaderStep
<1>3. UNCHANGED <<events, pipe, written, lost, window, vDropped, vMissed>> /\ batch[c] # <<>>
  BY DEF V!HandFrame, V!peerVars, V!windowVars
<1>4. /\ batch \in [Clients -> Seq(ViewFrame)] /\ vQueue \in Seq(ViewFrame) /\ Len(vQueue) <= QueueSize
      /\ loaded \in [Clients \union {"gui"} -> Nat] /\ vDropped \in Nat
      /\ \A d \in Clients : reader[d] = "dropping" => batch[d] # <<>>
  BY <1>1 DEF FramesFit
<1>5. reader \in [Clients -> {"none", "checking", "reading", "handing", "dropping", "leaving",
                              "closing", "ended"}]
  BY DEF ViewerHolds, ThreadsFit
<1>6. CASE ~(Len(vQueue) < QueueSize)
  <2>1. /\ UNCHANGED <<vQueue, batch>> /\ loaded' = [loaded EXCEPT ![c] = vDropped]
        /\ reader' = [reader EXCEPT ![c] = "dropping"]
    BY <1>6 DEF V!HandFrame, V!Goes
  <2>2. loaded' \in [Clients \union {"gui"} -> Nat] BY <1>4, <2>1
  <2>3. \A d \in Clients : reader'[d] = "dropping" => batch'[d] # <<>>
    BY <1>3, <1>4, <1>5, <2>1
  <2>4. FramesFit' BY <1>1, <1>3, <2>1, <2>2, <2>3 DEF FramesFit
  <2>5. LineIsMade' BY <1>1, <1>3, <2>1 DEF LineIsMade, Made, Items
  <2>6. CountsAreReal'
    <3>1. \A t \in Clients \union {"gui"} : loaded'[t] = loaded[t] \/ loaded'[t] = vDropped
      BY <1>4, <2>1
    <3>2. \A t \in Clients \union {"gui"} : loaded'[t] <= vMissed + Lost
      BY <1>1, <3>1 DEF CountsAreReal
    <3>3. Lost' = Lost BY <1>3 DEF Lost
    <3>4. QED BY <1>1, <1>3, <3>2, <3>3 DEF CountsAreReal
  <2>7. ASSUME NEW d \in Clients PROVE LineInOrder(d)'
    BY <1>1, <1>3, <2>1 DEF LineInOrder, Rising, Before, Items
  <2>8. QED BY <1>2, <2>4, <2>5, <2>6, <2>7 DEF ViewerHolds
<1>7. CASE Len(vQueue) < QueueSize
  <2>1. /\ vQueue' = Append(vQueue, Head(batch[c])) /\ batch' = [batch EXCEPT ![c] = Tail(@)]
        /\ reader[c] = "handing" /\ UNCHANGED <<reader, loaded>>
    BY <1>7 DEF V!HandFrame
  <2>2. PICK h : h = Head(batch[c]) OBVIOUS
  <2>3. PICK b : b = Tail(batch[c]) OBVIOUS
  <2>4. PICK q : q = Append(vQueue, h) OBVIOUS
  <2>5. vQueue' = q /\ batch' = [batch EXCEPT ![c] = b] BY <2>1, <2>2, <2>3, <2>4
  <2>6. batch[c] \in Seq(ViewFrame) BY <1>4
  <2>7. IsTail(ViewFrame, batch[c], b) BY <1>3, <2>3, <2>6, TailItems
  <2>8. /\ b \in Seq(ViewFrame) /\ Items(b) \subseteq Items(batch[c])
        /\ h \in Items(batch[c]) /\ h \in ViewFrame
        /\ Rising(batch[c], c) =>
             Rising(b, c) /\ \A g \in Items(b) : h.from = c /\ g.from = c => h.number < g.number
    BY <2>2, <2>7 DEF IsTail
  <2>9. h.from = c BY <1>1, <2>8 DEF LineIsMade
  <2>10. IsAppended(ViewFrame, vQueue, h, q) BY <1>4, <2>4, <2>8, AppendedItems
  <2>11. /\ q \in Seq(ViewFrame) /\ Len(q) = Len(vQueue) + 1 /\ Items(q) = Items(vQueue) \union {h}
         /\ \A d : Rising(vQueue, d) /\ (\A g \in Items(vQueue) : g.from = d /\ h.from = d => g.number < h.number)
                     => Rising(q, d)
    BY <2>10 DEF IsAppended
  <2>12. Len(q) <= QueueSize
    <3>1. Len(vQueue) \in Nat BY <1>4, LenProperties
    <3>2. QED BY <1>7, <2>11, <3>1, ViewerConstants
  <2>13. batch'[c] = b /\ \A d \in Clients \ {c} : batch'[d] = batch[d] BY <1>4, <2>5
  <2>14. batch' \in [Clients -> Seq(ViewFrame)] BY <1>4, <2>5, <2>8
  <2>15. \A d \in Clients : reader'[d] = "dropping" => batch'[d] # <<>>
    BY <1>4, <2>1, <2>13
  <2>16. FramesFit' BY <1>1, <1>3, <2>1, <2>5, <2>11, <2>12, <2>14, <2>15 DEF FramesFit
  <2>17. LineIsMade'
    <3>1. \A g \in Items(q) : g \in Items(vQueue) \/ g \in Items(batch[c]) BY <2>8, <2>11
    <3>2. \A d \in Clients : Items(batch'[d]) \subseteq Items(batch[d]) BY <2>8, <2>13
    <3>3. QED BY <1>1, <1>3, <2>5, <3>1, <3>2 DEF LineIsMade, Made
  <2>18. CountsAreReal' BY <1>1, <1>3, <2>1 DEF CountsAreReal, Lost
  <2>19. ASSUME NEW d \in Clients PROVE LineInOrder(d)'
    <3>1. /\ Rising(pipe[d], d) /\ Rising(batch[d], d) /\ Rising(vQueue, d) /\ Rising(events, d)
          /\ Before(batch[d], pipe[d], d) /\ Before(vQueue, pipe[d], d) /\ Before(events, pipe[d], d)
          /\ Before(vQueue, batch[d], d) /\ Before(events, batch[d], d) /\ Before(events, vQueue, d)
      BY <1>1 DEF LineInOrder
    <3>2. CASE d # c
      <4>1. h.from # d /\ batch'[d] = batch[d] BY <2>9, <2>13, <3>2
      <4>2. Rising(q, d) BY <2>11, <3>1, <4>1
      <4>3. Before(q, pipe[d], d) /\ Before(q, batch[d], d) /\ Before(events, q, d)
        BY <2>11, <3>1, <4>1 DEF Before
      <4>4. QED BY <1>3, <2>5, <3>1, <4>1, <4>2, <4>3 DEF LineInOrder
    <3>3. CASE d = c
      <4>1. Rising(b, c) /\ \A g \in Items(b) : g.from = c => h.number < g.number
        BY <2>8, <2>9, <3>1, <3>3
      <4>2. \A g \in Items(vQueue) : g.from = c /\ h.from = c => g.number < h.number
        BY <2>8, <3>1, <3>3 DEF Before
      <4>3. Rising(q, c) BY <2>11, <3>1, <3>3, <4>2
      <4>4. Before(b, pipe[c], c) /\ Before(events, b, c) BY <2>8, <3>1, <3>3 DEF Before
      <4>5. Before(q, pipe[c], c) /\ Before(events, q, c) BY <2>8, <2>11, <3>1, <3>3 DEF Before
      <4>6. Before(q, b, c) BY <2>8, <2>11, <3>1, <3>3, <4>1 DEF Before
      <4>7. QED BY <1>3, <2>5, <2>13, <3>1, <3>3, <4>1, <4>3, <4>4, <4>5, <4>6 DEF LineInOrder
    <3>4. QED BY <3>2, <3>3
  <2>20. QED BY <1>2, <2>16, <2>17, <2>18, <2>19 DEF ViewerHolds
<1>8. QED BY <1>6, <1>7

(* The store takes a frame in and lets the oldest one go.                  *)
LEMMA StoredFits ==
  ASSUME FramesFit, NEW h \in ViewFrame, NEW e, e = V!Stored(h)
  PROVE  /\ e \in Seq(ViewFrame) /\ Len(e) <= StoreCapacity /\ Items(e) \subseteq Items(events) \union {h}
         /\ e # <<>> /\ V!Last(e) = h
         /\ \A c : Rising(events, c) /\ (\A g \in Items(events) : g.from = c /\ h.from = c => g.number < h.number)
                     => Rising(e, c)
<1>1. events \in Seq(ViewFrame) /\ Len(events) <= StoreCapacity BY DEF FramesFit
<1>2. PICK n \in Nat : n = Len(events) BY <1>1, LenProperties
<1>3. PICK a : a = Append(events, h) OBVIOUS
<1>4. IsAppended(ViewFrame, events, h, a) BY <1>1, <1>3, AppendedItems
<1>5. /\ a \in Seq(ViewFrame) /\ Len(a) = n + 1 /\ Items(a) = Items(events) \union {h}
      /\ \A c : Rising(events, c) /\ (\A g \in Items(events) : g.from = c /\ h.from = c => g.number < h.number)
                  => Rising(a, c)
  BY <1>2, <1>4 DEF IsAppended
<1>6. a[n + 1] = h BY <1>1, <1>2, <1>3, AppendProperties
<1>7. e = IF Len(a) > StoreCapacity THEN Tail(a) ELSE a BY <1>3 DEF V!Stored
<1>8. CASE Len(a) > StoreCapacity
  <2>1. e = Tail(a) /\ a # <<>> BY <1>5, <1>7, <1>8, EmptySeq
  <2>2. IsTail(ViewFrame, a, e) BY <1>5, <2>1, TailItems
  <2>3. /\ e \in Seq(ViewFrame) /\ Len(e) = n /\ Items(e) \subseteq Items(a)
        /\ \A c : Rising(a, c) => Rising(e, c)
    BY <1>5, <2>2 DEF IsTail
  <2>4. n = StoreCapacity /\ n # 0 BY <1>1, <1>2, <1>5, <1>8, ViewerConstants
  <2>5. e[n] = h
    <3>1. \A i \in 1..Len(e) : e[i] = a[i + 1] BY <1>5, <2>1, HeadTailProperties
    <3>2. n \in 1..n BY <2>4
    <3>3. QED BY <1>6, <2>3, <3>1, <3>2
  <2>6. e # <<>> /\ V!Last(e) = h BY <2>3, <2>4, <2>5, EmptySeq DEF V!Last
  <2>7. Len(e) <= StoreCapacity BY <1>1, <1>2, <2>3
  <2>8. QED BY <1>5, <2>3, <2>6, <2>7
<1>9. CASE ~(Len(a) > StoreCapacity)
  <2>1. e = a /\ Len(e) <= StoreCapacity BY <1>5, <1>7, <1>9, ViewerConstants
  <2>2. e # <<>> /\ V!Last(e) = h BY <1>5, <1>6, <2>1, EmptySeq DEF V!Last
  <2>3. QED BY <1>5, <2>1, <2>2
<1>10. QED BY <1>8, <1>9

(* The window takes a frame out of the queue and may store it.             *)
LEMMA RefreshKeeps ==
  ASSUME ViewerHolds, V!Refresh
  PROVE  ViewerHolds'
<1>1. /\ FramesFit /\ LineIsMade /\ CountsAreReal /\ Lost \in Nat /\ \A d \in Clients : LineInOrder(d)
  BY ViewerParts
<1>2. ThreadsFit' BY WindowMoves DEF ViewerHolds
<1>3. /\ UNCHANGED <<batch, pipe, written, lost, reader, vDropped, vMissed>>
      /\ vQueue # <<>> /\ vQueue' = Tail(vQueue) /\ window = "idle"
  BY DEF V!Refresh, V!peerVars, V!readerVars
<1>4. /\ vQueue \in Seq(ViewFrame) /\ Len(vQueue) <= QueueSize
      /\ loaded \in [Clients \union {"gui"} -> Nat] /\ vDropped \in Nat
  BY <1>1 DEF FramesFit
<1>5. PICK h : h = Head(vQueue) OBVIOUS
<1>6. PICK q : q = Tail(vQueue) OBVIOUS
<1>7. PICK e : e = V!Stored(h) OBVIOUS
<1>8. /\ vQueue' = q
      /\ \/ UNCHANGED <<events, window, loaded>>
         \/ /\ events' = e
            /\ \/ UNCHANGED <<window, loaded>>
               \/ h.dropped > 0 /\ window' = "counting" /\ loaded' = [loaded EXCEPT !["gui"] = vDropped]
  BY <1>3, <1>5, <1>6, <1>7 DEF V!Refresh, V!Gui
<1>9. IsTail(ViewFrame, vQueue, q) BY <1>3, <1>4, <1>6, TailItems
<1>10. /\ q \in Seq(ViewFrame) /\ Len(q) <= QueueSize /\ Items(q) \subseteq Items(vQueue)
       /\ h \in Items(vQueue) /\ h \in ViewFrame
       /\ \A c : Rising(vQueue, c) =>
            Rising(q, c) /\ \A g \in Items(q) : h.from = c /\ g.from = c => h.number < g.number
  BY <1>4, <1>5, <1>9, ViewerConstants DEF IsTail
<1>11. /\ e \in Seq(ViewFrame) /\ Len(e) <= StoreCapacity /\ Items(e) \subseteq Items(events) \union {h}
       /\ e # <<>> /\ V!Last(e) = h
       /\ \A c : Rising(events, c) /\ (\A g \in Items(events) : g.from = c /\ h.from = c => g.number < h.number)
                   => Rising(e, c)
  BY <1>1, <1>7, <1>10, StoredFits
<1>12. PICK v : v = events' OBVIOUS
<1>13. v = events \/ v = e BY <1>8, <1>12
<1>14. /\ v \in Seq(ViewFrame) /\ Len(v) <= StoreCapacity
       /\ Items(v) \subseteq Items(events) \union Items(vQueue)
  BY <1>1, <1>10, <1>11, <1>13 DEF FramesFit
<1>15. loaded' \in [Clients \union {"gui"} -> Nat] /\ window' \in {"idle", "counting"}
  BY <1>3, <1>4, <1>8
<1>16. FramesFit' BY <1>1, <1>3, <1>8, <1>10, <1>12, <1>14, <1>15 DEF FramesFit
<1>17. LineIsMade'
  <2>1. \A g \in Items(q) \union Items(v) : g \in Items(vQueue) \union Items(events)
    BY <1>10, <1>14
  <2>2. QED BY <1>1, <1>3, <1>8, <1>12, <2>1 DEF LineIsMade, Made
<1>18. CountsAreReal'
  <2>1. Lost' = Lost BY <1>3 DEF Lost
  <2>2. \A t \in Clients \union {"gui"} : loaded'[t] = loaded[t] \/ loaded'[t] = vDropped
    BY <1>4, <1>8
  <2>3. \A t \in Clients \union {"gui"} : loaded'[t] <= vMissed + Lost
    BY <1>1, <2>2 DEF CountsAreReal
  <2>4. window' = "counting" => events' # <<>> /\ V!Last(events').dropped > 0
    BY <1>3, <1>8, <1>11
  <2>5. QED BY <1>1, <1>3, <2>1, <2>3, <2>4 DEF CountsAreReal
<1>19. ASSUME NEW d \in Clients PROVE LineInOrder(d)'
  <2>1. /\ Rising(pipe[d], d) /\ Rising(batch[d], d) /\ Rising(vQueue, d) /\ Rising(events, d)
        /\ Before(batch[d], pipe[d], d) /\ Before(vQueue, pipe[d], d) /\ Before(events, pipe[d], d)
        /\ Before(vQueue, batch[d], d) /\ Before(events, batch[d], d) /\ Before(events, vQueue, d)
    BY <1>1 DEF LineInOrder
  <2>2. Rising(q, d) /\ Before(q, pipe[d], d) /\ Before(q, batch[d], d)
    BY <1>10, <2>1 DEF Before
  <2>3. Before(v, pipe[d], d) /\ Before(v, batch[d], d)
    BY <1>14, <2>1 DEF Before
  <2>4. Before(events, q, d) BY <1>10, <2>1 DEF Before
  <2>5. Rising(e, d) /\ Before(e, q, d)
    <3>1. \A g \in Items(events) : g.from = d /\ h.from = d => g.number < h.number
      BY <1>10, <2>1 DEF Before
    <3>2. Rising(e, d) BY <1>11, <2>1, <3>1
    <3>3. \A g \in Items(q) : h.from = d /\ g.from = d => h.number < g.number BY <1>10, <2>1
    <3>4. Before(e, q, d) BY <1>11, <2>4, <3>3 DEF Before
    <3>5. QED BY <3>2, <3>4
  <2>6. Rising(v, d) /\ Before(v, q, d) BY <1>13, <2>1, <2>4, <2>5
  <2>7. QED BY <1>3, <1>8, <1>12, <2>1, <2>2, <2>3, <2>6 DEF LineInOrder
<1>20. QED BY <1>2, <1>16, <1>17, <1>18, <1>19 DEF ViewerHolds

LEMMA LargerOfTwo ==
  ASSUME NEW x \in Nat, NEW y \in Nat, NEW z, z = V!Max({x, y})
  PROVE  z \in {x, y} /\ z >= x /\ z >= y
<1>1. z = CHOOSE m \in {x, y} : \A n \in {x, y} : m >= n BY DEF V!Max
<1>2. \E m \in {x, y} : \A n \in {x, y} : m >= n
  <2>1. CASE x >= y BY <2>1
  <2>2. CASE ~(x >= y) BY <2>2
  <2>3. QED BY <2>1, <2>2
<1>3. z \in {x, y} /\ \A n \in {x, y} : z >= n BY <1>1, <1>2
<1>4. QED BY <1>3

(* The window writes the larger count, whatever the readers have written.  *)
LEMMA ToldKeeps ==
  ASSUME ViewerHolds, V!CountTold
  PROVE  ViewerHolds'
<1>1. /\ FramesFit /\ LineIsMade /\ CountsAreReal /\ Lost \in Nat
      /\ \A d \in Clients : LineInOrder(d) /\ (lost[d] = 1 => Lost > 0)
  BY ViewerParts
<1>2. ThreadsFit' BY WindowMoves DEF ViewerHolds
<1>3. /\ UNCHANGED <<vQueue, events, batch, pipe, written, lost, reader, loaded, vMissed>>
      /\ window = "counting" /\ window' = "idle"
      /\ vDropped' = V!Max({loaded["gui"], V!Last(events).dropped})
  BY DEF V!CountTold, V!peerVars, V!readerVars, V!Gui
<1>4. PICK f : f = V!Last(events) OBVIOUS
<1>5. f \in Items(events) /\ f.dropped > 0
  <2>1. events # <<>> /\ f.dropped > 0 BY <1>1, <1>3, <1>4 DEF CountsAreReal
  <2>2. events \in Seq(ViewFrame) BY <1>1 DEF FramesFit
  <2>3. PICK n \in Nat : n = Len(events) BY <2>2, LenProperties
  <2>4. n # 0 /\ DOMAIN events = 1..n BY <2>1, <2>2, <2>3, EmptySeq, LenProperties
  <2>5. f = events[n] /\ n \in 1..n BY <1>4, <2>3, <2>4 DEF V!Last
  <2>6. QED BY <2>1, <2>4, <2>5 DEF Items
<1>6. f \in ViewFrame BY <1>1, <1>5, FramesAreTyped
<1>7. f.dropped = 1 /\ Lost > 0
  <2>1. f.from \in Clients /\ f.dropped \in 0..1 /\ f.dropped <= lost[f.from]
    BY <1>1, <1>5, <1>6 DEF ViewFrame, LineIsMade, Made
  <2>2. lost[f.from] \in 0..1 BY <1>1, <2>1 DEF FramesFit
  <2>3. QED BY <1>1, <1>5, <2>1, <2>2
<1>8. loaded["gui"] \in Nat /\ loaded["gui"] <= vMissed + Lost /\ vMissed \in Nat
  BY <1>1 DEF FramesFit, CountsAreReal
<1>9. vDropped' \in {loaded["gui"], 1} /\ vDropped' >= 1
  <2>1. vDropped' = V!Max({loaded["gui"], 1}) BY <1>3, <1>4, <1>7
  <2>2. QED BY <1>8, <2>1, LargerOfTwo
<1>10. vDropped' \in Nat /\ vDropped' <= vMissed + Lost /\ vDropped' > 0 BY <1>1, <1>7, <1>8, <1>9
<1>11. FramesFit' BY <1>1, <1>3, <1>10 DEF FramesFit
<1>12. LineIsMade' BY <1>1, <1>3 DEF LineIsMade, Made, Items
<1>13. CountsAreReal'
  <2>1. Lost' = Lost BY <1>3 DEF Lost
  <2>2. QED BY <1>1, <1>3, <1>10, <2>1 DEF CountsAreReal
<1>14. ASSUME NEW d \in Clients PROVE LineInOrder(d)'
  BY <1>1, <1>3 DEF LineInOrder, Rising, Before, Items
<1>15. QED BY <1>2, <1>11, <1>12, <1>13, <1>14 DEF ViewerHolds

LEMMA ViewerBegins == ReceiversInit => ViewerHolds
<1> SUFFICES ASSUME ReceiversInit PROVE ViewerHolds
  OBVIOUS
<1>1. V!Init BY DEF ReceiversInit
<1>2. ThreadsFit BY <1>1 DEF V!Init, ThreadsFit
<1>3. /\ vQueue = <<>> /\ events = <<>> /\ vDropped = 0 /\ vMissed = 0 /\ window = "idle"
      /\ batch = [c \in Clients |-> <<>>] /\ pipe = [c \in Clients |-> <<>>]
      /\ loaded = [t \in Clients \union {"gui"} |-> 0] /\ written = [c \in Clients |-> 0]
      /\ lost \in [Clients -> 0..1] /\ reader = [c \in Clients |-> "none"]
  BY <1>1 DEF V!Init, V!Gui
<1>4. PICK none : none = <<>> OBVIOUS
<1>5. none \in Seq(ViewFrame) /\ Len(none) = 0 /\ Items(none) = {} /\ \A c : Rising(none, c)
  BY <1>4, EmptyItems
<1>6. vQueue = none /\ events = none /\ \A c \in Clients : batch[c] = none /\ pipe[c] = none
  BY <1>3, <1>4
<1>7. batch \in [Clients -> Seq(ViewFrame)] /\ pipe \in [Clients -> Seq(ViewFrame)]
  BY <1>3, <1>4, <1>5
<1>8. FramesFit BY <1>3, <1>5, <1>6, <1>7, ViewerConstants DEF FramesFit
<1>9. LineIsMade BY <1>5, <1>6 DEF LineIsMade
<1>10. CountsAreReal
  <2>1. IsFiniteSet({c \in Clients : lost[c] = 1}) BY ViewerConstants, FS_Subset
  <2>2. Lost \in Nat BY <2>1, FS_CardinalityType DEF Lost
  <2>3. QED BY <1>3, <2>2 DEF CountsAreReal
<1>11. \A c \in Clients : LineInOrder(c) BY <1>5, <1>6 DEF LineInOrder, Before
<1>12. QED BY <1>2, <1>8, <1>9, <1>10, <1>11 DEF ViewerHolds

LEMMA ViewerStep ==
  ASSUME ViewerHolds, [ReceiversNext]_<<part, allVars, streamVars, viewerVars>>
  PROVE  ViewerHolds'
<1>1. CASE UNCHANGED viewerVars
  <2>1. UNCHANGED <<stopping, acceptor, guest, listener, peer, pipe, reader, handle, batch, loaded,
                    vQueue, window, events, vDropped, closing, targets, wakes, timedOut, written,
                    lost, vMissed>>
    BY <1>1 DEF viewerVars
  <2>2. ThreadsFit' BY <2>1 DEF ViewerHolds, ThreadsFit
  <2>3. UNCHANGED frameVars BY <2>1 DEF frameVars
  <2>4. QED BY <2>1, <2>2, <2>3, FramesStay
<1>2. CASE V!Next
  <2>1. ~V!Stop /\ ~V!StopStep BY WindowStaysOpen DEF ViewerHolds
  <2>2. CASE V!AcceptorStep \/ V!PipeFails BY <2>2, AcceptorKeeps
  <2>3. CASE V!Refresh \/ V!CountTold BY <2>3, RefreshKeeps, ToldKeeps
  <2>4. ASSUME NEW c \in Clients, V!Connect(c) \/ V!Write(c) \/ V!Leave(c) \/ V!ReaderStep(c)
        PROVE  ViewerHolds'
    BY <2>4, OthersKeep, WriteKeeps, ReadKeeps, HandKeeps, DropKeeps, NextKeeps DEF V!ReaderStep
  <2>5. QED BY <1>2, <2>1, <2>2, <2>3, <2>4 DEF V!Next
<1>3. QED BY <1>1, <1>2 DEF ReceiversNext

LEMMA ViewerInvariant == ReceiversSpec => []ViewerHolds
<1>1. ReceiversInit => ViewerHolds BY ViewerBegins
<1>2. ViewerHolds /\ [ReceiversNext]_<<part, allVars, streamVars, viewerVars>> => ViewerHolds'
  BY ViewerStep
<1>3. QED BY <1>1, <1>2, PTL DEF ReceiversSpec

(* What the window has, and will have, of a proxy is in the order in which *)
(* the proxy made it, for any number of readers beside the window, and its *)
(* count of drops, which they all write without a lock, is neither too     *)
(* large nor zero after a loss of its own.                                 *)
THEOREM WindowAlwaysTells == ReceiversSpec => []WindowTellsTheTruth
<1>1. ASSUME ViewerHolds PROVE V!TypeOK
  <2>1. ThreadsFit /\ FramesFit BY <1>1 DEF ViewerHolds
  <2>2. targets \subseteq Clients /\ wakes \in 0..1
    <3>1. targets = {} /\ wakes = 1 BY <2>1, Zenon DEF ThreadsFit
    <3>2. QED BY <3>1
  <2>3. Len(vQueue) <= QueueSize /\ Len(events) <= StoreCapacity BY <2>1 DEF FramesFit
  <2>4. {vDropped, vMissed} \subseteq Nat BY <2>1 DEF FramesFit
  <2>5. stopping \in BOOLEAN /\ timedOut \in BOOLEAN BY <2>1 DEF ThreadsFit
  <2>6. QED BY <2>1, <2>2, <2>3, <2>4, <2>5, Zenon DEF ThreadsFit, FramesFit, V!TypeOK
<1>2. ASSUME ViewerHolds PROVE V!DropsAreReal
  <2>1. V!Cardinality({c \in Clients : lost[c] = 1}) = Lost
    BY DEF V!Cardinality, Cardinality, Lost
  <2>2. CountsAreReal BY <1>2 DEF ViewerHolds
  <2>3. QED BY <2>1, <2>2 DEF CountsAreReal, V!DropsAreReal
<1>3. ASSUME ViewerHolds, NEW c \in Clients
      PROVE  Rising(events \o vQueue \o batch[c] \o pipe[c], c)
  <2>1. /\ Rising(pipe[c], c) /\ Rising(batch[c], c) /\ Rising(vQueue, c) /\ Rising(events, c)
        /\ Before(batch[c], pipe[c], c) /\ Before(vQueue, pipe[c], c) /\ Before(events, pipe[c], c)
        /\ Before(vQueue, batch[c], c) /\ Before(events, batch[c], c) /\ Before(events, vQueue, c)
    BY <1>3 DEF ViewerHolds, LineInOrder
  <2>2. /\ events \in Seq(ViewFrame) /\ vQueue \in Seq(ViewFrame)
        /\ batch[c] \in Seq(ViewFrame) /\ pipe[c] \in Seq(ViewFrame)
    BY <1>3 DEF ViewerHolds, FramesFit
  <2>3. PICK x : x = events \o vQueue OBVIOUS
  <2>4. IsJoined(ViewFrame, events, vQueue, x) BY <2>2, <2>3, JoinedRises
  <2>5. x \in Seq(ViewFrame) /\ Items(x) = Items(events) \union Items(vQueue) /\ Rising(x, c)
    BY <2>1, <2>4 DEF IsJoined
  <2>6. Before(x, batch[c], c) /\ Before(x, pipe[c], c) BY <2>1, <2>5 DEF Before
  <2>7. PICK y : y = x \o batch[c] OBVIOUS
  <2>8. IsJoined(ViewFrame, x, batch[c], y) BY <2>2, <2>5, <2>7, JoinedRises
  <2>9. y \in Seq(ViewFrame) /\ Items(y) = Items(x) \union Items(batch[c]) /\ Rising(y, c)
    BY <2>1, <2>5, <2>6, <2>8 DEF IsJoined
  <2>10. Before(y, pipe[c], c) BY <2>1, <2>6, <2>9 DEF Before
  <2>11. PICK z : z = y \o pipe[c] OBVIOUS
  <2>12. IsJoined(ViewFrame, y, pipe[c], z) BY <2>2, <2>9, <2>11, JoinedRises
  <2>13. Rising(z, c) BY <2>1, <2>9, <2>10, <2>12 DEF IsJoined
  <2>14. z = events \o vQueue \o batch[c] \o pipe[c] BY <2>3, <2>7, <2>11, Zenon
  <2>15. QED BY <2>13, <2>14, Zenon
<1>4. ASSUME ViewerHolds PROVE V!EventsInOrder
  BY <1>3, <1>4 DEF V!EventsInOrder, Rising
<1>5. ViewerHolds => WindowTellsTheTruth
  BY <1>1, <1>2, <1>4 DEF WindowTellsTheTruth
<1>6. QED BY <1>5, ViewerInvariant, PTL

(***************************************************************************)
(* Induction by the least counterexample, and what FlattenSeq computes.    *)
(***************************************************************************)

(* A set of numbers has a least one.                                       *)
LEMMA LeastNumber ==
  ASSUME NEW T, T \subseteq Nat, T # {}
  PROVE  \E n \in T : \A m \in T : n <= m
<1>1. PICK n \in T : \A m \in T : ~(<<m, n>> \in OpToRel(<, Nat))
  BY NatLessThanWellFounded, WFMin
<1>2. \A m \in T : ~(m < n) BY <1>1 DEF OpToRel
<1>3. QED BY <1>2

(* f[i] is the concatenation of the first i members of s, for i up to n.   *)
Grown(s, n, f) == f = [i \in 1..n |-> IF i = 1 THEN s[i] ELSE f[i - 1] \o s[i]]

(* FlattenSeq takes the last member of such a function.                    *)
LEMMA FlattenIs ==
  ASSUME NEW s
  PROVE  F!FlattenSeq(s) = IF Len(s) = 0 THEN s ELSE (CHOOSE f : Grown(s, Len(s), f))[Len(s)]
BY DEF F!FlattenSeq, Grown

(* What such a function has at each of its places.                         *)
LEMMA GrownAt ==
  ASSUME NEW s, NEW n \in Nat, NEW f, Grown(s, n, f)
  PROVE  \A i \in 1..n : f[i] = IF i = 1 THEN s[i] ELSE f[i - 1] \o s[i]
<1>1. PICK g : g = [i \in 1..n |-> IF i = 1 THEN s[i] ELSE f[i - 1] \o s[i]] OBVIOUS
<1>2. \A i \in 1..n : g[i] = IF i = 1 THEN s[i] ELSE f[i - 1] \o s[i] BY <1>1
<1>3. f = g BY <1>1, Zenon DEF Grown
<1>4. QED BY <1>2, <1>3

(* s and t begin with the same n members.                                  *)
Alike(s, t, n) == \A i \in 1..n : s[i] = t[i]

(* There is one such function, and a longer sequence only adds to it.      *)
LEMMA GrownAgree ==
  ASSUME NEW n \in Nat, NEW m \in Nat, n <= m,
         NEW s, NEW t, NEW f, NEW h, Alike(s, t, n), Grown(s, n, f), Grown(t, m, h)
  PROVE  Alike(f, h, n)
<1>1. PICK T : T = {i \in 1..n : f[i] # h[i]} OBVIOUS
<1>2. SUFFICES ASSUME T # {} PROVE FALSE BY <1>1 DEF Alike
<1>3. T \subseteq Nat BY <1>1
<1>4. PICK i \in T : \A j \in T : i <= j BY <1>2, <1>3, LeastNumber
<1>5. i \in 1..n /\ f[i] # h[i] BY <1>1, <1>4
<1>6. f[i] = (IF i = 1 THEN s[i] ELSE f[i - 1] \o s[i]) BY <1>5, GrownAt
<1>7. h[i] = (IF i = 1 THEN t[i] ELSE h[i - 1] \o t[i]) BY <1>5, GrownAt
<1>8. i # 1 => f[i - 1] = h[i - 1] BY <1>1, <1>4, <1>5
<1>9. QED BY <1>5, <1>6, <1>7, <1>8 DEF Alike

(* There is such a function for the first n members of s, over S.          *)
Growing(S, s, n) == \E f : Grown(s, n, f) /\ \A i \in 1..n : f[i] \in Seq(S)

(* With one for k - 1 members there is one for k.                          *)
LEMMA GrowsOn ==
  ASSUME NEW S, NEW s \in Seq(Seq(S)), NEW k \in 1..Len(s), Growing(S, s, k - 1)
  PROVE  Growing(S, s, k)
<1>1. PICK f : Grown(s, k - 1, f) /\ \A i \in 1..k - 1 : f[i] \in Seq(S) BY DEF Growing
<1>2. PICK m : m = k - 1 OBVIOUS
<1>3. m \in Nat /\ Grown(s, m, f) BY <1>1, <1>2
<1>4. \A i \in 1..m : f[i] = IF i = 1 THEN s[i] ELSE f[i - 1] \o s[i] BY <1>3, GrownAt
<1>5. PICK g : g = [i \in 1..k |-> IF i = 1 THEN s[1] ELSE f[i - 1] \o s[i]] OBVIOUS
<1>6. \A i \in 1..k : g[i] = IF i = 1 THEN s[1] ELSE f[i - 1] \o s[i] BY <1>5
<1>7. \A i \in 1..m : g[i] = f[i] BY <1>2, <1>4, <1>6
<1>8. ASSUME NEW i \in 1..k PROVE g[i] = IF i = 1 THEN s[i] ELSE g[i - 1] \o s[i]
  <2>1. i # 1 => g[i - 1] = f[i - 1] BY <1>2, <1>7
  <2>2. QED BY <1>6, <2>1
<1>9. Grown(s, k, g)
  <2>1. g = [i \in 1..k |-> g[i]] BY <1>5
  <2>2. [i \in 1..k |-> g[i]] = [i \in 1..k |-> IF i = 1 THEN s[i] ELSE g[i - 1] \o s[i]]
    BY <1>8, Zenon
  <2>3. QED BY <2>1, <2>2 DEF Grown
<1>10. \A i \in 1..k : s[i] \in Seq(S) OBVIOUS
<1>11. g[k] \in Seq(S)
  <2>1. CASE k = 1 BY <1>6, <1>10, <2>1
  <2>2. CASE k # 1
    <3>1. f[k - 1] \in Seq(S) /\ s[k] \in Seq(S) BY <1>1, <1>10, <2>2
    <3>2. f[k - 1] \o s[k] \in Seq(S) BY <3>1
    <3>3. g[k] = f[k - 1] \o s[k]
      <4>1. k \in 1..k OBVIOUS
      <4>2. QED BY <1>6, <2>2, <4>1, Zenon
    <3>4. QED BY <3>2, <3>3
  <2>3. QED BY <2>1, <2>2
<1>12. ASSUME NEW i \in 1..k PROVE g[i] \in Seq(S)
  <2>1. CASE i = k BY <1>11, <2>1
  <2>2. CASE i # k
    <3>1. i \in 1..m BY <1>2, <2>2
    <3>2. QED BY <1>1, <1>2, <1>7, <3>1
  <2>3. QED BY <2>1, <2>2
<1>13. QED BY <1>9, <1>12 DEF Growing

(* Hence there is one for any number of members.                           *)
LEMMA GrownExists ==
  ASSUME NEW S, NEW s \in Seq(Seq(S)), NEW n \in 0..Len(s)
  PROVE  Growing(S, s, n)
<1>1. PICK T : T = {k \in 0..Len(s) : ~Growing(S, s, k)} OBVIOUS
<1>2. SUFFICES ASSUME T # {} PROVE FALSE BY <1>1
<1>3. T \subseteq Nat BY <1>1
<1>4. PICK k \in T : \A j \in T : k <= j BY <1>2, <1>3, LeastNumber
<1>5. k \in 0..Len(s) /\ ~Growing(S, s, k) BY <1>1, <1>4
<1>6. Growing(S, s, 0)
  <2>1. PICK f : f = [i \in 1..0 |-> 0] OBVIOUS
  <2>2. Grown(s, 0, f) BY <2>1 DEF Grown
  <2>3. QED BY <2>2 DEF Growing
<1>7. k \in 1..Len(s) BY <1>5, <1>6
<1>8. k - 1 \in 0..Len(s) /\ k - 1 \notin T BY <1>4, <1>7
<1>9. Growing(S, s, k - 1) BY <1>1, <1>8
<1>10. QED BY <1>5, <1>7, <1>9, GrowsOn

(* FlattenSeq of one more sequence: that sequence is added at the end.      *)
LEMMA FlattenAppends ==
  ASSUME NEW S, NEW s \in Seq(Seq(S)), NEW x \in Seq(S)
  PROVE  F!FlattenSeq(s) \in Seq(S) /\ F!FlattenSeq(Append(s, x)) = F!FlattenSeq(s) \o x
<1>1. PICK n, m : n = Len(s) /\ m = n + 1 OBVIOUS
<1>2. n \in Nat /\ m \in Nat /\ n <= m BY <1>1
<1>3. PICK t : t = Append(s, x) OBVIOUS
<1>4. t \in Seq(Seq(S)) /\ Len(t) = m /\ t[m] = x /\ \A i \in 1..n : s[i] = t[i]
  BY <1>1, <1>3
<1>5. PICK g : g = CHOOSE f : Grown(t, m, f) OBVIOUS
<1>6. Grown(t, m, g)
  <2>1. \E f : Grown(t, m, f) BY <1>2, <1>4, GrownExists DEF Growing
  <2>2. QED BY <1>5, <2>1
<1>7. F!FlattenSeq(t) = g[m] BY <1>1, <1>2, <1>4, <1>5, FlattenIs
<1>8. \A i \in 1..m : g[i] = IF i = 1 THEN t[i] ELSE g[i - 1] \o t[i]
  BY <1>2, <1>6, GrownAt
<1>9. CASE n = 0
  <2>1. F!FlattenSeq(s) = s BY <1>1, <1>9, FlattenIs
  <2>2. s = <<>> BY <1>1, <1>9, EmptySeq
  <2>3. F!FlattenSeq(t) = x BY <1>1, <1>4, <1>7, <1>8, <1>9
  <2>4. s \o x = x BY <2>2
  <2>5. s \in Seq(S) BY <2>2
  <2>6. QED BY <1>3, <2>1, <2>3, <2>4, <2>5
<1>10. CASE n # 0
  <2>1. PICK f : f = CHOOSE h : Grown(s, n, h) OBVIOUS
  <2>2. PICK h : Grown(s, n, h) /\ \A i \in 1..n : h[i] \in Seq(S)
    BY <1>1, <1>2, GrownExists DEF Growing
  <2>3. Grown(s, n, f) BY <2>1, <2>2
  <2>4. Alike(f, h, n)
    <3>1. n <= n /\ Alike(s, s, n) BY <1>2 DEF Alike
    <3>2. QED BY <1>2, <2>2, <2>3, <3>1, GrownAgree
  <2>5. Alike(f, g, n)
    <3>1. Alike(s, t, n) BY <1>4 DEF Alike
    <3>2. QED BY <1>2, <1>6, <2>3, <3>1, GrownAgree
  <2>6. F!FlattenSeq(s) = f[n] BY <1>1, <1>10, <2>1, FlattenIs
  <2>7. f[n] = g[n] /\ f[n] \in Seq(S) BY <1>2, <1>10, <2>2, <2>4, <2>5 DEF Alike
  <2>8. F!FlattenSeq(t) = g[n] \o x
    <3>1. m \in 1..m /\ m # 1 /\ m - 1 = n BY <1>1, <1>2, <1>10
    <3>2. g[m] = g[m - 1] \o t[m] BY <1>8, <3>1, Zenon
    <3>3. t[m] = x BY <1>4
    <3>4. QED BY <1>7, <3>1, <3>2, <3>3
  <2>9. QED BY <1>3, <2>6, <2>7, <2>8
<1>11. QED BY <1>2, <1>9, <1>10

(***************************************************************************)
(* The bytes of a stream and where its frames end.                         *)
(***************************************************************************)

Place == Nat \X Nat

(* The bytes of the first k frames. *)
UpTo(k) == F!FlattenSeq([g \in 1..k |-> F!BytesOf(g)])

(* What FrameStream calls BytesOf, Bytes and End, said with UpTo.          *)
LEMMA BytesAreParts ==
  ASSUME stream \in Streams
  PROVE  /\ Len(stream) \in Nat
         /\ \A k \in 1..Len(stream) : /\ stream[k] \in F!Frame /\ stream[k].size \in Nat
                                      /\ HeaderSize <= stream[k].size
                                      /\ stream[k].size <= MaximumFrameSize
                                      /\ F!BytesOf(k) \in Seq(Place)
                                      /\ Len(F!BytesOf(k)) = stream[k].size
         /\ \A k \in 0..Len(stream) : F!End(k) = Len(UpTo(k))
         /\ F!Bytes = UpTo(Len(stream))
<1>1. stream \in Seq(F!Frame) BY StreamConstants
<1>2. Len(stream) \in Nat BY <1>1
<1>3. ASSUME NEW k \in 1..Len(stream)
      PROVE  /\ stream[k] \in F!Frame /\ stream[k].size \in Nat
             /\ HeaderSize <= stream[k].size /\ stream[k].size <= MaximumFrameSize
             /\ F!BytesOf(k) \in Seq(Place) /\ Len(F!BytesOf(k)) = stream[k].size
  <2>1. stream[k] \in F!Frame BY <1>1
  <2>2. stream[k].size \in HeaderSize..MaximumFrameSize BY <2>1 DEF F!Frame
  <2>3. PICK n : n = stream[k].size OBVIOUS
  <2>4. n \in Nat /\ HeaderSize <= n /\ n <= MaximumFrameSize BY <2>2, <2>3, StreamConstants
  <2>5. F!BytesOf(k) = [b \in 1..n |-> <<k, b>>] BY <2>3 DEF F!BytesOf
  <2>6. k \in Nat BY <1>2
  <2>7. F!BytesOf(k) \in Seq(Place) /\ Len(F!BytesOf(k)) = n BY <2>4, <2>5, <2>6 DEF Place
  <2>8. QED BY <2>1, <2>3, <2>4, <2>7
<1>4. \A k \in 0..Len(stream) : F!End(k) = Len(UpTo(k))
  BY Zenon DEF F!End, UpTo
<1>5. F!Bytes = UpTo(Len(stream))
  <2>1. DOMAIN stream = 1..Len(stream) BY <1>1
  <2>2. QED BY <2>1, Zenon DEF F!Bytes, UpTo
<1>6. QED BY <1>2, <1>3, <1>4, <1>5

(* One more frame adds its bytes.                                          *)
LEMMA PartsGrow ==
  ASSUME stream \in Streams
  PROVE  /\ \A k \in 0..Len(stream) : UpTo(k) \in Seq(Place)
         /\ UpTo(0) = <<>>
         /\ \A k \in 1..Len(stream) : UpTo(k) = UpTo(k - 1) \o F!BytesOf(k)
<1>1. Len(stream) \in Nat /\ \A k \in 1..Len(stream) : F!BytesOf(k) \in Seq(Place)
  BY BytesAreParts
<1>2. ASSUME NEW k \in 0..Len(stream)
      PROVE  [g \in 1..k |-> F!BytesOf(g)] \in Seq(Seq(Place))
  <2>1. \A g \in 1..k : F!BytesOf(g) \in Seq(Place) BY <1>1
  <2>2. k \in Nat BY <1>1
  <2>3. QED BY <2>1, <2>2
<1>3. \A k \in 0..Len(stream) : UpTo(k) \in Seq(Place)
  <2>1. <<>> \in Seq(Place) BY EmptySeq
  <2>2. QED BY <1>2, <2>1, FlattenAppends DEF UpTo
<1>4. UpTo(0) = <<>>
  <2>1. PICK s : s = [g \in 1..0 |-> F!BytesOf(g)] OBVIOUS
  <2>2. s = <<>> BY <2>1
  <2>3. Len(s) = 0 BY <2>2
  <2>4. F!FlattenSeq(s) = s BY <2>3, FlattenIs
  <2>5. QED BY <2>1, <2>2, <2>4 DEF UpTo
<1>5. ASSUME NEW k \in 1..Len(stream) PROVE UpTo(k) = UpTo(k - 1) \o F!BytesOf(k)
  <2>1. PICK m : m = k - 1 OBVIOUS
  <2>2. m \in 0..Len(stream) /\ k \in 0..Len(stream) /\ k = m + 1 BY <1>1, <2>1
  <2>3. PICK s, t, x : /\ s = [g \in 1..m |-> F!BytesOf(g)] /\ t = [g \in 1..k |-> F!BytesOf(g)]
                       /\ x = F!BytesOf(k)
    OBVIOUS
  <2>4. s \in Seq(Seq(Place)) /\ t \in Seq(Seq(Place)) /\ x \in Seq(Place)
    BY <1>1, <1>2, <2>2, <2>3
  <2>5. t = Append(s, x)
    <3>1. Len(s) = m /\ Len(t) = k BY <2>2, <2>3
    <3>2. \A i \in 1..m : s[i] = t[i] BY <2>2, <2>3
    <3>3. t[k] = x BY <2>2, <2>3
    <3>4. PICK u : u = Append(s, x) OBVIOUS
    <3>5. u \in Seq(Seq(Place)) /\ Len(u) = k /\ u[k] = x /\ \A i \in 1..m : u[i] = s[i]
      BY <2>2, <2>4, <3>1, <3>4
    <3>6. \A i \in 1..k : u[i] = t[i] BY <2>2, <3>2, <3>3, <3>5
    <3>7. u = t BY <2>4, <3>1, <3>5, <3>6, SeqEqual
    <3>8. QED BY <3>4, <3>7
  <2>6. F!FlattenSeq(t) = F!FlattenSeq(s) \o x BY <2>4, <2>5, FlattenAppends
  <2>7. QED BY <2>1, <2>3, <2>6 DEF UpTo
<1>6. QED BY <1>3, <1>4, <1>5

(* A frame ends where the one before it does, and its bytes after that.    *)
LEMMA EndsGrow ==
  ASSUME stream \in Streams
  PROVE  /\ F!End(0) = 0 /\ \A k \in 0..Len(stream) : F!End(k) \in Nat
         /\ \A k \in 1..Len(stream) : F!End(k) = F!End(k - 1) + stream[k].size
         /\ F!Bytes \in Seq(Place) /\ Len(F!Bytes) = F!End(Len(stream))
<1>1. /\ Len(stream) \in Nat
      /\ \A k \in 1..Len(stream) : F!BytesOf(k) \in Seq(Place) /\ Len(F!BytesOf(k)) = stream[k].size
      /\ \A k \in 0..Len(stream) : F!End(k) = Len(UpTo(k))
      /\ F!Bytes = UpTo(Len(stream))
  BY BytesAreParts
<1>2. /\ \A k \in 0..Len(stream) : UpTo(k) \in Seq(Place)
      /\ UpTo(0) = <<>>
      /\ \A k \in 1..Len(stream) : UpTo(k) = UpTo(k - 1) \o F!BytesOf(k)
  BY PartsGrow
<1>3. F!End(0) = 0
  <2>1. 0 \in 0..Len(stream) BY <1>1
  <2>2. Len(<<>>) = 0 OBVIOUS
  <2>3. QED BY <1>1, <1>2, <2>1, <2>2
<1>4. \A k \in 0..Len(stream) : F!End(k) \in Nat BY <1>1, <1>2
<1>5. ASSUME NEW k \in 1..Len(stream) PROVE F!End(k) = F!End(k - 1) + stream[k].size
  <2>1. PICK m : m = k - 1 OBVIOUS
  <2>2. m \in 0..Len(stream) /\ k \in 0..Len(stream) BY <1>1, <2>1
  <2>3. PICK s, x : s = UpTo(m) /\ x = F!BytesOf(k) OBVIOUS
  <2>4. s \in Seq(Place) /\ x \in Seq(Place) BY <1>1, <1>2, <2>2, <2>3
  <2>5. Len(s \o x) = Len(s) + Len(x) BY <2>4
  <2>6. UpTo(k) = s \o x BY <1>2, <2>1, <2>3
  <2>7. QED BY <1>1, <2>1, <2>2, <2>3, <2>5, <2>6
<1>6. F!Bytes \in Seq(Place) /\ Len(F!Bytes) = F!End(Len(stream))
  <2>1. Len(stream) \in 0..Len(stream) BY <1>1
  <2>2. QED BY <1>1, <1>2, <2>1
<1>7. QED BY <1>3, <1>4, <1>5, <1>6

(* Hence a later frame ends later.                                         *)
LEMMA EndsRise ==
  ASSUME stream \in Streams, NEW j \in 0..Len(stream), NEW k \in 0..Len(stream), j < k
  PROVE  F!End(j) < F!End(k)
<1>1. /\ \A i \in 0..Len(stream) : F!End(i) \in Nat
      /\ \A i \in 1..Len(stream) : F!End(i) = F!End(i - 1) + stream[i].size
  BY EndsGrow
<1>2. /\ Len(stream) \in Nat
      /\ \A i \in 1..Len(stream) : stream[i].size \in Nat /\ HeaderSize <= stream[i].size
  BY BytesAreParts
<1>3. PICK T : T = {i \in 0..Len(stream) : j < i /\ ~(F!End(j) < F!End(i))} OBVIOUS
<1>4. SUFFICES ASSUME T # {} PROVE FALSE BY <1>3
<1>5. T \subseteq Nat BY <1>2, <1>3
<1>6. PICK i \in T : \A m \in T : i <= m BY <1>4, <1>5, LeastNumber
<1>7. i \in 1..Len(stream) /\ j < i /\ ~(F!End(j) < F!End(i)) BY <1>2, <1>3, <1>6
<1>8. F!End(i) = F!End(i - 1) + stream[i].size /\ stream[i].size \in Nat /\ HeaderSize <= stream[i].size
  BY <1>1, <1>2, <1>7
<1>9. i - 1 \in 0..Len(stream) /\ i - 1 \notin T BY <1>2, <1>6, <1>7
<1>10. F!End(j) \in Nat /\ F!End(i - 1) \in Nat /\ F!End(i) \in Nat BY <1>1, <1>7, <1>9
<1>11. j = i - 1 \/ F!End(j) < F!End(i - 1) BY <1>3, <1>7, <1>9
<1>12. F!End(j) <= F!End(i - 1)
  <2>1. CASE j = i - 1 BY <1>10, <2>1
  <2>2. CASE F!End(j) < F!End(i - 1) BY <1>10, <2>2
  <2>3. QED BY <1>11, <2>1, <2>2
<1>13. QED BY <1>7, <1>8, <1>10, <1>12, StreamConstants

(* Which byte of which frame is at a place of the stream.                  *)
LEMMA BytesLie ==
  ASSUME stream \in Streams, NEW k \in 1..Len(stream), NEW b \in 1..stream[k].size
  PROVE  F!Bytes[F!End(k - 1) + b] = <<k, b>>
<1>1. /\ Len(stream) \in Nat
      /\ \A i \in 1..Len(stream) : /\ F!BytesOf(i) \in Seq(Place) /\ stream[i].size \in Nat
                                   /\ Len(F!BytesOf(i)) = stream[i].size
      /\ \A i \in 0..Len(stream) : F!End(i) = Len(UpTo(i))
      /\ F!Bytes = UpTo(Len(stream))
  BY BytesAreParts
<1>2. /\ \A i \in 0..Len(stream) : UpTo(i) \in Seq(Place)
      /\ \A i \in 1..Len(stream) : UpTo(i) = UpTo(i - 1) \o F!BytesOf(i)
  BY PartsGrow
<1>3. /\ \A i \in 0..Len(stream) : F!End(i) \in Nat
      /\ \A i \in 1..Len(stream) : F!End(i) = F!End(i - 1) + stream[i].size
  BY EndsGrow
<1>4. PICK p : p = F!End(k - 1) + b OBVIOUS
<1>5. k - 1 \in 0..Len(stream) /\ F!End(k - 1) \in Nat BY <1>1, <1>3
<1>6. b \in Nat /\ 1 <= b /\ b <= stream[k].size /\ stream[k].size \in Nat BY <1>1
<1>7. F!End(k) = F!End(k - 1) + stream[k].size BY <1>3
<1>8. p \in Nat /\ 1 <= p /\ p <= F!End(k) BY <1>4, <1>5, <1>6, <1>7
<1>9. ASSUME NEW i \in 0..Len(stream), NEW j \in 1..Len(stream), i = j - 1
      PROVE  /\ UpTo(j) = UpTo(i) \o F!BytesOf(j)
             /\ \A q \in 1..F!End(i) : UpTo(j)[q] = UpTo(i)[q]
             /\ \A q \in 1..stream[j].size : UpTo(j)[F!End(i) + q] = F!BytesOf(j)[q]
  <2>1. PICK s, x : s = UpTo(i) /\ x = F!BytesOf(j) OBVIOUS
  <2>2. s \in Seq(Place) /\ x \in Seq(Place) /\ Len(s) = F!End(i) /\ Len(x) = stream[j].size
    BY <1>1, <1>2, <2>1
  <2>3. UpTo(j) = s \o x BY <1>2, <1>9, <2>1
  <2>4. /\ \A q \in 1..Len(s) : (s \o x)[q] = s[q]
        /\ \A q \in 1..Len(x) : (s \o x)[Len(s) + q] = x[q]
    BY <2>2
  <2>5. QED BY <2>1, <2>2, <2>3, <2>4
<1>10. F!BytesOf(k)[b] = <<k, b>> BY DEF F!BytesOf
<1>11. UpTo(k)[p] = <<k, b>> BY <1>4, <1>5, <1>9, <1>10
<1>12. PICK T : T = {i \in k..Len(stream) : ~(p <= F!End(i) /\ UpTo(i)[p] = <<k, b>>)} OBVIOUS
<1>13. T = {}
  <2>1. SUFFICES ASSUME T # {} PROVE FALSE OBVIOUS
  <2>2. T \subseteq Nat BY <1>1, <1>12
  <2>3. PICK i \in T : \A m \in T : i <= m BY <2>1, <2>2, LeastNumber
  <2>4. i \in k..Len(stream) /\ ~(p <= F!End(i) /\ UpTo(i)[p] = <<k, b>>) BY <1>12, <2>3
  <2>5. i # k BY <1>8, <1>11, <2>4
  <2>6. PICK m : m = i - 1 OBVIOUS
  <2>7. m \in k..Len(stream) /\ m \notin T BY <2>3, <2>4, <2>5, <2>6
  <2>8. p <= F!End(m) /\ UpTo(m)[p] = <<k, b>> BY <1>12, <2>7
  <2>9. m \in 0..Len(stream) /\ i \in 1..Len(stream) /\ F!End(m) \in Nat /\ F!End(i) \in Nat
    BY <1>1, <1>3, <2>4, <2>7
  <2>10. UpTo(i)[p] = UpTo(m)[p] BY <1>8, <1>9, <2>6, <2>8, <2>9
  <2>11. F!End(i) = F!End(m) + stream[i].size /\ stream[i].size \in Nat
    BY <1>1, <1>3, <2>6, <2>9
  <2>12. p <= F!End(i) BY <1>8, <2>8, <2>9, <2>11
  <2>13. QED BY <2>4, <2>8, <2>10, <2>12
<1>14. Len(stream) \in k..Len(stream) BY <1>1
<1>15. QED BY <1>1, <1>4, <1>12, <1>13, <1>14

(***************************************************************************)
(* What has been cut out of a stream, and what is left of it.              *)
(***************************************************************************)

CutOut == Len(delivered) + Len(result)

(* The frames that were cut out are the first ones of the stream, and the  *)
(* buffer has what was read after them; at the pipe, that is less than a   *)
(* frame.                                                                  *)
FirstFramesCut ==
  /\ delivered \in Seq(Seq(Place)) /\ result \in Seq(Seq(Place))
  /\ CutOut <= Len(stream)
  /\ \A i \in DOMAIN delivered : delivered[i] = F!BytesOf(i)
  /\ \A i \in DOMAIN result : result[i] = F!BytesOf(Len(delivered) + i)

RestIsHeld ==
  /\ read \in 0..Len(F!Bytes) /\ F!End(CutOut) <= read
  /\ bytes = SubSeq(F!Bytes, F!End(CutOut) + 1, read)
  /\ Len(bytes) <= 2 * MaximumFrameSize

InFrame == CutOut < Len(stream) => read < F!End(CutOut + 1)

(* What closes or refuses the peer, and that the pipe is read with nothing *)
(* cut out that was not delivered.                                         *)
FailureIsEarned ==
  /\ pc \in {"reading", "parsing", "failed", "closed"}
  /\ failure \in {"none", "header", "payload", "truncated"}
  /\ failure # "none" => pc = "failed"
  /\ failure \in {"header", "payload"} =>
       CutOut < Len(stream) /\ stream[CutOut + 1].fault = failure
  /\ failure = "truncated" => CutOut < Len(stream) /\ F!End(CutOut) < read /\ InFrame
  /\ pc \in {"reading", "closed"} => result = <<>> /\ InFrame
  /\ pc = "closed" => read = F!End(CutOut)

FramesHold ==
  stream \in Streams /\ FirstFramesCut /\ RestIsHeld /\ FailureIsEarned

(* What the buffer begins with.                                            *)
LEMMA RestBegins ==
  ASSUME FramesHold, NEW n, n = CutOut
  PROVE  /\ n \in 0..Len(stream) /\ Len(stream) \in Nat /\ F!End(n) \in Nat /\ read \in Nat
         /\ bytes \in Seq(Place) /\ Len(bytes) = read - F!End(n)
         /\ n = Len(stream) => Len(bytes) = 0
         /\ n < Len(stream) =>
              \A b \in 1..Len(bytes) : b <= stream[n + 1].size => bytes[b] = <<n + 1, b>>
<1>1. /\ F!End(0) = 0 /\ \A k \in 0..Len(stream) : F!End(k) \in Nat
      /\ F!Bytes \in Seq(Place) /\ Len(F!Bytes) = F!End(Len(stream))
  BY EndsGrow DEF FramesHold
<1>2. /\ Len(stream) \in Nat
      /\ \A k \in 1..Len(stream) : stream[k].size \in Nat
  BY BytesAreParts DEF FramesHold
<1>3. n \in 0..Len(stream) /\ n \in Nat
  <2>1. Len(delivered) \in Nat /\ Len(result) \in Nat BY DEF FramesHold, FirstFramesCut
  <2>2. QED BY <1>2, <2>1 DEF FramesHold, FirstFramesCut, CutOut
<1>4. PICK e, by : e = F!End(n) /\ by = F!Bytes OBVIOUS
<1>5. e \in Nat /\ by \in Seq(Place) BY <1>1, <1>3, <1>4
<1>6. read \in 0..Len(by) /\ e <= read /\ bytes = SubSeq(by, e + 1, read)
  BY <1>4 DEF FramesHold, RestIsHeld
<1>7. PICK m : m = Len(by) OBVIOUS
<1>8. m \in Nat /\ read \in Nat /\ read <= m BY <1>5, <1>6, <1>7
<1>9. /\ bytes \in Seq(Place) /\ Len(bytes) = read - e
      /\ \A b \in 1..(read - e) : bytes[b] = by[e + b]
  <2>1. \A i \in e + 1..read : by[i] \in Place BY <1>5, <1>6, <1>7, <1>8
  <2>2. PICK s : s = SubSeq(by, e + 1, read) OBVIOUS
  <2>3. /\ s \in Seq(Place)
        /\ Len(s) = read - e /\ \A b \in 1..(read - e) : s[b] = by[e + b]
    BY <1>5, <1>6, <1>7, <1>8, <2>1, <2>2
  <2>4. s = bytes BY <1>6, <2>2
  <2>5. QED BY <2>3, <2>4
<1>10. n = Len(stream) => Len(bytes) = 0 BY <1>1, <1>4, <1>5, <1>7, <1>8, <1>9, <1>6
<1>11. ASSUME n < Len(stream), NEW b \in 1..Len(bytes), b <= stream[n + 1].size
       PROVE  bytes[b] = <<n + 1, b>>
  <2>1. PICK k : k = n + 1 OBVIOUS
  <2>2. k \in 1..Len(stream) /\ k - 1 = n BY <1>2, <1>3, <1>11, <2>1
  <2>3. b \in 1..stream[k].size BY <1>2, <1>8, <1>9, <1>5, <1>11, <2>1, <2>2
  <2>4. by[F!End(k - 1) + b] = <<k, b>> BY <1>4, <2>2, <2>3, BytesLie DEF FramesHold
  <2>5. QED BY <1>4, <1>9, <1>11, <2>1, <2>2, <2>4
<1>12. QED BY <1>1, <1>2, <1>3, <1>4, <1>5, <1>8, <1>9, <1>10, <1>11

(* A header in the buffer is that of the next frame.                       *)
LEMMA HeaderIsNext ==
  ASSUME FramesHold, NEW n, n = CutOut, F!HasHeader
  PROVE  /\ n < Len(stream) /\ F!FrameSize = stream[n + 1].size
         /\ F!HeaderIsValid <=> stream[n + 1].fault # "header"
         /\ F!HasFrame <=> F!End(n + 1) <= read
<1>1. /\ n \in 0..Len(stream) /\ Len(stream) \in Nat /\ F!End(n) \in Nat /\ read \in Nat
      /\ bytes \in Seq(Place) /\ Len(bytes) = read - F!End(n)
      /\ n = Len(stream) => Len(bytes) = 0
      /\ n < Len(stream) =>
           \A b \in 1..Len(bytes) : b <= stream[n + 1].size => bytes[b] = <<n + 1, b>>
  BY RestBegins
<1>2. HeaderSize <= Len(bytes) /\ HeaderSize \in Nat /\ 1 <= HeaderSize /\ Len(bytes) \in Nat
  BY <1>1, StreamConstants DEF F!HasHeader
<1>3. n < Len(stream) BY <1>1, <1>2
<1>4. PICK k : k = n + 1 OBVIOUS
<1>5. k \in 1..Len(stream) /\ k - 1 = n BY <1>1, <1>3, <1>4
<1>6. stream[k].size \in Nat /\ HeaderSize <= stream[k].size
  BY <1>5, BytesAreParts DEF FramesHold
<1>7. ASSUME NEW b \in 1..HeaderSize PROVE bytes[b] = <<k, b>>
  <2>1. b \in 1..Len(bytes) /\ b <= stream[n + 1].size BY <1>2, <1>4, <1>6
  <2>2. QED BY <1>1, <1>3, <1>4, <2>1
<1>8. bytes[1] = <<k, 1>> BY <1>2, <1>7
<1>9. bytes[1][1] = k BY <1>8
<1>10. F!FrameSize = stream[k].size BY <1>9 DEF F!FrameSize
<1>11. F!HeaderIsValid <=> stream[k].fault # "header" BY <1>7, <1>9 DEF F!HeaderIsValid
<1>12. F!End(k) = F!End(n) + stream[k].size /\ F!End(k) \in Nat
  <2>1. k \in 0..Len(stream) BY <1>1, <1>5
  <2>2. QED BY <1>5, <2>1, EndsGrow DEF FramesHold
<1>13. F!HasFrame <=> F!End(k) <= read BY <1>1, <1>2, <1>6, <1>10, <1>12 DEF F!HasFrame
<1>14. QED BY <1>3, <1>4, <1>10, <1>11, <1>13

(* The stream does not change, and what is said of it alone does not.      *)
LEMMA StreamStays ==
  ASSUME stream' = stream
  PROVE  /\ F!Bytes' = F!Bytes
         /\ \A k : F!End(k)' = F!End(k) /\ F!BytesOf(k)' = F!BytesOf(k)
<1>1. \A k : F!BytesOf(k)' = F!BytesOf(k) BY DEF F!BytesOf
<1>2. \A k : F!End(k)' = F!End(k) BY DEF F!End, F!BytesOf
<1>3. F!Bytes' = F!Bytes BY DEF F!Bytes, F!BytesOf
<1>4. QED BY <1>1, <1>2, <1>3

(* What a step must show that cuts out no frame.                           *)
LEMMA NothingCut ==
  ASSUME FramesHold, UNCHANGED <<stream, delivered, result>>
  PROVE  CutOut' = CutOut /\ stream' \in Streams /\ FirstFramesCut'
<1>1. CutOut' = CutOut BY DEF CutOut
<1>2. FirstFramesCut' BY <1>1, StreamStays DEF FramesHold, FirstFramesCut
<1>3. QED BY <1>1, <1>2 DEF FramesHold

(* A read, a turn of the loop, the end of Feed, the end of the peer.       *)
LEMMA ReadChunkKeeps == ASSUME FramesHold, F!ReadChunk PROVE FramesHold'
<1>1. pc = "reading" /\ UNCHANGED <<stream, result, delivered>> BY DEF F!ReadChunk
<1>2. CutOut' = CutOut /\ stream' \in Streams /\ FirstFramesCut' BY <1>1, NothingCut
<1>3. PICK n : n = CutOut OBVIOUS
<1>4. /\ n \in 0..Len(stream) /\ Len(stream) \in Nat /\ F!End(n) \in Nat /\ read \in Nat
      /\ bytes \in Seq(Place) /\ Len(bytes) = read - F!End(n)
      /\ n = Len(stream) => Len(bytes) = 0
  BY <1>3, RestBegins
<1>5. result = <<>> /\ failure = "none" /\ (n < Len(stream) => read < F!End(n + 1))
  BY <1>1, <1>3 DEF FramesHold, FailureIsEarned, InFrame
<1>6. Len(bytes) \in Nat /\ Len(bytes) <= MaximumFrameSize
  <2>1. CASE n = Len(stream) BY <1>4, <2>1, StreamConstants
  <2>2. CASE n < Len(stream)
    <3>1. PICK k : k = n + 1 OBVIOUS
    <3>2. k \in 1..Len(stream) /\ k - 1 = n BY <1>4, <2>2, <3>1
    <3>3. stream[k].size \in Nat /\ stream[k].size <= MaximumFrameSize
      BY <3>2, BytesAreParts DEF FramesHold
    <3>4. F!End(k) = F!End(n) + stream[k].size BY <3>2, EndsGrow DEF FramesHold
    <3>5. read < F!End(k) BY <1>5, <2>2, <3>1
    <3>6. Len(bytes) \in Nat BY <1>4
    <3>7. QED BY <1>4, <3>3, <3>4, <3>5, <3>6, StreamConstants
  <2>3. QED BY <1>4, <2>1, <2>2
<1>7. PICK c \in 1..ReadBufferSize :
        /\ read + c <= Len(F!Bytes)
        /\ IF Len(bytes) > F!Capacity - c
           THEN F!Fail("overflow") /\ UNCHANGED <<bytes, read>>
           ELSE /\ bytes' = bytes \o SubSeq(F!Bytes, read + 1, read + c) /\ read' = read + c
                /\ pc' = "parsing" /\ UNCHANGED failure
  BY DEF F!ReadChunk
<1>8. c \in Nat /\ 1 <= c /\ c <= MaximumFrameSize BY StreamConstants
<1>9. ~(Len(bytes) > F!Capacity - c) BY <1>6, <1>8, StreamConstants DEF F!Capacity
<1>10. /\ bytes' = bytes \o SubSeq(F!Bytes, read + 1, read + c) /\ read' = read + c
       /\ pc' = "parsing" /\ failure' = failure
  BY <1>7, <1>9
<1>11. RestIsHeld'
  <2>1. PICK e, by : e = F!End(n) /\ by = F!Bytes OBVIOUS
  <2>2. e \in Nat /\ by \in Seq(Place) BY <1>4, <2>1, EndsGrow DEF FramesHold
  <2>3. read \in 0..Len(by) /\ e <= read /\ bytes = SubSeq(by, e + 1, read)
    BY <1>3, <2>1 DEF FramesHold, RestIsHeld
  <2>4. read + c <= Len(by) /\ read + c \in Nat BY <1>4, <1>7, <1>8, <2>1
  <2>5. PICK s : s = SubSeq(by, read + 1, read + c) OBVIOUS
  <2>6. bytes \o s = SubSeq(by, e + 1, read + c)
    <3>1. PICK m, k, q : m = e + 1 /\ k = read /\ q = read + c OBVIOUS
    <3>2. m \in 1..Len(by) + 1 /\ k \in m - 1..Len(by) /\ q \in k..Len(by)
      <4>1. Len(by) \in Nat BY <2>2
      <4>2. QED BY <1>4, <1>8, <2>2, <2>3, <2>4, <3>1, <4>1
    <3>3. SubSeq(by, m, k) \o SubSeq(by, k + 1, q) = SubSeq(by, m, q)
      BY <2>2, <3>2, ConcatAdjacentSubSeq
    <3>4. QED BY <2>3, <2>5, <3>1, <3>3
  <2>7. bytes' = SubSeq(by, e + 1, read + c) BY <1>10, <2>1, <2>5, <2>6
  <2>8. Len(bytes') <= 2 * MaximumFrameSize
    <3>1. s \in Seq(Place) /\ Len(s) = c
      <4>1. \A i \in read + 1..read + c : by[i] \in Place BY <1>4, <1>8, <2>2, <2>4
      <4>2. QED BY <1>4, <1>8, <2>2, <2>4, <2>5, <4>1
    <3>2. Len(bytes \o s) = Len(bytes) + c BY <1>4, <3>1
    <3>3. bytes' = bytes \o s BY <1>10, <2>1, <2>5
    <3>4. QED BY <1>6, <1>8, <3>2, <3>3, StreamConstants
  <2>9. F!End(CutOut)' = e /\ F!Bytes' = by
    BY <1>1, <1>2, <1>3, <2>1, StreamStays DEF F!End, F!BytesOf
  <2>10. read' \in 0..Len(by) /\ e <= read' BY <1>4, <1>8, <1>10, <2>2, <2>3, <2>4
  <2>11. QED BY <1>10, <2>7, <2>8, <2>9, <2>10 DEF RestIsHeld
<1>12. FailureIsEarned' BY <1>5, <1>10 DEF FailureIsEarned
<1>13. QED BY <1>2, <1>11, <1>12 DEF FramesHold

LEMMA CutKeeps == ASSUME FramesHold, F!CutFrame PROVE FramesHold'
<1>1. pc = "parsing" /\ F!HasHeader /\ UNCHANGED <<stream, read, delivered>> BY DEF F!CutFrame
<1>2. PICK n, k : n = CutOut /\ k = n + 1 OBVIOUS
<1>3. /\ n \in 0..Len(stream) /\ Len(stream) \in Nat /\ F!End(n) \in Nat /\ read \in Nat
      /\ bytes \in Seq(Place) /\ Len(bytes) = read - F!End(n)
      /\ n < Len(stream) =>
           \A b \in 1..Len(bytes) : b <= stream[n + 1].size => bytes[b] = <<n + 1, b>>
  BY <1>2, RestBegins
<1>4. /\ n < Len(stream) /\ F!FrameSize = stream[k].size
      /\ F!HeaderIsValid <=> stream[k].fault # "header"
      /\ F!HasFrame <=> F!End(k) <= read
  BY <1>1, <1>2, HeaderIsNext
<1>5. /\ k \in 1..Len(stream) /\ k \in 0..Len(stream) /\ k - 1 = n
      /\ \A b \in 1..Len(bytes) : b <= stream[k].size => bytes[b] = <<k, b>>
  BY <1>2, <1>3, <1>4
<1>6. /\ F!BytesOf(k) \in Seq(Place) /\ Len(F!BytesOf(k)) = stream[k].size /\ stream[k].size \in Nat
      /\ HeaderSize <= stream[k].size /\ stream[k] \in F!Frame
  BY <1>5, BytesAreParts DEF FramesHold
<1>7. ASSUME UNCHANGED <<bytes, result>>,
             \/ F!Fail("header") /\ stream[k].fault = "header"
             \/ F!Fail("payload") /\ stream[k].fault = "payload"
      PROVE  FramesHold'
  <2>1. CutOut' = CutOut /\ stream' \in Streams /\ FirstFramesCut' BY <1>1, <1>7, NothingCut
  <2>2. RestIsHeld' BY <1>1, <1>7, <2>1, StreamStays DEF FramesHold, RestIsHeld, F!End, F!BytesOf
  <2>3. pc' = "failed" /\ failure' \in {"header", "payload"} /\ stream[k].fault = failure'
    BY <1>7 DEF F!Fail
  <2>4. FailureIsEarned' BY <1>1, <1>2, <1>4, <2>1, <2>3 DEF FailureIsEarned
  <2>5. QED BY <2>1, <2>2, <2>4 DEF FramesHold
<1>8. CASE ~F!HeaderIsValid BY <1>4, <1>7, <1>8 DEF F!CutFrame
<1>9. CASE F!HeaderIsValid /\ stream[k].fault = "payload"
  <2>1. bytes[1][1] = k
    <3>1. 1 \in 1..Len(bytes) /\ 1 <= stream[k].size
      BY <1>1, <1>3, <1>6, StreamConstants DEF F!HasHeader
    <3>2. QED BY <1>5, <3>1
  <2>2. F!Fail("payload") /\ UNCHANGED <<bytes, result>> BY <1>9, <2>1 DEF F!CutFrame
  <2>3. QED BY <1>7, <1>9, <2>2
<1>10. CASE F!HeaderIsValid /\ stream[k].fault # "payload"
  <2>1. bytes[1][1] = k
    <3>1. 1 \in 1..Len(bytes) /\ 1 <= stream[k].size
      BY <1>1, <1>3, <1>6, StreamConstants DEF F!HasHeader
    <3>2. QED BY <1>5, <3>1
  <2>2. /\ F!HasFrame /\ result' = Append(result, SubSeq(bytes, 1, F!FrameSize))
        /\ bytes' = F!Remaining(F!FrameSize) /\ UNCHANGED <<pc, failure>>
    BY <1>10, <2>1 DEF F!CutFrame
  <2>3. PICK z : z = stream[k].size OBVIOUS
  <2>4. z \in Nat /\ 1 <= z /\ z <= Len(bytes) /\ Len(bytes) \in Nat /\ F!FrameSize = z
    BY <1>3, <1>4, <1>6, <2>2, <2>3, StreamConstants DEF F!HasFrame
  <2>5. SubSeq(bytes, 1, z) = F!BytesOf(k)
    <3>1. \A i \in 1..z : bytes[i] \in Place BY <1>3, <2>4
    <3>2. PICK s : s = SubSeq(bytes, 1, z) OBVIOUS
    <3>3. s \in Seq(Place) /\ Len(s) = z /\ \A i \in 1..z : s[i] = bytes[i]
      BY <2>4, <3>1, <3>2
    <3>4. \A i \in 1..z : s[i] = <<k, i>> BY <1>5, <2>3, <2>4, <3>3
    <3>5. \A i \in 1..z : F!BytesOf(k)[i] = <<k, i>> BY <2>3 DEF F!BytesOf
    <3>6. s = F!BytesOf(k) BY <1>6, <2>3, <3>3, <3>4, <3>5, SeqEqual
    <3>7. QED BY <3>2, <3>6
  <2>6. PICK d, r : d = Len(delivered) /\ r = Len(result) OBVIOUS
  <2>7. d \in Nat /\ r \in Nat /\ n = d + r /\ result \in Seq(Seq(Place))
    BY <1>2, <2>6 DEF FramesHold, FirstFramesCut, CutOut
  <2>8. result' = Append(result, F!BytesOf(k)) BY <2>2, <2>4, <2>5
  <2>9. /\ result' \in Seq(Seq(Place)) /\ Len(result') = r + 1
        /\ \A i \in 1..r : result'[i] = result[i]
        /\ result'[r + 1] = F!BytesOf(k)
    BY <1>6, <2>6, <2>7, <2>8
  <2>10. CutOut' = k BY <1>1, <1>2, <2>6, <2>7, <2>9 DEF CutOut
  <2>11. FirstFramesCut'
    <3>1. ASSUME NEW i \in 1..r PROVE result'[i] = F!BytesOf(d + i)
      <4>1. i \in DOMAIN result BY <2>6, <2>7
      <4>2. result[i] = F!BytesOf(Len(delivered) + i) BY <4>1 DEF FramesHold, FirstFramesCut
      <4>3. QED BY <2>6, <2>9, <4>2
    <3>2. d + (r + 1) = k BY <1>2, <2>7
    <3>3. ASSUME NEW i \in 1..r + 1 PROVE result'[i] = F!BytesOf(d + i)
      <4>1. CASE i \in 1..r BY <3>1, <4>1
      <4>2. CASE i = r + 1 BY <2>9, <3>2, <4>2
      <4>3. QED BY <2>7, <4>1, <4>2
    <3>4. DOMAIN result' = 1..r + 1 BY <2>7, <2>9
    <3>5. \A i : F!BytesOf(i)' = F!BytesOf(i) BY <1>1, StreamStays
    <3>6. Len(delivered)' = d BY <1>1, <2>6
    <3>7. k <= Len(stream) BY <1>5, <1>3
    <3>8. delivered' \in Seq(Seq(Place)) /\ \A i \in DOMAIN delivered' : delivered'[i] = F!BytesOf(i)'
      BY <1>1, <3>5 DEF FramesHold, FirstFramesCut
    <3>9. \A i \in DOMAIN result' : result'[i] = F!BytesOf(Len(delivered) + i)'
      BY <3>3, <3>4, <3>5, <3>6
    <3>10. QED BY <1>1, <2>9, <2>10, <3>7, <3>8, <3>9 DEF FirstFramesCut
  <2>12. RestIsHeld'
    <3>1. PICK e, by, f : e = F!End(n) /\ by = F!Bytes /\ f = F!End(k) OBVIOUS
    <3>2. e \in Nat /\ by \in Seq(Place) /\ f = e + z
      BY <1>3, <1>5, <2>3, <3>1, EndsGrow DEF FramesHold
    <3>3. read \in 0..Len(by) /\ e <= read /\ bytes = SubSeq(by, e + 1, read)
      BY <1>2, <3>1 DEF FramesHold, RestIsHeld
    <3>4. f <= read BY <1>4, <2>2, <3>1
    <3>5. PICK l : l = Len(bytes) OBVIOUS
    <3>6. l = read - e /\ l \in Nat BY <1>3, <2>4, <3>1, <3>5
    <3>7. PICK m : m = Len(by) OBVIOUS
    <3>8. m \in Nat /\ read <= m BY <3>2, <3>3, <3>7
    <3>9. PICK s : s = SubSeq(bytes, z + 1, l) OBVIOUS
    <3>10. s \in Seq(Place) /\ Len(s) = l - z /\ \A i \in 1..l - z : s[i] = bytes[z + i]
      <4>1. \A i \in z + 1..l : bytes[i] \in Place BY <1>3, <2>4, <3>5
      <4>2. l \in Nat /\ z <= l BY <2>4, <3>5
      <4>3. z + 1 \in Int /\ l \in Int BY <2>4, <4>2
      <4>4. /\ s \in Seq(Place) /\ Len(s) = IF z + 1 <= l THEN l - (z + 1) + 1 ELSE 0
            /\ \A i \in 1..l - (z + 1) + 1 : s[i] = bytes[(z + 1) + i - 1]
        BY <3>9, <4>1, <4>3, SubSeqProperties
      <4>5. Len(s) = l - z BY <2>4, <4>2, <4>4
      <4>6. ASSUME NEW i \in 1..l - z PROVE s[i] = bytes[z + i]
        <5>1. i \in 1..l - (z + 1) + 1 /\ (z + 1) + i - 1 = z + i BY <2>4, <4>2
        <5>2. QED BY <4>4, <5>1
      <4>7. QED BY <4>4, <4>5, <4>6
    <3>11. PICK u : u = SubSeq(by, f + 1, read) OBVIOUS
    <3>12. u \in Seq(Place) /\ Len(u) = read - f /\ \A i \in 1..read - f : u[i] = by[f + i]
      <4>1. \A i \in f + 1..read : by[i] \in Place BY <1>3, <2>4, <3>2, <3>7, <3>8
      <4>2. QED BY <1>3, <2>4, <3>2, <3>4, <3>11, <4>1
    <3>13. PICK t : t = SubSeq(by, e + 1, read) OBVIOUS
    <3>14. \A i \in 1..read - e : t[i] = by[e + i]
      <4>1. \A i \in e + 1..read : by[i] \in Place BY <1>3, <3>2, <3>7, <3>8
      <4>2. QED BY <1>3, <3>2, <3>3, <3>13, <4>1
    <3>15. l - z = read - f BY <1>3, <2>4, <3>2, <3>6
    <3>16. ASSUME NEW i \in 1..Len(u) PROVE s[i] = u[i]
      <4>1. i \in 1..l - z /\ i \in 1..read - f BY <3>12, <3>15, <3>16
      <4>2. z + i \in 1..read - e /\ e + (z + i) = f + i
        BY <1>3, <2>4, <3>2, <3>6, <4>1
      <4>3. s[i] = bytes[z + i] BY <3>10, <4>1
      <4>4. bytes[z + i] = by[e + (z + i)] BY <3>3, <3>13, <3>14, <4>2
      <4>5. u[i] = by[f + i] BY <3>12, <4>1
      <4>6. QED BY <4>2, <4>3, <4>4, <4>5
    <3>17. s = u BY <3>10, <3>12, <3>15, <3>16, SeqEqual
    <3>18. bytes' = s BY <2>2, <2>4, <3>5, <3>9 DEF F!Remaining
    <3>19. Len(bytes') <= 2 * MaximumFrameSize
      <4>1. l <= 2 * MaximumFrameSize BY <3>5 DEF FramesHold, RestIsHeld
      <4>2. QED BY <2>4, <3>6, <3>10, <3>18, <4>1, StreamConstants
    <3>20. F!End(CutOut)' = f /\ F!Bytes' = by
      BY <1>1, <2>10, <3>1, StreamStays DEF F!End, F!BytesOf
    <3>21. QED BY <1>1, <3>3, <3>4, <3>11, <3>17, <3>18, <3>19, <3>20 DEF RestIsHeld
  <2>13. FailureIsEarned' BY <1>1, <2>2 DEF FramesHold, FailureIsEarned
  <2>14. QED BY <1>1, <2>11, <2>12, <2>13 DEF FramesHold
<1>11. QED BY <1>8, <1>9, <1>10

LEMMA DeliverKeeps == ASSUME FramesHold, F!Deliver PROVE FramesHold'
<1>1. /\ pc = "parsing" /\ (F!HasHeader => F!HeaderIsValid /\ ~F!HasFrame)
      /\ delivered' = delivered \o result /\ result' = <<>> /\ pc' = "reading"
      /\ UNCHANGED <<stream, read, bytes, failure>>
  BY DEF F!Deliver
<1>2. PICK d, r : d = Len(delivered) /\ r = Len(result) OBVIOUS
<1>3. /\ delivered \in Seq(Seq(Place)) /\ result \in Seq(Seq(Place)) /\ d \in Nat /\ r \in Nat
      /\ \A i \in 1..d : delivered[i] = F!BytesOf(i)
      /\ \A i \in 1..r : result[i] = F!BytesOf(d + i)
  <2>1. delivered \in Seq(Seq(Place)) /\ result \in Seq(Seq(Place)) BY DEF FramesHold, FirstFramesCut
  <2>2. d \in Nat /\ r \in Nat /\ DOMAIN delivered = 1..d /\ DOMAIN result = 1..r
    BY <1>2, <2>1
  <2>3. \A i \in 1..d : delivered[i] = F!BytesOf(i) BY <2>2 DEF FramesHold, FirstFramesCut
  <2>4. \A i \in 1..r : result[i] = F!BytesOf(d + i) BY <1>2, <2>2 DEF FramesHold, FirstFramesCut
  <2>5. QED BY <2>1, <2>2, <2>3, <2>4
<1>4. PICK s : s = delivered \o result OBVIOUS
<1>5. /\ s \in Seq(Seq(Place)) /\ Len(s) = d + r
      /\ \A i \in 1..d : s[i] = delivered[i]
      /\ \A i \in 1..r : s[d + i] = result[i]
  <2>1. s \in Seq(Seq(Place)) BY <1>3, <1>4, ConcatProperties
  <2>2. Len(s) = d + r BY <1>2, <1>3, <1>4, ConcatProperties
  <2>3. ASSUME NEW i \in 1..d PROVE s[i] = delivered[i]
    <3>1. i \in 1..Len(delivered) + Len(result) /\ i <= Len(delivered) BY <1>2, <1>3
    <3>2. QED BY <1>3, <1>4, <3>1, ConcatProperties
  <2>4. ASSUME NEW i \in 1..r PROVE s[d + i] = result[i]
    <3>1. PICK k : k = d + i OBVIOUS
    <3>2. /\ k \in 1..Len(delivered) + Len(result) /\ ~(k <= Len(delivered))
          /\ k - Len(delivered) = i
      BY <1>2, <1>3, <3>1
    <3>3. s[k] = result[k - Len(delivered)] BY <1>3, <1>4, <3>2, ConcatProperties
    <3>4. QED BY <3>1, <3>2, <3>3
  <2>5. QED BY <2>1, <2>2, <2>3, <2>4
<1>6. ASSUME NEW i \in 1..d + r PROVE s[i] = F!BytesOf(i)
  <2>1. CASE i \in 1..d BY <1>3, <1>5, <2>1
  <2>2. CASE i \notin 1..d
    <3>1. PICK j : j = i - d OBVIOUS
    <3>2. j \in 1..r /\ i = d + j BY <1>3, <2>2, <3>1
    <3>3. QED BY <1>3, <1>5, <3>2
  <2>3. QED BY <2>1, <2>2
<1>7. CutOut' = CutOut
  <2>1. Len(<<>>) = 0 OBVIOUS
  <2>2. CutOut' = Len(s) + 0 BY <1>1, <1>4, <2>1 DEF CutOut
  <2>3. QED BY <1>2, <1>3, <1>5, <2>2 DEF CutOut
<1>8. FirstFramesCut'
  <2>1. <<>> \in Seq(Seq(Place)) /\ DOMAIN <<>> = {} BY EmptySeq
  <2>2. \A i : F!BytesOf(i)' = F!BytesOf(i) BY <1>1, StreamStays
  <2>3. DOMAIN s = 1..d + r BY <1>3, <1>5
  <2>4. \A i \in DOMAIN delivered' : delivered'[i] = F!BytesOf(i)'
    BY <1>1, <1>4, <1>6, <2>2, <2>3
  <2>5. CutOut' <= Len(stream') BY <1>1, <1>7 DEF FramesHold, FirstFramesCut
  <2>6. delivered' \in Seq(Seq(Place)) BY <1>1, <1>4, <1>5
  <2>7. result' \in Seq(Seq(Place)) /\ DOMAIN result' = {} BY <1>1, <2>1
  <2>8. QED BY <2>4, <2>5, <2>6, <2>7 DEF FirstFramesCut
<1>9. PICK n : n = CutOut OBVIOUS
<1>10. \A k : F!End(k)' = F!End(k) /\ F!Bytes' = F!Bytes BY <1>1, StreamStays
<1>11. RestIsHeld'
  <2>1. F!End(CutOut)' = F!End(CutOut) BY <1>1, <1>7 DEF F!End, F!BytesOf
  <2>2. QED BY <1>1, <1>10, <2>1 DEF FramesHold, RestIsHeld
<1>12. n < Len(stream) => read < F!End(n + 1)
  <2>1. /\ n \in 0..Len(stream) /\ Len(stream) \in Nat /\ F!End(n) \in Nat /\ read \in Nat
        /\ Len(bytes) = read - F!End(n)
    BY <1>9, RestBegins
  <2>2. SUFFICES ASSUME n < Len(stream) PROVE read < F!End(n + 1) OBVIOUS
  <2>3. PICK k : k = n + 1 OBVIOUS
  <2>4. k \in 1..Len(stream) /\ k \in 0..Len(stream) /\ k - 1 = n BY <2>1, <2>2, <2>3
  <2>5. /\ F!End(k) = F!End(n) + stream[k].size /\ F!End(k) \in Nat
        /\ stream[k].size \in Nat /\ HeaderSize <= stream[k].size
    BY <2>4, EndsGrow, BytesAreParts DEF FramesHold
  <2>6. CASE F!HasHeader
    <3>1. ~(F!End(k) <= read) BY <1>1, <1>9, <2>3, <2>6, HeaderIsNext
    <3>2. QED BY <2>1, <2>3, <2>5, <3>1
  <2>7. CASE ~F!HasHeader
    <3>1. Len(bytes) < HeaderSize BY <2>1, <2>7, StreamConstants DEF F!HasHeader
    <3>2. QED BY <2>1, <2>3, <2>5, <3>1, StreamConstants
  <2>8. QED BY <2>6, <2>7
<1>13. InFrame'
  <2>1. F!End(CutOut + 1)' = F!End(n + 1) BY <1>1, <1>7, <1>9 DEF F!End, F!BytesOf
  <2>2. QED BY <1>1, <1>7, <1>9, <1>12, <2>1 DEF InFrame
<1>14. FailureIsEarned' BY <1>1, <1>13 DEF FramesHold, FailureIsEarned
<1>15. QED BY <1>1, <1>8, <1>11, <1>14 DEF FramesHold

(* A step that leaves the bytes and the frames where they are.             *)
LEMMA NothingMoves ==
  ASSUME FramesHold, UNCHANGED <<stream, read, bytes, result, delivered>>
  PROVE  /\ CutOut' = CutOut /\ stream' \in Streams /\ FirstFramesCut' /\ RestIsHeld'
         /\ InFrame' <=> InFrame
         /\ F!End(CutOut)' = F!End(CutOut)
<1>1. CutOut' = CutOut /\ stream' \in Streams /\ FirstFramesCut' BY NothingCut
<1>2. F!End(CutOut)' = F!End(CutOut) /\ F!End(CutOut + 1)' = F!End(CutOut + 1)
  BY <1>1 DEF F!End, F!BytesOf
<1>3. F!Bytes' = F!Bytes BY StreamStays
<1>4. QED BY <1>1, <1>2, <1>3 DEF FramesHold, RestIsHeld, InFrame

LEMMA EndOfPeerKeeps == ASSUME FramesHold, F!PeerIsGone PROVE FramesHold'
<1>1. pc = "reading" /\ UNCHANGED <<stream, read, bytes, result, delivered>> BY DEF F!PeerIsGone
<1>2. /\ CutOut' = CutOut /\ stream' \in Streams /\ FirstFramesCut' /\ RestIsHeld'
      /\ InFrame' <=> InFrame
      /\ F!End(CutOut)' = F!End(CutOut)
  BY <1>1, NothingMoves
<1>3. PICK n : n = CutOut OBVIOUS
<1>4. /\ n \in 0..Len(stream) /\ Len(stream) \in Nat /\ F!End(n) \in Nat /\ read \in Nat
      /\ bytes \in Seq(Place) /\ Len(bytes) = read - F!End(n)
      /\ n = Len(stream) => Len(bytes) = 0
  BY <1>3, RestBegins
<1>5. result = <<>> /\ InFrame /\ failure = "none" BY <1>1 DEF FramesHold, FailureIsEarned
<1>6. CASE bytes = <<>>
  <2>1. pc' = "closed" /\ failure' = failure BY <1>6 DEF F!PeerIsGone
  <2>2. Len(bytes) = 0 BY <1>6
  <2>3. read = F!End(CutOut) BY <1>3, <1>4, <2>2
  <2>4. FailureIsEarned' BY <1>1, <1>2, <1>5, <2>1, <2>3 DEF FailureIsEarned
  <2>5. QED BY <1>2, <2>4 DEF FramesHold
<1>7. CASE bytes # <<>>
  <2>1. pc' = "failed" /\ failure' = "truncated" BY <1>7 DEF F!PeerIsGone, F!Fail
  <2>2. Len(bytes) # 0 BY <1>4, <1>7, EmptySeq
  <2>3. CutOut < Len(stream) /\ F!End(CutOut) < read
    BY <1>3, <1>4, <2>2 DEF FramesHold, RestIsHeld
  <2>4. FailureIsEarned' BY <1>1, <1>2, <1>5, <2>1, <2>3 DEF FailureIsEarned
  <2>5. QED BY <1>2, <2>4 DEF FramesHold
<1>8. QED BY <1>6, <1>7

(* At the beginning nothing was read.                                      *)
LEMMA FramesBegin == ReceiversInit => FramesHold
<1> SUFFICES ASSUME ReceiversInit PROVE FramesHold OBVIOUS
<1>1. /\ stream \in Streams /\ read = 0 /\ bytes = <<>> /\ result = <<>> /\ delivered = <<>>
      /\ pc = "reading" /\ failure = "none"
  BY DEF ReceiversInit, F!Init
<1>2. /\ <<>> \in Seq(Seq(Place)) /\ Len(<<>>) = 0 /\ DOMAIN <<>> = {}
  BY EmptySeq
<1>3. CutOut = 0 BY <1>1, <1>2 DEF CutOut
<1>4. Len(stream) \in Nat BY <1>1, BytesAreParts
<1>5. F!End(0) = 0 /\ F!Bytes \in Seq(Place) BY <1>1, EndsGrow
<1>6. FirstFramesCut BY <1>1, <1>2, <1>3, <1>4 DEF FirstFramesCut
<1>7. RestIsHeld
  <2>1. Len(F!Bytes) \in Nat BY <1>5
  <2>2. SubSeq(F!Bytes, 0 + 1, 0) = <<>> BY SubSeqEmpty
  <2>3. QED BY <1>1, <1>2, <1>3, <1>5, <2>1, <2>2, StreamConstants DEF RestIsHeld
<1>8. InFrame
  <2>1. SUFFICES ASSUME 0 < Len(stream) PROVE 0 < F!End(0 + 1) BY <1>1, <1>3 DEF InFrame
  <2>2. 0 \in 0..Len(stream) /\ 1 \in 0..Len(stream) BY <1>4, <2>1
  <2>3. F!End(0) < F!End(1) BY <1>1, <2>2, EndsRise
  <2>4. QED BY <1>5, <2>3
<1>9. FailureIsEarned BY <1>1, <1>8 DEF FailureIsEarned
<1>10. QED BY <1>1, <1>6, <1>7, <1>9 DEF FramesHold

LEMMA FramesStep ==
  ASSUME FramesHold, [ReceiversNext]_<<part, allVars, streamVars, viewerVars>>
  PROVE  FramesHold'
<1>1. CASE UNCHANGED streamVars
  <2>1. UNCHANGED <<stream, read, bytes, result, delivered>> /\ UNCHANGED <<pc, failure>>
    BY <1>1 DEF streamVars
  <2>2. /\ CutOut' = CutOut /\ stream' \in Streams /\ FirstFramesCut' /\ RestIsHeld'
        /\ InFrame' <=> InFrame
        /\ F!End(CutOut)' = F!End(CutOut)
    BY <2>1, NothingMoves
  <2>3. FailureIsEarned' BY <2>1, <2>2 DEF FramesHold, FailureIsEarned
  <2>4. QED BY <2>2, <2>3 DEF FramesHold
<1>2. CASE F!Next
  BY <1>2, ReadChunkKeeps, CutKeeps, DeliverKeeps, EndOfPeerKeeps DEF F!Next
<1>3. QED BY <1>1, <1>2 DEF ReceiversNext

LEMMA FramesInvariant == ReceiversSpec => []FramesHold
<1>1. ReceiversInit => FramesHold BY FramesBegin
<1>2. FramesHold /\ [ReceiversNext]_<<part, allVars, streamVars, viewerVars>> => FramesHold'
  BY FramesStep
<1>3. QED BY <1>1, <1>2, PTL DEF ReceiversSpec

(* Wherever the pipe cuts a stream, for any frames and any sizes of header *)
(* and buffer, Feed gives its frames whole, in order and once, never runs  *)
(* out of room, and refuses a peer only for what it wrote.                 *)
THEOREM FramesStayWhole == ReceiversSpec => []FramesAreWhole
<1>1. ASSUME FramesHold PROVE FramesAreWhole
  <2>1. PICK n : n = CutOut OBVIOUS
  <2>2. /\ n \in 0..Len(stream) /\ Len(stream) \in Nat /\ F!End(n) \in Nat /\ read \in Nat
        /\ Len(bytes) = read - F!End(n)
    BY <1>1, <2>1, RestBegins
  <2>3. /\ F!End(0) = 0 /\ \A k \in 0..Len(stream) : F!End(k) \in Nat
        /\ \A j, k \in 0..Len(stream) : j < k => F!End(j) < F!End(k)
    BY <1>1, EndsGrow, EndsRise DEF FramesHold
  <2>4. F!TypeOK
    BY <1>1 DEF FramesHold, RestIsHeld, FailureIsEarned, F!TypeOK
  <2>5. ASSUME InFrame, NEW f \in 0..Len(stream)
        PROVE  F!End(f) <= read <=> f <= n
    <3>1. F!End(n) <= read BY <1>1, <2>1 DEF FramesHold, RestIsHeld
    <3>2. CASE f = n BY <2>2, <3>1, <3>2
    <3>3. CASE f < n
      <4>1. F!End(f) < F!End(n) /\ F!End(f) \in Nat BY <2>2, <2>3, <3>3
      <4>2. QED BY <2>2, <3>1, <3>3, <4>1
    <3>4. CASE n < f
      <4>1. PICK k : k = n + 1 OBVIOUS
      <4>2. k \in 0..Len(stream) /\ k <= f BY <2>2, <3>4, <4>1
      <4>3. n < Len(stream) BY <2>2, <3>4
      <4>4. read < F!End(k) BY <2>1, <2>5, <4>1, <4>3 DEF InFrame
      <4>5. k = f \/ F!End(k) < F!End(f) BY <2>2, <2>3, <4>2
      <4>6. F!End(k) \in Nat /\ F!End(f) \in Nat BY <2>3, <4>2
      <4>7. read < F!End(f)
        <5>1. CASE k = f BY <4>4, <5>1
        <5>2. CASE F!End(k) < F!End(f) BY <2>2, <4>4, <4>6, <5>2
        <5>3. QED BY <4>5, <5>1, <5>2
      <4>8. QED BY <2>2, <3>4, <4>6, <4>7
    <3>5. QED BY <2>2, <3>2, <3>3, <3>4
  <2>6. F!FramesAreWhole
    <3>1. delivered = [f \in DOMAIN delivered |-> F!BytesOf(f)]
      <4>1. PICK D : D = DOMAIN delivered OBVIOUS
      <4>2. delivered = [f \in D |-> delivered[f]] BY <1>1, <4>1 DEF FramesHold, FirstFramesCut
      <4>3. \A f \in D : delivered[f] = F!BytesOf(f) BY <1>1, <4>1 DEF FramesHold, FirstFramesCut
      <4>4. [f \in D |-> delivered[f]] = [f \in D |-> F!BytesOf(f)] BY <4>3, Zenon
      <4>5. QED BY <4>1, <4>2, <4>4
    <3>2. ASSUME pc \in {"reading", "closed"}, NEW f \in DOMAIN stream
          PROVE  F!End(f) <= read <=> f \in DOMAIN delivered
      <4>1. result = <<>> /\ InFrame BY <1>1, <3>2 DEF FramesHold, FailureIsEarned
      <4>2. DOMAIN stream = 1..Len(stream) BY <1>1, StreamConstants DEF FramesHold
      <4>3. Len(<<>>) = 0 OBVIOUS
      <4>4. Len(delivered) \in Nat /\ DOMAIN delivered = 1..Len(delivered)
        BY <1>1 DEF FramesHold, FirstFramesCut
      <4>5. n = Len(delivered) BY <2>1, <4>1, <4>3, <4>4 DEF CutOut
      <4>6. f \in 0..Len(stream) /\ f \in Nat /\ 1 <= f BY <2>2, <4>2
      <4>7. F!End(f) <= read <=> f <= n BY <2>5, <4>1, <4>6
      <4>8. QED BY <4>4, <4>5, <4>6, <4>7
    <3>3. QED BY <3>1, <3>2 DEF F!FramesAreWhole
  <2>7. F!RefusedForCause
    <3>1. PICK k : k = Len(delivered) + Len(result) + 1 OBVIOUS
    <3>2. k = CutOut + 1 BY <3>1 DEF CutOut
    <3>3. failure # "overflow" BY <1>1 DEF FramesHold, FailureIsEarned
    <3>4. failure \in {"header", "payload"} => stream[k].fault = failure
      BY <1>1, <3>2 DEF FramesHold, FailureIsEarned
    <3>5. ASSUME failure = "truncated", NEW f \in 0..Len(stream) PROVE read # F!End(f)
      <4>1. n < Len(stream) /\ F!End(n) < read /\ InFrame
        BY <1>1, <2>1, <3>5 DEF FramesHold, FailureIsEarned
      <4>2. F!End(f) <= read <=> f <= n BY <2>5, <4>1
      <4>3. SUFFICES ASSUME read = F!End(f) PROVE FALSE OBVIOUS
      <4>4. f <= n BY <2>2, <4>2, <4>3
      <4>5. f = n \/ F!End(f) < F!End(n) BY <2>2, <2>3, <4>4
      <4>6. QED BY <2>2, <4>1, <4>3, <4>5
    <3>6. pc = "closed" => read = F!End(Len(delivered))
      <4>1. SUFFICES ASSUME pc = "closed" PROVE read = F!End(Len(delivered)) OBVIOUS
      <4>2. result = <<>> /\ read = F!End(CutOut)
        BY <1>1, <4>1 DEF FramesHold, FailureIsEarned
      <4>3. Len(<<>>) = 0 OBVIOUS
      <4>4. Len(delivered) \in Nat BY <1>1 DEF FramesHold, FirstFramesCut
      <4>5. CutOut = Len(delivered) BY <4>2, <4>3, <4>4 DEF CutOut
      <4>6. QED BY <4>2, <4>5
    <3>7. QED BY <3>1, <3>3, <3>4, <3>5, <3>6 DEF F!RefusedForCause
  <2>8. QED BY <2>4, <2>6, <2>7 DEF FramesAreWhole
<1>2. QED BY <1>1, FramesInvariant, PTL
=============================================================================
