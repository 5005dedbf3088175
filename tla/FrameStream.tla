----------------------------- MODULE FrameStream -----------------------------
(***************************************************************************)
(* How a client thread of the plug-in cuts the bytes of its pipe into      *)
(* frames: FrameAccumulator in src/simhub/FFBInterceptor.Core/Protocol.cs  *)
(* and the loop around it in RunClient (SecurePipeServer.cs).  The pipe    *)
(* cuts the stream anywhere, a frame may be refused for its header or for  *)
(* its payload, and the peer may be gone in the middle of a frame.  A byte *)
(* is its place: <<f, b>> is the byte b of the frame f.                    *)
(***************************************************************************)
EXTENDS Integers, FiniteSets, SequencesExt

CONSTANTS
  Streams,             \* sequences of frames that a peer may write
  HeaderSize, MaximumFrameSize,
  ReadBufferSize       \* of RunClient

Frame == [size : HeaderSize..MaximumFrameSize, fault : {"none", "header", "payload"}]

VARIABLES
  stream,      \* what the peer writes
  read,        \* bytes of it that were read
  buffer,      \* the first _count bytes of _buffer
  result,      \* frames that Feed has cut out so far
  delivered,   \* frames that RunClient was given
  pc, failure

vars == <<stream, read, buffer, result, delivered, pc, failure>>

BytesOf(f) == [b \in 1..stream[f].size |-> <<f, b>>]
Bytes      == FlattenSeq([f \in DOMAIN stream |-> BytesOf(f)])

Init ==
  /\ stream \in Streams /\ read = 0 /\ buffer = <<>> /\ result = <<>> /\ delivered = <<>>
  /\ pc = "reading" /\ failure = "none"

Fail(what) == pc' = "failed" /\ failure' = what

(* Variant with a fault: room for one frame only.                          *)
OneFrame == MaximumFrameSize

(* The length of _buffer.                                                  *)
Capacity == 2 * MaximumFrameSize

(* A read of the pipe, and the beginning of Feed.                          *)
ReadChunk ==
  /\ pc = "reading"
  /\ \E n \in 1..ReadBufferSize :
       /\ read + n <= Len(Bytes)
       /\ IF Len(buffer) > Capacity - n
          THEN Fail("overflow") /\ UNCHANGED <<buffer, read>>
          ELSE /\ buffer' = buffer \o SubSeq(Bytes, read + 1, read + n) /\ read' = read + n
               /\ pc' = "parsing" /\ UNCHANGED failure
  /\ UNCHANGED <<stream, result, delivered>>

(* ValidateHeader reads the first bytes of the buffer.                     *)
HeaderIsValid ==
  /\ \A b \in 1..HeaderSize : buffer[b] = <<buffer[1][1], b>>
  /\ stream[buffer[1][1]].fault # "header"

FrameSize == stream[buffer[1][1]].size

HasHeader    == Len(buffer) >= HeaderSize
HasFrame     == Len(buffer) >= FrameSize
(* Variant with a fault: what follows the frame is dropped.                *)
NoRemaining(n) == <<>>

Remaining(n) == SubSeq(buffer, n + 1, Len(buffer))

(* One turn of the loop in Feed that cuts out a frame.                     *)
CutFrame ==
  /\ pc = "parsing" /\ HasHeader
  /\ IF ~HeaderIsValid THEN Fail("header") /\ UNCHANGED <<buffer, result>>
     ELSE /\ HasFrame
          /\ IF stream[buffer[1][1]].fault = "payload"
             THEN Fail("payload") /\ UNCHANGED <<buffer, result>>
             ELSE /\ result' = Append(result, SubSeq(buffer, 1, FrameSize))
                  /\ buffer' = Remaining(FrameSize)
                  /\ UNCHANGED <<pc, failure>>
  /\ UNCHANGED <<stream, read, delivered>>

(* Feed returns, and the client thread goes through its frames.            *)
Deliver ==
  /\ pc = "parsing"
  /\ HasHeader => HeaderIsValid /\ ~HasFrame
  /\ delivered' = delivered \o result /\ result' = <<>> /\ pc' = "reading"
  /\ UNCHANGED <<stream, read, buffer, failure>>

(* The peer is gone, with the rest of its stream: Complete.                *)
PeerIsGone ==
  /\ pc = "reading"
  /\ IF buffer = <<>> THEN pc' = "closed" /\ UNCHANGED failure ELSE Fail("truncated")
  /\ UNCHANGED <<stream, read, buffer, result, delivered>>

Next == ReadChunk \/ CutFrame \/ Deliver \/ PeerIsGone

Spec == Init /\ [][Next]_vars

-----------------------------------------------------------------------------
TypeOK ==
  /\ stream \in Streams /\ read \in 0..Len(Bytes) /\ Len(buffer) <= 2 * MaximumFrameSize
  /\ pc \in {"reading", "parsing", "failed", "closed"}
  /\ failure \in {"none", "overflow", "header", "payload", "truncated"}

End(f) == Len(FlattenSeq([g \in 1..f |-> BytesOf(g)]))

(* Wherever the pipe cuts the stream, the engine is given its frames whole,*)
(* in their order and once; and when the thread goes back to the pipe it   *)
(* has been given every frame whose last byte was read.                    *)
FramesAreWhole ==
  /\ delivered = [f \in DOMAIN delivered |-> BytesOf(f)]
  /\ pc \in {"reading", "closed"} =>
       \A f \in DOMAIN stream : End(f) <= read <=> f \in DOMAIN delivered

(* A peer is refused for what it wrote and for nothing else: its frames    *)
(* never outgrow the buffer, a frame is refused only if it is faulty and   *)
(* the next one to be delivered, and a stream is truncated only if it ends *)
(* in the middle of a frame.                                               *)
RefusedForCause ==
  LET next == Len(delivered) + Len(result) + 1 IN
  /\ failure # "overflow"
  /\ failure \in {"header", "payload"} => stream[next].fault = failure
  /\ failure = "truncated" => \A f \in 0..Len(stream) : read # End(f)
  /\ pc = "closed" => read = End(Len(delivered))
=============================================================================
