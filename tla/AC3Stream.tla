------------------------------ MODULE AC3Stream ------------------------------
(***************************************************************************)
(* AC3Decoder at the end of a stream of AC3 frames.  The multiplexer cuts  *)
(* the stream into PES packets wherever it likes, and PES packets get lost *)
(* (TSPacketHandler drops them).                                           *)
(***************************************************************************)
EXTENDS AC3Decoder, FiniteSets

CONSTANTS
  Streams,  (* Streams: their bytes, and which stretches of them are frames. *)
  MaxPES,   (* Bound: the longest PES packet.                                *)
  MaxLost   (* Bound: how many PES packets are lost.                         *)

(* What the format calls the header of a frame, at position i. *)
HeaderAt(bytes, i) ==
  /\ bytes[i] = Sync0 /\ bytes[i + 1] = Sync1
  /\ bytes[i + 4] \in DOMAIN FrameWords /\ bytes[i + 5] \in Bsid8

(* The size bytes after the first at are a frame. *)
IsFrame(bytes, f) ==
  /\ f.at + f.size <= Len(bytes)
  /\ HeaderAt(bytes, f.at + 1)
  /\ f.size = 2 * FrameWords[bytes[f.at + 5]]

Disjoint(f, g) == f.at + f.size <= g.at \/ g.at + g.size <= f.at

(* Frames do not overlap.  Between them lies anything but a header; inside   *)
(* of a frame there may be one.                                              *)
ASSUME StreamsAssumption ==
  /\ MaxPES \in Nat \ {0} /\ MaxLost \in Nat
  /\ \A s \in Streams :
       /\ s.bytes \in Seq(Byte)
       /\ s.frames \subseteq [at : Nat, size : FrameSizes]
       /\ \A f \in s.frames : IsFrame(s.bytes, f)
       /\ \A f, g \in s.frames : f = g \/ Disjoint(f, g)
       /\ \A i \in 1 .. Len(s.bytes) - HeaderSize + 1 :
            HeaderAt(s.bytes, i) => \E f \in s.frames : f.at < i /\ i <= f.at + f.size

VARIABLES
  stream,  (* The stream.                                                    *)
  sent,    (* How many of its bytes have been sent.                          *)
  lost,    (* How many PES packets were lost.                                *)
  origin,  (* The positions in the stream of the bytes in fed.               *)
  split    (* The frames whose header lay in two PES packets.                *)

streamVars == <<stream, sent, lost, origin, split>>
allVars == <<vars, streamVars>>

Bytes == stream.bytes
Frames == stream.frames

(* The frames of which a PES packet that ends at n holds less than a header. *)
SplitAt(n) == {f \in Frames : n - f.at \in 1 .. HeaderSize - 1}

StreamInit ==
  /\ Init
  /\ stream \in Streams
  /\ sent = 0 /\ lost = 0 /\ origin = <<>> /\ split = {}

(* PESDecode is given the next n bytes. *)
Send ==
  \E n \in 1 .. MaxPES :
    /\ sent + n <= Len(Bytes)
    /\ AddData(SubSeq(Bytes, sent + 1, sent + n))
    /\ origin' = origin \o [i \in 1 .. n |-> sent + i]
    /\ split' = split \cup SplitAt(sent + n)
    /\ sent' = sent + n
    /\ UNCHANGED <<stream, lost>>

Lose ==
  \E n \in 1 .. MaxPES :
    /\ ~draining /\ lost < MaxLost
    /\ sent + n <= Len(Bytes)
    /\ sent' = sent + n
    /\ lost' = lost + 1
    /\ UNCHANGED <<vars, stream, origin, split>>

Decode == DecodeFrame /\ UNCHANGED streamVars

StreamNext == Send \/ Lose \/ Decode

StreamSpec == StreamInit /\ [][StreamNext]_allVars

-----------------------------------------------------------------------------
(* No stretch of the stream other than a frame begins like one. *)
Unambiguous ==
  \A i \in 1 .. Len(Bytes) - HeaderSize + 1 :
    HeaderAt(Bytes, i) => \E f \in Frames : f.at + 1 = i

(* The stretch fed[a .. b] was sent without a loss in between. *)
Unbroken(a, b) == origin[b] - origin[a] = b - a

(* The frame of the stream that f is, if it is one. *)
Genuine(f) ==
  /\ Unbroken(f.at + 1, f.at + f.size)
  /\ [at |-> origin[f.at + 1] - 1, size |-> f.size] \in Frames

Returned == {[at |-> origin[frames[i].at + 1] - 1, size |-> frames[i].size] : i \in DOMAIN frames}

(* On a stream without losses in which no PES packet ends inside a header,   *)
(* the decoder returns the frames that have been sent, all of them and       *)
(* nothing else.  What their payload looks like does not matter, nor what    *)
(* lies between them as long as no header does.                              *)
CutsWholeStream ==
  lost = 0 /\ split = {} /\ ~draining =>
    /\ \A i \in DOMAIN frames : Genuine(frames[i])
    /\ Returned = {f \in Frames : f.at + f.size <= sent}

(* A lost PES packet costs the decoder at most one wrong frame, the one that *)
(* the gap is in, as long as nothing in the stream looks like a header.      *)
OneWrongFramePerLoss ==
  Unambiguous => Cardinality({i \in DOMAIN frames : ~Genuine(frames[i])}) <= lost

LongestFrame == CHOOSE n \in FrameSizes : \A m \in FrameSizes : m <= n

(* The decoder is back in step one frame length after a gap: a frame is      *)
(* returned if it arrives with that much of the stream in front of it and    *)
(* its header is in one PES packet.                                          *)
BackInStep ==
  Unambiguous /\ ~draining =>
    \A f \in Frames \ split :
      \A i \in 1 .. Len(fed) - f.size + 1 :
        LET a == IF i > LongestFrame THEN i - LongestFrame ELSE 1
        IN  /\ origin[i] = f.at + 1
            /\ Unbroken(a, i + f.size - 1)
            => f \in Returned

(* "We ran out of data reading the header, save the current state and bail   *)
(* out": a frame whose header lies in two PES packets is returned like any   *)
(* other.                                                                    *)
SplitHeaderIsKept ==
  lost = 0 /\ ~draining => {f \in Frames : f.at + f.size <= sent} \subseteq Returned
=============================================================================
