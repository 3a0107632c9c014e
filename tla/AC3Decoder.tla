----------------------------- MODULE AC3Decoder -----------------------------
(***************************************************************************)
(* AC3Decoder cuts an elementary stream into AC3 frames.  PESDecode of     *)
(* AC3PacketHandler appends the data of one PES packet to the decoder's    *)
(* buffer and then calls DecodeFrame (or DecodeFrame_PassThru, which finds *)
(* the same frames) until it returns null.  Nothing says that a PES packet *)
(* ends where a frame ends.                                                *)
(*                                                                         *)
(* An AC3 frame begins with a syncword of two bytes.  Its fifth byte       *)
(* (fscod, frmsizcod) gives its length and its sixth byte holds bsid.      *)
(***************************************************************************)
EXTENDS Integers, Sequences

CONSTANTS
  Byte,        (* The bytes.                                                 *)
  Sync0,       (* 0x0B                                                       *)
  Sync1,       (* 0x77                                                       *)
  FrameWords,  (* frmsizcod_table: from every legal fifth byte to the length *)
               (* of the frame in 16-bit words.                              *)
  Bsid8,       (* The sixth bytes whose bsid is 8.                           *)
  PESData      (* The data a PES packet can carry.                           *)

HeaderSize == 6

ASSUME ByteAssumption ==
  /\ Sync0 \in Byte /\ Sync1 \in Byte
  /\ DOMAIN FrameWords \subseteq Byte /\ Bsid8 \subseteq Byte
  /\ PESData \subseteq Seq(Byte) \ {<<>>}
(* No frame is as short as its header (the shortest has 64 words), and there *)
(* is a longest (1920 words).                                                *)
ASSUME FrameAssumption ==
  /\ \A c \in DOMAIN FrameWords : FrameWords[c] \in Nat /\ 2 * FrameWords[c] > HeaderSize
  /\ \E c \in DOMAIN FrameWords : \A d \in DOMAIN FrameWords : FrameWords[d] <= FrameWords[c]

VARIABLES
  fed,       (* All data given to the decoder so far.                       *)
  esBuffer,  (* What is left of it.                                         *)
  draining,  (* Is PESDecode in its loop?                                   *)
  frames     (* The frames returned: where in fed, and how long.            *)

vars == <<fed, esBuffer, draining, frames>>

(* How much of fed has left the buffer. *)
Consumed == Len(fed) - Len(esBuffer)

-----------------------------------------------------------------------------
(* FindSyncWord: where the search stops, and what it then finds. *)

(* Slip: bsid is not looked at. *)
LegalHeaderAnyBsid(buf, i) == buf[i + 4] \in DOMAIN FrameWords

(* The header at position i, all of it in the buffer, passes the checks. *)
LegalHeader(buf, i) ==
  /\ buf[i + 4] \in DOMAIN FrameWords
  /\ buf[i + 5] \in Bsid8

SyncAt(buf, i) == i < Len(buf) /\ buf[i] = Sync0 /\ buf[i + 1] = Sync1

(* Slip: a header that fails its checks does not send the search on. *)
StopsAtAny(buf, i) == SyncAt(buf, i)

(* The search stops at a syncword that begins a legal header, or that is too *)
(* close to the end to tell.                                                 *)
StopsAt(buf, i) ==
  /\ SyncAt(buf, i)
  /\ Len(buf) - i + 1 > HeaderSize => LegalHeader(buf, i)

(* Without any such syncword it stops at the last byte. *)
SyncPosition(buf) ==
  IF \E i \in 1 .. Len(buf) : StopsAt(buf, i)
  THEN CHOOSE i \in 1 .. Len(buf) :
         StopsAt(buf, i) /\ \A j \in 1 .. i - 1 : ~StopsAt(buf, j)
  ELSE Len(buf)

From(buf, i) == SubSeq(buf, i, Len(buf))

(* What FindSyncWord leaves in the buffer and returns. *)
FindSyncWord(buf) ==
  IF Len(buf) < HeaderSize
  THEN [buffer |-> buf, status |-> "SYNC_NOT_FOUND"]
  ELSE LET rest == From(buf, SyncPosition(buf))
       IN  [buffer |-> rest,
            status |-> IF Len(rest) > HeaderSize THEN "SYNC_FOUND" ELSE "SYNC_INCOMPLETE"]

(* FindSyncWord as the code computes it.  First its while loop: the index it *)
(* leaves behind when it begins at each index.  At the last byte it reads    *)
(* one element past the end; it stops there whatever it reads.               *)
ScanFrom(buf) ==
  LET scan[i \in 1 .. Len(buf)] ==
        IF SyncAt(buf, i) \/ i >= Len(buf) THEN i ELSE scan[i + 1]
  IN  scan

(* Then the whole of it, with the data before each index removed: scan for a *)
(* syncword, remove what precedes it, check the header, and on a bad one     *)
(* remove a byte and start again.                                            *)
Search(buf) ==
  LET search[i \in 1 .. Len(buf) + 1] ==
        LET stop == ScanFrom(buf)[i]
            rest == From(buf, stop)
        IN  IF Len(buf) - i + 1 < HeaderSize
            THEN [buffer |-> From(buf, i), status |-> "SYNC_NOT_FOUND"]
            ELSE IF Len(rest) <= HeaderSize
            THEN [buffer |-> rest, status |-> "SYNC_INCOMPLETE"]
            ELSE IF LegalHeader(rest, 1)
            THEN [buffer |-> rest, status |-> "SYNC_FOUND"]
            ELSE search[stop + 1]
  IN  search[1]

(* The length of the frame at the front of the buffer. *)
FrameLength(buf) == 2 * FrameWords[buf[5]]

-----------------------------------------------------------------------------
Init ==
  /\ fed = <<>> /\ esBuffer = <<>> /\ frames = <<>>
  /\ draining = FALSE

(* PESDecode up to its loop. *)
AddData(data) ==
  /\ ~draining
  /\ fed' = fed \o data
  /\ esBuffer' = esBuffer \o data
  /\ draining' = TRUE
  /\ UNCHANGED frames

(* DecodeFrame returns null. *)
ReturnNull(buffer) ==
  /\ esBuffer' = buffer
  /\ draining' = FALSE
  /\ UNCHANGED frames

(* Slip: the frame stays in the buffer. *)
TakeFrameAndKeep(buffer) ==
  /\ frames' = Append(frames, [at |-> Len(fed) - Len(buffer), size |-> FrameLength(buffer)])
  /\ esBuffer' = buffer
  /\ UNCHANGED draining

(* Slip: one byte too many goes with it. *)
TakeFrameAndMore(buffer) ==
  /\ frames' = Append(frames, [at |-> Len(fed) - Len(buffer), size |-> FrameLength(buffer)])
  /\ esBuffer' = From(buffer, FrameLength(buffer) + 2)
  /\ UNCHANGED draining

(* It returns the frame at the front of the buffer. *)
TakeFrame(buffer) ==
  /\ frames' = Append(frames, [at |-> Len(fed) - Len(buffer), size |-> FrameLength(buffer)])
  /\ esBuffer' = From(buffer, FrameLength(buffer) + 1)
  /\ UNCHANGED draining

(* Slip: a frame that fills the buffer is left for later. *)
WholeFrameInside(buffer) == Len(buffer) > FrameLength(buffer)

WholeFrame(buffer) == Len(buffer) >= FrameLength(buffer)

(* Slip: running out of data in the header is an error, too. *)
LeftOverNothing(sync) == <<>>

(* What stays in the buffer when no frame was found: an error clears it. *)
LeftOver(sync) == IF sync.status = "SYNC_NOT_FOUND" THEN <<>> ELSE sync.buffer

DecodeFrame ==
  /\ draining
  /\ UNCHANGED fed
  /\ LET sync == FindSyncWord(esBuffer)
     IN  \/ esBuffer = <<>> /\ ReturnNull(<<>>)
         \/ sync.status = "SYNC_FOUND" /\ WholeFrame(sync.buffer) /\ TakeFrame(sync.buffer)
         \/ sync.status = "SYNC_FOUND" /\ ~WholeFrame(sync.buffer) /\ ReturnNull(sync.buffer)
         \/ esBuffer # <<>> /\ sync.status # "SYNC_FOUND" /\ ReturnNull(LeftOver(sync))

Next == DecodeFrame \/ \E data \in PESData : AddData(data)

Spec == Init /\ [][Next]_vars

-----------------------------------------------------------------------------
FrameSizes == {2 * FrameWords[c] : c \in DOMAIN FrameWords}

TypeOK ==
  /\ fed \in Seq(Byte) /\ esBuffer \in Seq(Byte)
  /\ draining \in BOOLEAN
  /\ frames \in Seq([at : Nat, size : FrameSizes])

(* The n bytes of fed after the first at begin with a legal header that says *)
(* there are n of them.                                                      *)
FrameOf(f) ==
  /\ f.at + f.size <= Len(fed)
  /\ fed[f.at + 1] = Sync0 /\ fed[f.at + 2] = Sync1
  /\ LegalHeader(fed, f.at + 1)
  /\ f.size = 2 * FrameWords[fed[f.at + 5]]

(* However the stream is split into PES packets and whatever it consists of, *)
(* the frames returned are stretches of the stream, each with a legal header *)
(* that gives its length, in the order of the stream and without overlap.    *)
FramesAreCut ==
  /\ \A i \in 1 .. Len(frames) : FrameOf(frames[i]) /\ frames[i].at + frames[i].size <= Consumed
  /\ \A i, j \in 1 .. Len(frames) : i < j => frames[i].at + frames[i].size <= frames[j].at

(* Whatever the buffer holds, the code's search comes to where FindSyncWord  *)
(* says, and finds there what it says, however often it has to start again.  *)
SearchEndsThere == Search(esBuffer) = FindSyncWord(esBuffer)

(* When PESDecode returns, the buffer holds no frame that DecodeFrame would  *)
(* still return: it is the beginning of a frame that has not all arrived, or *)
(* too short to hold one.  So a frame is returned by the call of PESDecode   *)
(* that completes it, whose PTS is printed for it.                           *)
NothingLeftBehind ==
  ~draining =>
    \/ Len(esBuffer) <= HeaderSize
    \/ /\ SyncAt(esBuffer, 1) /\ LegalHeader(esBuffer, 1)
       /\ Len(esBuffer) < 2 * FrameWords[esBuffer[5]]
=============================================================================
