--------------------------- MODULE TSPacketHandler ---------------------------
(***************************************************************************)
(* TSPacketHandler reassembles the PES packets of one elementary stream    *)
(* from the transport packets of one PID, keeps the reassembled packets in *)
(* a queue, and releases the packet at the front of the queue to the       *)
(* elementary-stream decoder when the program clock reaches its PTS.       *)
(*                                                                         *)
(* The demultiplexer calls two operations in any order: NextPacket, with   *)
(* every transport packet of the PID, and PCRTick, with the clock.  Each   *)
(* is one action here, because a handler is only used by one thread.       *)
(***************************************************************************)
EXTENDS Integers, Sequences, SequencesExt, Sums

CONSTANTS
  TSPackets,     (* The transport packets NextPacket can be given.             *)
  PCRs,          (* The clock values PCRTick can be given.                     *)
  StreamIds,     (* The PES stream_ids.                                        *)
  NoHeader,      (* sid of a payload that does not begin with a PES header.    *)
  Bytes,         (* What payloads are made of.                                 *)
  NoPES,         (* The absence of a PES packet.                               *)
  CCModulus,     (* Continuity counters are counted modulo this: 16.           *)
  PtsMax,        (* The largest 33-bit time stamp: 0x1ffffffff.                *)
  PtsHigh,       (* 0xFFFFFFFF in PCRTick's wrap-around test.                  *)
  PcrLow,        (* 0x00000fff in PCRTick's wrap-around test.                  *)
  DueWindow,     (* A packet less than this many ticks ahead is played: 200.   *)
  LevelModulus,  (* BufferLevel is an unsigned int: 2^32.                      *)
  MaxQueue       (* Bound: the length of the queue.                              *)

(***************************************************************************)
(* A transport packet, as far as the handler looks at it.  sid, pts and    *)
(* pesSize are what a PES header at the start of the payload says; pesSize *)
(* already includes the 6 bytes in front of the counted part.  payloadSize *)
(* is negative when the adaptation field claims to be longer than the      *)
(* packet; the payload then starts past its end, and whatever lies there   *)
(* may look like a header.                                                 *)
(***************************************************************************)
TransportPacket ==
  [payloadPresent : BOOLEAN, pusi : BOOLEAN, cc : 0 .. CCModulus - 1,
   sid : StreamIds \cup {NoHeader}, pts : 0 .. PtsMax, pesSize : Nat \ {0},
   payloadSize : Int, payload : Seq(Bytes)]

PESPacket_t ==
  [PTS : 0 .. PtsMax, pesPacketLength : Nat \ {0}, payload : Seq(Bytes),
   Started : BOOLEAN, Complete : BOOLEAN]

ASSUME CCAssumption == CCModulus \in Nat \ {0}
ASSUME ClockAssumption ==
  /\ PtsMax \in Nat /\ PtsHigh \in Nat /\ PcrLow \in Nat /\ DueWindow \in Nat
  /\ PCRs \subseteq Nat
ASSUME LevelAssumption == LevelModulus \in Nat \ {0} /\ MaxQueue \in Nat
ASSUME StreamAssumption ==
  /\ StreamIds # {} /\ NoHeader \notin StreamIds
  /\ NoPES \notin PESPacket_t
(* The bytes of a payload are those its size counts, if it counts any. *)
ASSUME PacketAssumption ==
  /\ TSPackets \subseteq TransportPacket
  /\ \A ts \in TSPackets :
       Len(ts.payload) = IF ts.payloadSize > 0 THEN ts.payloadSize ELSE 0

VARIABLES
  CurrentState,     (* What the next packet is expected to be.              *)
  PESdata,          (* The queue of PES packets.                            *)
  BufferLevel,      (* How many bytes the handler believes it holds.        *)
  stream_id,        (* The stream_id the PES headers must carry.            *)
  ContinuityCount,  (* The last continuity counter.                         *)
  doubleCC,         (* Has a continuity error been tolerated already?       *)
  decoding,         (* The PES packet the last call gave to PESDecode.      *)
  status            (* "live", or "crashed" or "destroyed" for good.        *)

vars == <<CurrentState, PESdata, BufferLevel, stream_id, ContinuityCount,
          doubleCC, decoding, status>>

WaitForPesStart == "WaitForPesStart"
WaitForPESData  == "WaitForPESData"
CCError         == "CCError"

-----------------------------------------------------------------------------
(* The helpers of NextPacket. *)

Smaller(a, b) == IF a <= b THEN a ELSE b

(* The queue with its last packet replaced. *)
WithLast(pes) == [PESdata EXCEPT ![Len(PESdata)] = pes]

(* Does the counter differ from the one expected next? *)
CCMismatch(ts) == ts.cc # (ContinuityCount + 1) % CCModulus

(* Slip: every mismatch passes. *)
CheckCCErrorNever(ts) == FALSE

(* Slip: the first mismatch is an error, too. *)
CheckCCErrorAlways(ts) == CCMismatch(ts)

(* The first mismatch in the life of the handler is only remembered. *)
CheckCCError(ts) == CCMismatch(ts) /\ doubleCC

(* FindPESHeaderAndGetPTS finds a header of this stream. *)
HeaderFound(ts) == ts.sid = stream_id

(* PESPacket_t with the first s bytes of d appended, as AddNewData leaves it: *)
(* none when s is not positive.                                               *)
AddNewData(pes, d, s) ==
  LET data == pes.payload \o SubSeq(d, 1, s)
  IN  [pes EXCEPT !.payload = data, !.Complete = Len(data) = pes.pesPacketLength]

(* How much of the payload still fits into the PES packet: a negative size *)
(* stays negative.                                                         *)
CopySize(pes, ts) == Smaller(ts.payloadSize, pes.pesPacketLength - Len(pes.payload))

(* The PES packet NewPESPacketFound makes of a payload with a header. *)
NewPESPacket(ts) ==
  LET empty == [PTS |-> ts.pts, pesPacketLength |-> ts.pesSize, payload |-> <<>>,
                Started |-> TRUE, Complete |-> FALSE]
  IN  AddNewData(empty, ts.payload, CopySize(empty, ts))

ContinuedPESPacket(pes, ts) == AddNewData(pes, ts.payload, CopySize(pes, ts))

(* Slip: completeness is not looked at. *)
StateAfterStarted(pes) == IF pes.Started THEN WaitForPESData ELSE WaitForPesStart

(* What the last packet in the queue makes the handler wait for. *)
StateAfter(pes) ==
  IF pes.Started /\ ~pes.Complete THEN WaitForPESData ELSE WaitForPesStart

(* unsigned int arithmetic *)
Level(n) == n % LevelModulus

-----------------------------------------------------------------------------
(* The branches of NextPacket's switch. *)

(* Slip: the new packet jumps the queue. *)
StartPESInFront(ts) ==
  /\ ts.pusi /\ HeaderFound(ts)
  /\ PESdata' = <<NewPESPacket(ts)>> \o PESdata
  /\ BufferLevel' = Level(BufferLevel + ts.payloadSize)
  /\ CurrentState' = StateAfter(NewPESPacket(ts))
  /\ UNCHANGED status

(* A payload unit starts: queue its PES packet, if it is one of this stream. *)
StartPES(ts) ==
  /\ ts.pusi /\ HeaderFound(ts)
  /\ PESdata' = Append(PESdata, NewPESPacket(ts))
  /\ BufferLevel' = Level(BufferLevel + ts.payloadSize)
  /\ CurrentState' = StateAfter(NewPESPacket(ts))
  /\ UNCHANGED status

(* Between PES packets, or another stream's header: the payload is skipped. *)
SkipPayload(ts) ==
  /\ ~(ts.pusi /\ HeaderFound(ts))
  /\ CurrentState' = WaitForPesStart
  /\ UNCHANGED <<PESdata, BufferLevel, status>>

(* A payload unit starts inside a PES packet.  A PES packet without data is  *)
(* overwritten in place, or left in the queue as void when the unit is not   *)
(* one of this stream; one with data is dropped from the queue, and the null *)
(* pointer left in its place is written through.                             *)
RestartPES(ts) ==
  /\ ts.pusi
  /\ IF Last(PESdata).payload # <<>>
     THEN /\ PESdata' = Front(PESdata)
          /\ BufferLevel' = Level(BufferLevel - Len(Last(PESdata).payload))
          /\ status' = "crashed"
          /\ UNCHANGED CurrentState
     ELSE LET pes == IF HeaderFound(ts)
                     THEN NewPESPacket(ts)
                     ELSE [Last(PESdata) EXCEPT !.Started = FALSE, !.Complete = FALSE]
          IN  /\ PESdata' = WithLast(pes)
              /\ BufferLevel' = Level(BufferLevel + IF HeaderFound(ts) THEN ts.payloadSize ELSE 0)
              /\ CurrentState' = StateAfter(pes)
              /\ UNCHANGED status

ContinueLastPESPacket(ts) ==
  LET pes == ContinuedPESPacket(Last(PESdata), ts)
  IN  /\ ~ts.pusi
      /\ PESdata' = WithLast(pes)
      /\ BufferLevel' = Level(BufferLevel + CopySize(Last(PESdata), ts))
      /\ CurrentState' = StateAfter(pes)
      /\ UNCHANGED status

(* Slip: the last packet goes whether or not it is complete. *)
DropIncompleteAny ==
  /\ IF PESdata # <<>>
     THEN /\ PESdata' = Front(PESdata)
          /\ BufferLevel' = Level(BufferLevel - Len(Last(PESdata).payload))
     ELSE UNCHANGED <<PESdata, BufferLevel>>
  /\ CurrentState' = WaitForPesStart
  /\ UNCHANGED status

(* Slip: the bytes of the dropped packet stay counted. *)
DropIncompleteUncounted ==
  /\ PESdata' = IF PESdata # <<>> /\ ~Last(PESdata).Complete THEN Front(PESdata) ELSE PESdata
  /\ CurrentState' = WaitForPesStart
  /\ UNCHANGED <<BufferLevel, status>>

(* A continuity error: an incomplete PES packet at the back of the queue and *)
(* the packet in hand are both thrown away.                                  *)
DropIncomplete ==
  /\ IF PESdata # <<>> /\ ~Last(PESdata).Complete
     THEN /\ PESdata' = Front(PESdata)
          /\ BufferLevel' = Level(BufferLevel - Len(Last(PESdata).payload))
     ELSE UNCHANGED <<PESdata, BufferLevel>>
  /\ CurrentState' = WaitForPesStart
  /\ UNCHANGED status

-----------------------------------------------------------------------------
Init ==
  /\ CurrentState = WaitForPesStart
  /\ PESdata = <<>>
  /\ BufferLevel = 0
  /\ stream_id \in StreamIds       (* not initialised by the constructor *)
  /\ ContinuityCount = 255
  /\ doubleCC = FALSE
  /\ decoding = NoPES
  /\ status = "live"

NextPacket(ts) ==
  /\ status = "live"
  /\ decoding' = NoPES
  /\ UNCHANGED stream_id
  /\ \/ /\ ~ts.payloadPresent
        /\ UNCHANGED <<CurrentState, PESdata, BufferLevel, ContinuityCount, doubleCC, status>>
     \/ /\ ts.payloadPresent
        /\ doubleCC' = (doubleCC \/ CCMismatch(ts))
        /\ ContinuityCount' = ts.cc
        /\ LET state == IF CheckCCError(ts) THEN CCError ELSE CurrentState
           IN  \/ state = WaitForPesStart /\ StartPES(ts)
               \/ state = WaitForPesStart /\ SkipPayload(ts)
               \/ state = WaitForPESData /\ RestartPES(ts)
               \/ state = WaitForPESData /\ ContinueLastPESPacket(ts)
               \/ state = CCError /\ DropIncomplete

(* Slip: a stale packet is not discarded. *)
PacketControlKeepStale(PTS, PCR) ==
  IF PCR = 0 \/ (PTS >= PCR /\ PTS - PCR < DueWindow) THEN "PlayPacket" ELSE "Wait"

(* PCRTick's decision about a complete PES packet. *)
PacketControl(PTS, PCR) ==
  LET due(diff) == IF diff < DueWindow THEN "PlayPacket" ELSE "Wait"
  IN  CASE PCR = 0   -> "PlayPacket"
        [] PCR # 0 /\ PTS < PCR ->
             IF PTS > PtsHigh /\ PCR < PcrLow
             THEN due(PCR + (PtsMax - PTS))
             ELSE "DiscardPacket"
        [] PCR # 0 /\ PTS >= PCR -> due(PTS - PCR)

(* Slip: the packet is released before all of it has arrived. *)
TickControlEarly(front, PCR) == PacketControl(front.PTS, PCR)

(* An incomplete packet waits. *)
TickControl(front, PCR) ==
  IF front.Complete THEN PacketControl(front.PTS, PCR) ELSE "Wait"

PCRTick(PCR) ==
  /\ status = "live"
  /\ UNCHANGED <<CurrentState, stream_id, ContinuityCount, doubleCC, status>>
  /\ IF PESdata = <<>>
     THEN decoding' = NoPES /\ UNCHANGED <<PESdata, BufferLevel>>
     ELSE LET front == Head(PESdata)
              control == TickControl(front, PCR)
          IN  /\ decoding' = IF control = "PlayPacket" THEN front ELSE NoPES
              /\ PESdata' = IF control # "Wait" \/ ~(front.Started \/ front.Complete)
                            THEN Tail(PESdata) ELSE PESdata
              /\ BufferLevel' = IF control # "Wait"
                                THEN Level(BufferLevel - Len(front.payload))
                                ELSE BufferLevel

SetStreamID(id) ==
  /\ status = "live"
  /\ stream_id' = id
  /\ decoding' = NoPES
  /\ UNCHANGED <<CurrentState, PESdata, BufferLevel, ContinuityCount, doubleCC, status>>

(* The destructor. *)
Destroy ==
  /\ status = "live"
  /\ status' = "destroyed"
  /\ PESdata' = <<>>
  /\ BufferLevel' = 0
  /\ decoding' = NoPES
  /\ UNCHANGED <<CurrentState, stream_id, ContinuityCount, doubleCC>>

(* MaxQueue bounds the queue: the program has no such bound. *)
Next ==
  \/ \E ts \in TSPackets : NextPacket(ts) /\ Len(PESdata') <= MaxQueue
  \/ \E PCR \in PCRs : PCRTick(PCR)
  \/ \E id \in StreamIds : SetStreamID(id)
  \/ Destroy

Spec == Init /\ [][Next]_vars

-----------------------------------------------------------------------------
TypeOK ==
  /\ CurrentState \in {WaitForPesStart, WaitForPESData}
  /\ PESdata \in Seq(PESPacket_t)
  /\ BufferLevel \in 0 .. LevelModulus - 1
  /\ stream_id \in StreamIds
  /\ ContinuityCount \in Nat
  /\ doubleCC \in BOOLEAN
  /\ decoding \in PESPacket_t \cup {NoPES}
  /\ status \in {"live", "crashed", "destroyed"}

(* A PES packet that was begun but overwritten by another stream's header: *)
(* PCRTick removes it when it gets to the front.                           *)
Void(pes) == ~pes.Started /\ ~pes.Complete /\ pes.payload = <<>>

(* A PES packet in the queue has at most the data its header announced, and  *)
(* is complete exactly when it has all of it; or it is void.                 *)
WellFormed(pes) ==
  \/ /\ pes.Started
     /\ Len(pes.payload) \in 0 .. pes.pesPacketLength
     /\ pes.Complete <=> Len(pes.payload) = pes.pesPacketLength
  \/ Void(pes)

(* The PES packet at the back of queue q still waits for data. *)
Assembling(q) == q # <<>> /\ Last(q).Started /\ ~Last(q).Complete

WellQueued(q) ==
  /\ \A i \in 1 .. Len(q) : WellFormed(q[i])
  /\ \A i \in 1 .. Len(q) - 1 : q[i].Complete \/ Void(q[i])

(* Whatever PCRTick removes and NextPacket drops or overwrites, the handler  *)
(* waits for data exactly while the packet at the back of the queue is begun *)
(* and incomplete, and no other packet is: so back() of NextPacket is never  *)
(* called on an empty queue, nor is a complete packet appended to.           *)
QueueDiscipline ==
  /\ WellQueued(PESdata)
  /\ status = "live" => (CurrentState = WaitForPESData <=> Assembling(PESdata))

(* Only a complete PES packet reaches PESDecode. *)
DecodesComplete == decoding # NoPES => decoding.Complete

(* The bytes that the first n packets of a queue hold. *)
BytesUpTo(q) == PartialSums([i \in DOMAIN q |-> Len(q[i].payload)])

QueuedBytes == BytesUpTo(PESdata)[Len(PESdata)]

(* By how much BufferLevel is off. *)
Drift == Level(BufferLevel - QueuedBytes)

(* BufferLevel is adjusted in five places, by different amounts.  It drifts  *)
(* from the bytes in the queue in two cases only: a transport packet whose   *)
(* payload size is negative, which is added although nothing is copied, and  *)
(* one that begins a PES packet shorter than its payload, all of which       *)
(* NewPESPacketFound adds.  Every other step keeps the error it finds, the   *)
(* drop at a continuity error among them, whatever packet it is found with.  *)
DriftHasCauses ==
  [][ Drift' # Drift /\ status' # "destroyed" =>
        \E ts \in TSPackets :
          /\ NextPacket(ts) /\ ~CheckCCError(ts)
          /\ \/ ts.payloadSize < 0
             \/ ts.pusi /\ HeaderFound(ts) /\ ts.payloadSize > ts.pesSize ]_vars

(* The packet just before a wrap of the 33-bit clock: PTS is due within      *)
(* DueWindow, and the clock passes zero before it gets there.                *)
DueAfterWrap(PTS, PCR) ==
  PTS < PCR /\ PTS + (PtsMax + 1) - PCR < DueWindow

(* PCRTick tells a packet whose PTS lies behind a wrap of the clock from a   *)
(* stale one ("Wrap around or packet is stale"): a packet that is due in the *)
(* next ticks is not thrown away because the clock wraps in between.         *)
WrappedIsNotStale ==
  [][ \A PCR \in PCRs :
        (/\ PCRTick(PCR)
         /\ PESdata # <<>>
         /\ Head(PESdata).Complete
         /\ DueAfterWrap(Head(PESdata).PTS, PCR))
        => decoding' # NoPES \/ PESdata' = PESdata ]_vars

-----------------------------------------------------------------------------
(* What the handler promises its decoder: see PESFifo.                     *)

Ready(q) == IF Assembling(q) THEN Front(q) ELSE q
Partial(q) == IF Assembling(q) THEN Last(q) ELSE NoPES

Fifo == INSTANCE PESFifo WITH
          Units <- PESPacket_t,
          None <- NoPES,
          ready <- Ready(PESdata),
          partial <- Partial(PESdata),
          handed <- decoding,
          open <- status # "destroyed"

(* Every behaviour of the handler is one of a first-in first-out reassembler. *)
FifoSpec == Fifo!Spec
=============================================================================
