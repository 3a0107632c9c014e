----------------------------- MODULE TSReception -----------------------------
(***************************************************************************)
(* TSPacketHandler at the end of a channel: a multiplexer cuts PES packets *)
(* into transport packets with consecutive continuity counters, the        *)
(* channel loses some and repeats some, and the receiver calls NextPacket  *)
(* with what arrives and PCRTick with the advancing clock.                 *)
(*                                                                         *)
(* Every transport packet carries one unit <<k, j>> of payload, the j-th   *)
(* of the k-th PES packet, so a reassembled packet shows what it is made   *)
(* of.                                                                     *)
(***************************************************************************)
EXTENDS TSPacketHandler

CONSTANTS
  Chunks,     (* Chunks[k]: into how many transport packets PES k is cut.  *)
  Stamps,     (* Stamps[k]: the PTS of PES k.                              *)
  Units,      (* The units of all PES packets in the order in which they   *)
              (* are sent.                                                 *)
  StreamId,   (* The stream_id of the stream.                              *)
  MaxLost,    (* Bound: how many transport packets the channel loses.      *)
  MaxRepeats, (* Bound: how many transport packets arrive twice.           *)
  MaxClock,   (* Bound: the clock stops here.                              *)
  MaxStep     (* Bound: how far the clock moves between two PCRTicks.      *)

PES == DOMAIN Chunks

Before(u, v) == u[1] < v[1] \/ (u[1] = v[1] /\ u[2] < v[2])

ASSUME LayoutAssumption ==
  /\ Chunks \in Seq(Nat \ {0}) /\ Stamps \in Seq(0 .. PtsMax)
  /\ Len(Stamps) = Len(Chunks)
  /\ StreamId \in StreamIds
(* Every unit is sent once, in the order of PES packets and within them. *)
ASSUME UnitsAssumption ==
  /\ Units \in Seq(Nat \X Nat)
  /\ \A n \in DOMAIN Units : Units[n][1] \in PES /\ Units[n][2] \in 1 .. Chunks[Units[n][1]]
  /\ \A k \in PES : \A j \in 1 .. Chunks[k] : \E n \in DOMAIN Units : Units[n] = <<k, j>>
  /\ \A m, n \in DOMAIN Units : m < n => Before(Units[m], Units[n])
(* With a full turn of the continuity counter a loss could not be seen. *)
ASSUME ChannelAssumption ==
  /\ MaxLost \in Nat /\ MaxRepeats \in Nat /\ MaxClock \in Nat /\ MaxStep \in Nat \ {0}
  /\ MaxLost < CCModulus /\ CCModulus > 1
  /\ 0 .. MaxClock \subseteq PCRs

(* The n-th transport packet of the stream, with a continuity counter. *)
StreamPacket(n, counter) ==
  LET k == Units[n][1]
      first == Units[n][2] = 1
  IN  [payloadPresent |-> TRUE, pusi |-> first, cc |-> counter,
       sid |-> IF first THEN StreamId ELSE NoHeader,
       pts |-> IF first THEN Stamps[k] ELSE 0,
       pesSize |-> IF first THEN Chunks[k] ELSE 1,
       payloadSize |-> 1, payload |-> <<Units[n]>>]

ASSUME StreamPacketAssumption ==
  \A n \in DOMAIN Units, counter \in 0 .. CCModulus - 1 : StreamPacket(n, counter) \in TSPackets

VARIABLES
  ccBase,   (* The continuity counter of the first transport packet.   *)
  sent,     (* How many transport packets have been sent.              *)
  arrived,  (* The units of those that arrived, in order.              *)
  lost,     (* How many the channel lost.                              *)
  repeats,  (* How many the channel repeated.                          *)
  clock,    (* The clock at the last PCRTick; 0 while it is not known. *)
  decoded,  (* The payloads handed to PESDecode, in order.             *)
  stale     (* The PES packets PCRTick discarded.                      *)

channelVars == <<ccBase, sent, arrived, lost, repeats>>
outputVars == <<clock, decoded, stale>>
allVars == <<vars, channelVars, outputVars>>

Packet(n) == StreamPacket(n, (ccBase + n - 1) % CCModulus)

ReceptionInit ==
  /\ Init
  /\ stream_id = StreamId
  /\ ccBase \in 0 .. CCModulus - 1
  /\ sent = 0 /\ arrived = <<>> /\ lost = 0 /\ repeats = 0
  /\ clock = 0 /\ decoded = <<>> /\ stale = {}

Deliver ==
  /\ sent < Len(Units)
  /\ NextPacket(Packet(sent + 1))
  /\ sent' = sent + 1
  /\ arrived' = Append(arrived, Units[sent + 1])
  /\ UNCHANGED <<ccBase, lost, repeats, outputVars>>

Lose ==
  /\ sent < Len(Units) /\ lost < MaxLost
  /\ sent' = sent + 1 /\ lost' = lost + 1
  /\ UNCHANGED <<vars, ccBase, arrived, repeats, outputVars>>

(* The transport packet that arrived last arrives again. *)
Repeat ==
  /\ repeats < MaxRepeats
  /\ arrived # <<>> /\ Last(arrived) = Units[sent]
  /\ NextPacket(Packet(sent))
  /\ repeats' = repeats + 1
  /\ arrived' = Append(arrived, Units[sent])
  /\ UNCHANGED <<ccBase, sent, lost, outputVars>>

Tick ==
  \E step \in 1 .. MaxStep :
    /\ clock' = Smaller(clock + step, MaxClock)
    /\ PCRTick(clock')
    /\ decoded' = IF decoding' # NoPES THEN Append(decoded, decoding'.payload) ELSE decoded
    /\ stale' = IF PESdata' # PESdata /\ decoding' = NoPES
                THEN stale \cup {Head(PESdata).payload[1][1]} ELSE stale
    /\ UNCHANGED channelVars

(* The clock is not known yet, and PCRTick is called with 0. *)
TickUnknown ==
  /\ clock = 0
  /\ PCRTick(0)
  /\ decoded' = IF decoding' # NoPES THEN Append(decoded, decoding'.payload) ELSE decoded
  /\ UNCHANGED <<channelVars, clock, stale>>

ReceptionNext == Deliver \/ Lose \/ Repeat \/ Tick \/ TickUnknown

(* The receiver reads to the end of the stream and never stops its clock.  *)
(* Which packets the channel spoils is left open.                          *)
ReceptionSpec ==
  /\ ReceptionInit /\ [][ReceptionNext]_allVars
  /\ WF_allVars(Deliver) /\ WF_allVars(Tick)

-----------------------------------------------------------------------------
Source(k) == [j \in 1 .. Chunks[k] |-> <<k, j>>]

(* The PES packet a reassembled payload began with. *)
Origin(payload) == payload[1][1]

(* The i-th packet given to the decoder is not what was sent, or was given to *)
(* it before.                                                                 *)
Faulty(i) ==
  \/ decoded[i] # Source(Origin(decoded[i]))
  \/ \E j \in 1 .. i - 1 : Origin(decoded[j]) = Origin(decoded[i])

(* The handler tolerates one continuity mismatch in its life and then drops *)
(* what it was assembling on every other one.  So however many transport    *)
(* packets are lost or repeated (fewer than CCModulus of them), the decoder *)
(* is given at most one spliced or repeated PES packet.                     *)
AtMostOneFault == Cardinality({i \in DOMAIN decoded : Faulty(i)}) <= 1

(* PES packets reach the decoder in the order in which they were sent. *)
DecodedInOrder ==
  \A i, j \in DOMAIN decoded : i < j => Origin(decoded[i]) <= Origin(decoded[j])

(* All transport packets of PES k arrived, once each and right after the     *)
(* packet that was sent before them.                                         *)
ArrivedCleanly(k) ==
  \E i \in 1 .. Len(arrived) - Chunks[k] + 1 :
    /\ SubSeq(arrived, i, i + Chunks[k] - 1) = Source(k)
    /\ IF k = 1 THEN i = 1 ELSE i > 1 /\ arrived[i - 1] = <<k - 1, Chunks[k - 1]>>
    /\ i + Chunks[k] <= Len(arrived) => arrived[i + Chunks[k]] # <<k, Chunks[k]>>

Reassembled ==
  {decoded[i] : i \in DOMAIN decoded} \cup {PESdata[i].payload : i \in DOMAIN PESdata}

(* Errors elsewhere in the stream never cost a PES packet that arrives       *)
(* cleanly: it is queued or decoded, unless the clock left it behind.        *)
CleanPESIsKept ==
  status = "live" =>
    \A k \in PES : ArrivedCleanly(k) => Source(k) \in Reassembled \/ k \in stale

(* "lets overstamp the previous packet at the back of the queue": a payload  *)
(* unit that starts inside a PES packet replaces it.                         *)
NeverCrashes == status # "crashed"

NoMishap == lost = 0 /\ repeats = 0

(* On a clean channel, wherever the continuity counter starts and however    *)
(* arrivals and clock ticks interleave, every PES packet is eventually       *)
(* decoded intact or discarded because the clock had passed it.              *)
CleanStreamIsHandled ==
  []NoMishap => <>(\A k \in PES : k \in stale \/ \E i \in DOMAIN decoded : decoded[i] = Source(k))

=============================================================================
