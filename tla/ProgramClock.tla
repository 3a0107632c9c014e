---------------------------- MODULE ProgramClock ----------------------------
(***************************************************************************)
(* The program clock: pcr keeps the last three clock references with the   *)
(* numbers of the packets that carried them, and extrapolates the clock to *)
(* any later packet from the average advance per packet.  StreamTime keeps *)
(* the first reference as the start of the stream.                         *)
(*                                                                         *)
(* The clock has 33 bits, but is computed with in words of 64.             *)
(***************************************************************************)
EXTENDS Integers, Sequences

CONSTANTS
  ClockModulus,  (* 2^33 *)
  WordModulus    (* 2^64 *)

ASSUME ClockAssumption ==
  /\ ClockModulus \in Nat /\ WordModulus \in Nat
  /\ 1 < ClockModulus /\ ClockModulus < WordModulus

VARIABLES
  PCRHistory,       (* The last three references, oldest first, and the     *)
  PCRPacketNumber,  (* packets they came in; 0 where there is none.         *)
  PCRPerPacket,     (* The average advance per packet; 0: not ready.        *)
  StreamStartTime   (* The first reference; 0: none yet.                    *)

clockVars == <<PCRHistory, PCRPacketNumber, PCRPerPacket, StreamStartTime>>

ClockInit ==
  /\ PCRHistory = <<0, 0, 0>> /\ PCRPacketNumber = <<0, 0, 0>>
  /\ PCRPerPacket = 0
  /\ StreamStartTime = 0

ready == PCRPerPacket # 0

(* Slip: the clock is taken from the oldest reference. *)
getPCRFromOldest(packetNumber) ==
  IF ready
  THEN (PCRHistory[1] + PCRPerPacket * (packetNumber - PCRPacketNumber[3])) % ClockModulus
  ELSE 0

(* The clock at a packet, from the last reference on; 0 when not ready. *)
getPCR(packetNumber) ==
  IF ready
  THEN (PCRHistory[3] + PCRPerPacket * (packetNumber - PCRPacketNumber[3])) % ClockModulus
  ELSE 0

(* The unsigned difference of two references over that of their packets. *)
Average(values, packets) ==
  ((values[3] - values[1]) % WordModulus) \div (packets[3] - packets[1])

StartTime_Set(SCR) ==
  StreamStartTime' = IF StreamStartTime = 0 THEN SCR ELSE StreamStartTime

(* An average needs three references, the oldest of them not in packet 0. *)
newValue(newPCR, packetNumber) ==
  LET values  == Append(Tail(PCRHistory), newPCR)
      packets == Append(Tail(PCRPacketNumber), packetNumber)
  IN  /\ PCRHistory' = values /\ PCRPacketNumber' = packets
      /\ PCRPerPacket' = IF packets[1] # 0 THEN Average(values, packets) ELSE PCRPerPacket
      /\ StartTime_Set(newPCR)

(* Only an adaptation field of at least 7 bytes can hold a reference. *)
CarriesPCR(ts) == ts.adaptation_field_length >= 7 /\ ts.PCR_flag

(* The reference in a packet: its lowest bit is read as 1, whatever it is. *)
Reference(base) == 2 * (base \div 2) + 1

ClockPacket(ts, packetNumber) ==
  IF CarriesPCR(ts) THEN newValue(Reference(ts.base), packetNumber) ELSE UNCHANGED clockVars
=============================================================================
