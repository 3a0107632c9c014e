----------------------- MODULE TransportPacketFields -----------------------
(***************************************************************************)
(* TransportPacket as an object: the fields of its header and what sets    *)
(* them, where its payload is, and fgetTSsync, which finds out how long    *)
(* the packets of a file are.                                              *)
(***************************************************************************)
EXTENDS Integers, Sequences

CONSTANTS
  Ts188Byte,     (* 188: bytes of a packet.                                 *)
  Ts204Byte      (* 204: with error correction.                             *)

ASSUME PacketSizesAssumption ==
  /\ Ts188Byte \in Nat /\ Ts204Byte \in Nat
  /\ 5 < Ts188Byte /\ Ts188Byte + 4 <= Ts204Byte /\ Ts204Byte < 2 * Ts188Byte

NULLPID == 8191
PayloadSize == Ts188Byte - 4

(* The payload begins at byte Payload; 0 is NULL.  The adaptation field's    *)
(* length is the byte behind the header; a packet may say anything there.    *)
findPayload(p) ==
  IF p.adaptation % 2 = 0 THEN [p EXCEPT !.Payload = 0, !.payloadSize = 0]
  ELSE IF p.adaptation = 3
  THEN [p EXCEPT !.Payload = 5 + p.afLength, !.payloadSize = p.packetSize - 5 - p.afLength]
  ELSE [p EXCEPT !.Payload = 4, !.payloadSize = PayloadSize]

SetPacket(header, packetSize) ==
  findPayload([error |-> header.error, PUSI |-> header.PUSI, priority |-> header.priority,
               PID |-> header.PID, scrambling |-> header.scrambling,
               adaptation |-> header.adaptation, CC |-> header.CC, afLength |-> header.afLength,
               packetSize |-> packetSize, Payload |-> 0, payloadSize |-> 0])

(* The mask keeps a bit of the old PID, its highest, and clears the error    *)
(* indicator.                                                                *)
SetPID(p, PID) ==
  [p EXCEPT !.error = 0, !.PID = IF @ >= 4096 /\ PID < 4096 THEN PID + 4096 ELSE PID]

(* Two masks are combined that have no bit in common: everything in that     *)
(* byte is cleared.                                                          *)
SetCC(p, CC) == [p EXCEPT !.CC = 0, !.adaptation = 0, !.scrambling = 0]

SetPUSI(p, NewPUSI) == [p EXCEPT !.PUSI = IF NewPUSI = 0 THEN 0 ELSE 1]

(* The payload stays where it was. *)
MakeNULLPID(p) ==
  [SetPID([p EXCEPT !.error = 0, !.PUSI = 0, !.priority = 0, !.PID = 0], NULLPID)
     EXCEPT !.scrambling = 0, !.adaptation = 1, !.CC = 0]

(* The bytes MakeNULLPID fills: as many as the packet has, from the payload  *)
(* on, in an array for the longer packet.                                    *)
FillsOutside(p) == p.Payload = 0 \/ p.Payload + p.packetSize > Ts204Byte

ConvertTo188(p) == [p EXCEPT !.packetSize = Ts188Byte]
ConvertTo204(p) == [p EXCEPT !.packetSize = Ts204Byte]

-----------------------------------------------------------------------------
(* fgetTSsync.  A file is its number of bytes and those that are the sync    *)
(* byte; at is how many are read.  Reading behind the end finds no sync.     *)
Consume(s, n) ==
  IF s.at + n <= s.file.size THEN [s EXCEPT !.at = @ + n] ELSE [s EXCEPT !.at = s.file.size, !.eof = TRUE]

GotSync(s) == ~s.eof /\ s.at \in s.file.syncs

(* Up to the next sync byte, or the end. *)
SkipToSync(s) ==
  LET next == {n \in s.file.syncs : n > s.at}
  IN  IF next = {} THEN Consume(s, s.file.size + 1)
      ELSE [s EXCEPT !.at = CHOOSE n \in next : \A other \in next : n <= other]

Less(count) == IF count = 0 THEN 0 ELSE count - 1

SYNC_LENGTH == 3

SyncLoop(s) ==
  LET short == Consume(Consume(s, Ts188Byte - 1), 1)
      long  == Consume(short, Ts204Byte - Ts188Byte)
  IN  IF s.eof \/ s.count_188 >= SYNC_LENGTH \/ s.count_204 >= SYNC_LENGTH THEN s
      ELSE CASE GotSync(short) -> [short EXCEPT !.count_188 = @ + 1]
             [] ~GotSync(short) /\ GotSync(long) ->
                  [long EXCEPT !.count_204 = @ + 1, !.count_188 = 0]
             [] OTHER ->
                  SkipToSync([long EXCEPT !.count_188 = Less(@), !.count_204 = Less(@)])

(* The file has a sync byte: without one the first loop does not end.  Each  *)
(* pass of the second reads as much as a packet or comes to the end, so that *)
(* there are no more passes than that.  The size is left as it was, 0, when  *)
(* there is no second sync byte.                                             *)
Passes(file) == file.size \div Ts188Byte + 1

fgetTSsync(file) ==
  LET start == SkipToSync([file |-> file, at |-> 0, eof |-> FALSE, count_188 |-> 0, count_204 |-> 0])
      loop[i \in 0 .. Passes(file)] == IF i = 0 THEN start ELSE SyncLoop(loop[i - 1])
      s == loop[Passes(file)]
  IN  CASE s.count_204 # 0 -> Ts204Byte
        [] s.count_204 = 0 /\ s.count_188 # 0 -> Ts188Byte
        [] OTHER -> 0

-----------------------------------------------------------------------------
(* The header of a PES packet.  A byte, and the time stamp, are given by the *)
(* bits of them that are one.  The time stamp has 33, in five bytes (stamp)  *)
(* with marks between them.                                                  *)
Shifted(bits, n) == {bit + n : bit \in bits}

FindPESHeaderAndGetPTS(buf, stream_id) ==
  LET found == buf.startCode /\ buf.stream_id = stream_id
  IN  [found |-> found,
       PTS   |-> IF ~found \/ 7 \notin buf.flags THEN {}
                 ELSE Shifted(buf.stamp[1] \cap 1 .. 3, 29) \cup Shifted(buf.stamp[2], 22)
                        \cup Shifted(buf.stamp[3] \cap 1 .. 7, 14) \cup Shifted(buf.stamp[4], 7)
                        \cup Shifted(buf.stamp[5] \cap 1 .. 7, -1)]

GetPESPacketSize(buf) == buf.pes_packet_length + 6

(* Where the data of a packet of that size begins; 0 is nullptr. *)
GetPESData(buf, size) == IF size > 10 THEN 9 + buf.headerLength ELSE 0

(* Less than zero when the header claims more than there is. *)
GetPESDataLength(buf, size) == IF GetPESData(buf, size) = 0 THEN 0 ELSE size - GetPESData(buf, size)
=============================================================================
