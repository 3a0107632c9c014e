------------------------- MODULE TransportStreamFile -------------------------
(***************************************************************************)
(* A file that fileWriter has written, of which the beginning may then     *)
(* have been cut off, is read with fileReader: its constructor looks for   *)
(* the first packet and its length in the first bytes of the file, and     *)
(* readTsPacket takes packets from a buffer that is read in blocks.        *)
(***************************************************************************)
EXTENDS FileWriter, SequencesExt

CONSTANTS
  Sync,          (* 0x47.                                             *)
  TestBufferSize (* The bytes of test_buffer.                         *)

ASSUME ReaderAssumption == Sync \in Byte /\ TestBufferSize \in Nat \ {0}

VARIABLES
  infile,                 (* What is in the file.                          *)
  position,               (* How many bytes of it have been read.          *)
  readLength,             (* The reader's pkt_len.                         *)
  readBuffer,             (* The reader's buffer, from                     *)
                          (* next_available_packet on.                     *)
  pkts_available,         (* The packets in it.                            *)
  reader,                 (* "none", "opened", "ready", "end" (readTsPacket *)
                          (* has returned 0), "lost" (SyncToTSHeader reads *)
                          (* on behind test_buffer).                       *)
  packets                 (* History: the packets readTsPacket returned.   *)

readerVars == <<infile, position, readLength, readBuffer, pkts_available, reader, packets>>
vars == <<writerVars, readerVars>>

Init ==
  /\ WriterInit
  /\ infile = <<>> /\ position = 0 /\ readLength = 0
  /\ readBuffer = <<>> /\ pkts_available = 0 /\ reader = "none" /\ packets = <<>>

(* test_buffer at an index: what the file has there, as far as it was read.  *)
(* The rest of it was never written.                                         *)
InFile(i) == i < Len(infile) /\ i < TestBufferSize
IsSyncByte(i) == infile[i + 1] = Sync
IsSync(i) == InFile(i) /\ IsSyncByte(i)
MayBeSync(i) == InFile(i) => IsSyncByte(i)

(* A packet of this length begins there: certainly, or as far as is known. *)
Begins(i, length)   == \A n \in 0 .. 2 : IsSync(i + n * length)
MayBegin(i, length) == \A n \in 0 .. 2 : MayBeSync(i + n * length)

(* The indices and lengths in the order they are tried. *)
TriedBefore(j, shorter, i, length) == j < i \/ (j = i /\ shorter < length)

(* Where SyncToTSHeader may stop: where nothing before certainly stops it.   *)
Stops ==
  {stop \in (0 .. TestBufferSize - 1) \X PacketLengths :
     /\ MayBegin(stop[1], stop[2])
     /\ \A j \in 0 .. stop[1], length \in PacketLengths :
          TriedBefore(j, length, stop[1], stop[2]) => ~Begins(j, length)}

SomethingBegins ==
  \E i \in 0 .. TestBufferSize - 1, length \in PacketLengths : Begins(i, length)

(* The constructor of fileReader, for a file that has lost its first bytes. *)
OpenFile(cut) ==
  /\ fileState \in {"closed", "destroyed"} /\ reader = "none"
  /\ infile' = SubSeq(outfile, cut + 1, Len(outfile))
  /\ reader' = "opened"
  /\ UNCHANGED <<writerVars, position, readLength, readBuffer, pkts_available, packets>>

SyncToTSHeader ==
  /\ reader = "opened"
  /\ \/ \E stop \in Stops :
          /\ position' = stop[1] /\ readLength' = stop[2]
          /\ reader' = "ready"
     \/ ~SomethingBegins /\ reader' = "lost" /\ UNCHANGED <<position, readLength>>
  /\ UNCHANGED <<writerVars, infile, readBuffer, pkts_available, packets>>

Unread == Len(infile) - position

(* What fread returns for the bytes that are left. *)
PacketsOf(bytes) == IF bytes <= 0 THEN 0 ELSE Min({MAX_NUM_PACKETS, bytes \div readLength})

(* Slip: everything is taken, also what the buffer has no room for. *)
ReadUpToEnd(bytes) == position + bytes

(* fread also takes the part of a packet that it does not count. *)
ReadUpTo(bytes) == Min({position + MAX_NUM_PACKETS * readLength, position + bytes})

(* A call of readTsPacket, with the Block_read it makes when nothing is left.*)
readTsPacket ==
  /\ reader = "ready"
  /\ LET block  == pkts_available = 0
         number == IF block THEN PacketsOf(Unread) ELSE pkts_available
         buffer == IF block THEN SubSeq(infile, position + 1, position + number * readLength)
                            ELSE readBuffer
     IN  /\ position' = IF block /\ Unread > 0 THEN ReadUpTo(Unread) ELSE position
         /\ IF number = 0
            THEN /\ reader' = "end" /\ UNCHANGED packets
                 /\ pkts_available' = 0 /\ readBuffer' = <<>>
            ELSE /\ packets' = Append(packets, SubSeq(buffer, 1, readLength))
                 /\ pkts_available' = number - 1
                 /\ readBuffer' = SubSeq(buffer, readLength + 1, Len(buffer))
                 /\ UNCHANGED reader
  /\ UNCHANGED <<writerVars, infile, readLength>>

(* What a program is told to expect: the bytes before the first packet count,*)
(* as does what is left of a packet that is cut off.                         *)
getTotalNumberOfPackets == Len(infile) \div readLength

Reader ==
  \/ \E cut \in 0 .. Ts204Byte : OpenFile(cut)
  \/ SyncToTSHeader
  \/ readTsPacket

Writer == reader = "none" /\ WriterNext /\ UNCHANGED readerVars

Next == Writer \/ Reader

Spec == Init /\ [][Next]_vars

-----------------------------------------------------------------------------
TypeOK ==
  /\ WriterTypeOK
  /\ infile \in Seq(Byte) /\ position \in 0 .. Len(infile) + TestBufferSize
  /\ readLength \in PacketLengths \cup {0}
  /\ readBuffer \in Seq(Byte) /\ Len(readBuffer) = pkts_available * readLength
  /\ pkts_available \in 0 .. MAX_NUM_PACKETS
  /\ reader \in {"none", "opened", "ready", "end", "lost"}
  /\ packets \in Seq(Seq(Byte))

(* The file is packets of one length, the first complete one at offset; the  *)
(* sync byte is nowhere else.                                                *)
CleanFile(length, offset) ==
  \A i \in 0 .. Len(infile) - 1 : IsSyncByte(i) <=> i % length = offset

(* From a file of packets of one length, at least three of them complete,    *)
(* and the sync byte nowhere else, the reader returns the packets of the     *)
(* file, in order and without a gap from one block to the next, wherever the *)
(* file begins; and when it says that it is at the end, it has returned them *)
(* all but a last one that is cut off, and getTotalNumberOfPackets tells     *)
(* their number or one more.                                                 *)
PacketsAreThoseOfTheFile ==
  \A length \in PacketLengths : \A offset \in 0 .. length - 1 :
    CleanFile(length, offset) /\ Begins(offset, length) /\ reader \notin {"none", "opened"} =>
      /\ reader # "lost"
      /\ \A k \in DOMAIN packets :
           packets[k] = SubSeq(infile, offset + (k - 1) * length + 1, offset + k * length)
      /\ reader = "end" =>
           /\ Len(packets) = (Len(infile) - offset) \div length
           /\ getTotalNumberOfPackets \in {Len(packets), Len(packets) + 1}
=============================================================================
