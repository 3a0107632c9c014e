----------------------------- MODULE FileWriter ------------------------------
(***************************************************************************)
(* fileWriter collects transport packets in a buffer that is allocated for *)
(* a number of packets of the present length, and writes the buffer to the *)
(* file when it is full, when the length of the packets changes, and when  *)
(* the file is flushed or closed.                                          *)
(*                                                                         *)
(* The buffer is the bytes between pkt_buffer and next_available_packet,   *)
(* so that what is written outside of what was allocated can be seen.      *)
(***************************************************************************)
EXTENDS Integers, Sequences

CONSTANTS
  Ts188Byte, Ts204Byte,  (* The two lengths of a packet.           *)
  Byte,                  (* The bytes a packet has.                *)
  MAX_NUM_PACKETS,       (* What the buffer has room for.          *)
  TransportPackets,      (* The packets there are to write.        *)
  MaxWritten             (* Bound on the bytes given to the writer.*)

PacketLengths == {Ts188Byte, Ts204Byte}

ASSUME WriterAssumption ==
  /\ Ts188Byte \in Nat \ {0} /\ Ts204Byte \in Nat \ {0} /\ Ts188Byte < Ts204Byte
  /\ MAX_NUM_PACKETS \in Nat \ {0}
  /\ TransportPackets \subseteq {p \in Seq(Byte) : Len(p) \in PacketLengths}
  /\ MaxWritten \in Nat

VARIABLES
  pkt_len,     (* The present length of the packets.                            *)
  pkt_buffer,  (* The bytes in the buffer.                                      *)
  outfile,     (* The bytes in the file.                                        *)
  fileState,   (* "open", "closed", "destroyed", "undefined" (the file has been *)
               (* closed twice: what happens then is not defined).              *)
  written,     (* History: the bytes of all the packets given to the writer.    *)
  discarded,   (* History: setPacketLength has thrown away a buffer in use.     *)
  failed       (* History: a write to the file was not complete.                *)

writerVars == <<pkt_len, pkt_buffer, outfile, fileState, written, discarded, failed>>

WriterInit ==
  /\ pkt_len \in PacketLengths
  /\ pkt_buffer = <<>> /\ outfile = <<>> /\ fileState = "open"
  /\ written = <<>> /\ discarded = FALSE /\ failed = FALSE

Full == Len(pkt_buffer) = pkt_len * MAX_NUM_PACKETS

(* Slip: a full buffer is taken for one that has room. *)
MustBeWrittenLate(length) == Len(pkt_buffer) > pkt_len * MAX_NUM_PACKETS \/ length # pkt_len

(* Slip: a change of the length does not write the buffer. *)
MustBeWrittenFull(length) == Full

MustBeWritten(length) == Full \/ length # pkt_len

(* Block_write: the buffer goes to the file, or, when the device has no room *)
(* for it, a part of it and nothing from then on.  What fwrite returns is    *)
(* not looked at, and the buffer is empty either way.                        *)
FileAfter(buffer) ==
  IF failed THEN {outfile} ELSE {outfile \o SubSeq(buffer, 1, n) : n \in 0 .. Len(buffer)}

(* Slip: the buffer is written and not emptied. *)
BufferAfterKept(length) == pkt_buffer

BufferAfter(length) == IF MustBeWritten(length) THEN <<>> ELSE pkt_buffer

(* Slip: the length stays what it was. *)
NewLengthKept(length) == pkt_len

(* setPacketLength, called for a packet. *)
NewLength(length) == length

(* The file after a Block_write of this buffer. *)
BlockWrite(buffer) ==
  /\ outfile' \in FileAfter(buffer)
  /\ failed' = (failed \/ outfile' # outfile \o buffer)

writeTsPacket(p) ==
  /\ fileState = "open" /\ Len(written) + Len(p) <= MaxWritten
  /\ IF MustBeWritten(Len(p)) THEN BlockWrite(pkt_buffer) ELSE UNCHANGED <<outfile, failed>>
  /\ pkt_len' = NewLength(Len(p))
  /\ pkt_buffer' = BufferAfter(Len(p)) \o SubSeq(p, 1, pkt_len')
  /\ written' = written \o p
  /\ UNCHANGED <<fileState, discarded>>

(* setPacketLength, called from outside: what the buffer holds is lost. *)
setPacketLength(length) ==
  /\ fileState = "open" /\ length # pkt_len
  /\ pkt_len' = length
  /\ pkt_buffer' = <<>>
  /\ discarded' = (discarded \/ pkt_buffer # <<>>)
  /\ UNCHANGED <<outfile, fileState, written, failed>>

flush ==
  /\ fileState = "open"
  /\ BlockWrite(pkt_buffer)
  /\ pkt_buffer' = <<>>
  /\ UNCHANGED <<pkt_len, fileState, written, discarded>>

close ==
  /\ fileState = "open"
  /\ BlockWrite(pkt_buffer)
  /\ pkt_buffer' = <<>> /\ fileState' = "closed"
  /\ UNCHANGED <<pkt_len, written, discarded>>

(* The destructor closes the file, and does not know whether close did. *)
destroy ==
  /\ fileState \in {"open", "closed"}
  /\ BlockWrite(pkt_buffer)
  /\ pkt_buffer' = <<>>
  /\ fileState' = IF fileState = "open" THEN "destroyed" ELSE "undefined"
  /\ UNCHANGED <<pkt_len, written, discarded>>

WriterNext ==
  \/ \E p \in TransportPackets : writeTsPacket(p)
  \/ \E length \in PacketLengths : setPacketLength(length)
  \/ flush \/ close \/ destroy

WriterSpec == WriterInit /\ [][WriterNext]_writerVars

-----------------------------------------------------------------------------
WriterTypeOK ==
  /\ pkt_len \in PacketLengths
  /\ pkt_buffer \in Seq(Byte) /\ outfile \in Seq(Byte) /\ written \in Seq(Byte)
  /\ fileState \in {"open", "closed", "destroyed", "undefined"}
  /\ discarded \in BOOLEAN /\ failed \in BOOLEAN

(* The buffer never holds more than it was allocated for, and what it holds  *)
(* is whole packets of the present length, so that the test for a full       *)
(* buffer, which is for equality, is not passed by.                          *)
BufferFits ==
  \E n \in 0 .. MAX_NUM_PACKETS : Len(pkt_buffer) = n * pkt_len

(* Whatever the lengths of the packets, and whenever the buffer is written,  *)
(* the file and then the buffer are what was given to the writer, in order   *)
(* and once, unless setPacketLength was called by the program while packets  *)
(* were waiting, or the device was full.                                     *)
NothingIsLost == discarded \/ failed \/ outfile \o pkt_buffer = written
=============================================================================
