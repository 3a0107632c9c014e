-------------------------- MODULE ElementaryOutput --------------------------
(***************************************************************************)
(* The packet handlers that write what a PES packet carries: as samples of *)
(* a WAV file (LPCM), as bursts of a WAV file (DTS, AC-3, E-AC-3), or as   *)
(* it is (ES and PES dump).  A program creates one of them, hands it PES   *)
(* packets, switches its log on and off, destroys it and reads the file.   *)
(*                                                                         *)
(* The handlers work through a packet with a pointer and an unsigned count *)
(* of what is left, GetPESDataLength at first.  A count that passes zero,  *)
(* and a length that is negative because the header says it is longer than *)
(* the packet, are huge.  A handler that reads behind the packet leaves    *)
(* fault "overrun", and nothing is done after it.                          *)
(***************************************************************************)
EXTENDS WAVFile, Sums

CONSTANTS
  Kinds,             (* The handlers that may be created.                   *)
  DECODED_FRAME_SIZE,(* 1536: samples of a frame of AC-3.                    *)
  DTSTypes,          (* 512, 1024, 2048: the frames of type 1, 2 and 3.     *)
  DTSHeaderBytes,    (* 15: what DTSMetadata reads to begin with.           *)
  DTSPackets,        (* Packets of DTS: frames, and bytes behind them that  *)
                     (* are no frame.                                       *)
  LPCMHeaders,       (* What four bytes read as a header may say.           *)
  PESSizes,          (* Bytes of a PES packet, and negative lengths.        *)
  AC3Frames,         (* Words of an AC-3 frame, the header of a burst less  *)
                     (* than the burst at most (1920 of 3068).              *)
  Samples,           (* Samples a program writes.                           *)
  MaxPES             (* Bounds the packets handed over.                     *)

ASSUME OutputAssumption ==
  /\ DECODED_FRAME_SIZE \in Nat /\ DECODED_FRAME_SIZE > 1
  /\ DTSTypes \in Seq(Nat) /\ Len(DTSTypes) = 3
  /\ DTSHeaderBytes \in Nat \ {0}
  /\ DTSPackets \subseteq [frames : Seq([pairs : Nat, size : Nat \ {0}, present : Nat, beyond : Nat]), extra : Int]
  /\ \A packet \in DTSPackets : packet.extra < 0 => packet.frames = <<>>
  /\ LPCMHeaders \subseteq [audioPacketSize : Nat, numChannels : Nat \ {0}, bitDepth : {16, 20, 24}]
  /\ PESSizes \subseteq Int /\ AC3Frames \subseteq Nat /\ Samples \subseteq Nat

VARIABLES
  DebugOn,  (* Is the handler's log switched on?                            *)
  LogFile,  (* Its pointer: NULL, or to a log that is there or deleted.     *)
  fault,    (* "none", or the first undefined step that was taken.          *)
  kind,     (* The handler; "none": not created yet, "gone": destroyed.     *)
  PES,      (* The packet it works through: its frames, those at the        *)
            (* pointer, the count of bytes left (of frames, for AC-3; one   *)
            (* that passed zero is negative), the bytes that there are from *)
            (* the pointer to the end, and its size.  At most MaxPES come.  *)
  wav,      (* Its WAVFile.                                                 *)
  dumps,    (* The files of a dump, each the sizes of what was put in.      *)
  meant,    (* What was meant to be written, a history: the spacing, the    *)
            (* length announced, the kind and the payload of bursts, or the *)
            (* program's samples.                                           *)
  reader,   (* The program's reader of that file, and what it returned.     *)
  returned

logVars == <<DebugOn, LogFile, fault>>
outputVars == <<logVars, kind, PES, wav, dumps, meant, reader, returned>>

(* No fault yet; nothing happens after the first. *)
Sound == fault = "none"

Idle == PES.left = 0

NoPES == [of |-> <<>>, at |-> <<>>, left |-> 0, rest |-> 0, size |-> 0, taken |-> 0]

WAVKinds == {"lpcm", "dts", "ac3", "eac3", "samples"}
RawLogKinds == {"lpcm", "dts", "es", "esfiles", "pes", "pesfiles"}

-----------------------------------------------------------------------------
(* The debug log: SetDebugOutput switches it on and off.  Five handlers hold *)
(* it by a raw pointer and share the code, mistake for mistake;              *)
(* AC3PacketHandler holds it by a shared pointer.                            *)
NULL    == "NULL"
live    == "live"
deleted == "deleted"

ConstructLog(On) ==
  /\ DebugOn = On
  /\ LogFile = IF On THEN live ELSE NULL
  /\ fault = "none"

(* delete, of what is deleted already, is undefined. *)
DeleteFault == IF LogFile = deleted THEN "double delete" ELSE fault

(* Slip: the log is not made anew. *)
SetDebugOutputOnly(On) ==
  /\ DebugOn # On /\ DebugOn' = On
  /\ fault' = DeleteFault
  /\ LogFile' = IF LogFile = NULL THEN NULL ELSE deleted

(* The pointer is left as it is when the log is switched off: the next       *)
(* switch, and the destructor, delete it a second time.                      *)
SetDebugOutput(On) ==
  /\ DebugOn # On /\ DebugOn' = On
  /\ fault' = DeleteFault
  /\ LogFile' = IF On THEN live ELSE IF LogFile = NULL THEN NULL ELSE deleted

SetDebugOutputShared(On) ==
  /\ DebugOn # On /\ DebugOn' = On
  /\ LogFile' = IF On THEN live ELSE NULL
  /\ UNCHANGED fault

(* AddMessage is virtual: a call needs a log. *)
MessageFault ==
  CASE LogFile = NULL -> "null log" [] LogFile = deleted -> "deleted log" [] OTHER -> fault

-----------------------------------------------------------------------------
(* Construction: every handler writes 16 bits and two channels at 48 kHz.    *)
(* EAC3PacketHandler constructs AC3PacketHandler without passThru, so it has *)
(* no WAV file.                                                              *)
NoWAV == [NewWAVFile(wav_params(16, 2, 48000)) EXCEPT !.file.open = FALSE]

NoReader == [ReadSimpleChunk(NoWAV) EXCEPT !.InputReady = FALSE]

OutputInit ==
  /\ kind \in Kinds
  /\ PES = NoPES
  /\ \E On \in BOOLEAN : ConstructLog(On /\ kind # "samples")
  /\ \E depth \in IF kind = "samples" THEN {16, 20, 24} ELSE {16} :
       wav = IF kind \in WAVKinds \ {"eac3"} THEN NewWAVFile(wav_params(depth, 2, 48000)) ELSE NoWAV
  /\ dumps = IF kind \in {"es", "pes"} THEN << <<>> >> ELSE <<>>
  /\ meant = <<>>
  /\ reader = NoReader /\ returned = <<>>

CanTake == Sound /\ Idle /\ PES.taken < MaxPES

-----------------------------------------------------------------------------
(* LPCM *)

(* PESDecode begins with a message, log or no log; of a packet of negative   *)
(* length the header is read behind its end.                                 *)
LPCMDecode ==
  /\ kind = "lpcm" /\ CanTake
  /\ \E size \in PESSizes :
       /\ fault' = IF MessageFault = "none" /\ size < 0 THEN "overrun" ELSE MessageFault
       /\ PES' = [PES EXCEPT !.size = size, !.left = IF MessageFault = "none" THEN size ELSE 0, !.taken = @ + 1]
  /\ UNCHANGED <<DebugOn, LogFile, kind, wav, dumps, meant, reader, returned>>

(* The rounding up of a sample's bytes binds to the 7 / 8 alone, which is    *)
(* zero: a sample counts for as many bytes as it has bits, and four.         *)
NumStereoPairsStuffed(header) ==
  header.audioPacketSize \div (header.numChannels * (header.bitDepth + 4 + 7 \div 8))

(* Only 20 bits are implemented; other depths leave a message per sample.    *)
(* The sample is shifted to the top of a word of 32, whose low 16 bits, all  *)
(* zero, go to the file.                                                     *)
LPCMSamples(header) == 2 * NumStereoPairsStuffed(header)
LPCMBytes(header) == 4 + IF header.bitDepth = 20 THEN 3 * LPCMSamples(header) ELSE 0

DecodeLPCMFrame ==
  /\ kind = "lpcm" /\ Sound /\ ~Idle
  /\ \E header \in LPCMHeaders :
       LET samples == LPCMSamples(header)
           bytes   == LPCMBytes(header)
       IN  /\ PES' = [PES EXCEPT !.left = IF bytes > @ THEN @ ELSE @ - bytes]
           /\ fault' = CASE bytes > PES.left -> "overrun"
                         [] bytes <= PES.left /\ samples > 0 /\ header.bitDepth # 20 -> MessageFault
                         [] OTHER -> fault
           /\ wav' = IF header.bitDepth = 20 /\ bytes <= PES.left
                     THEN WriteSamples(wav, [i \in 1 .. samples |-> 0]) ELSE wav
  /\ UNCHANGED <<DebugOn, LogFile, kind, dumps, meant, reader, returned>>

-----------------------------------------------------------------------------
(* Bursts *)

(* The words of a burst: header, payload and padding. *)
Burst(header, payload, words) ==
  header \o payload \o [i \in 1 .. words - Len(header) - Len(payload) |-> 0]

Payload(words) == [i \in 1 .. words |-> 1]

(* DTS: a frame is [pairs, size, present, beyond]: the sample pairs that it  *)
(* stands for, its bytes (FSIZE + 1), those of them that are in this packet, *)
(* and how many behind it are read for a sync word of auxiliary data that it *)
(* ends in.  A frame that is cut is the packet's last.                       *)
BytesPresent(frames) == [i \in DOMAIN frames |-> frames[i].present]

DTSDecode ==
  /\ kind = "dts" /\ CanTake
  /\ \E packet \in DTSPackets :
       LET size == Sum(BytesPresent(packet.frames)) + packet.extra
       IN  PES' = [of |-> packet.frames, at |-> packet.frames, left |-> size, rest |-> size, size |-> size,
                   taken |-> PES.taken + 1]
  /\ UNCHANGED <<logVars, kind, wav, dumps, meant, reader, returned>>

DataType(pairs) ==
  IF \E i \in DOMAIN DTSTypes : DTSTypes[i] = pairs
  THEN 10 + CHOOSE i \in DOMAIN DTSTypes : DTSTypes[i] = pairs ELSE 14

Odd(n) == n % 2 = 1
Least(a, b) == IF a < b THEN a ELSE b

(* The words copied: all of the frame, or of what the count says is left of  *)
(* it, rounded up; never more than the burst has room for.                   *)
Copied(f, left) ==
  Least(IF left >= 0 /\ f.size > left THEN (left + 1) \div 2 ELSE f.size \div 2, 2 * f.pairs - 4)

(* The last byte of an odd frame makes a word of its own, if there is room.  *)
HasOddWord(f, left) == Odd(f.size) /\ 4 + Copied(f, left) < 2 * f.pairs

(* Slip: two words of padding always. *)
IsLongAlways(f, left) == TRUE

(* One word of padding is always written, and the odd word is not counted:   *)
(* so a burst that is full, or whose frame is odd, is one word too long.     *)
IsLong(f, left) ==
  HasOddWord(f, left) \/ 4 + Copied(f, left) = 2 * f.pairs

(* A frame that is all there, of whole words, and has room in its burst; and *)
(* leaves room behind it.                                                    *)
IsPlain(f) ==
  f.present = f.size /\ ~Odd(f.size) /\ f.size \div 2 <= 2 * f.pairs - 4
IsClean(f) == IsPlain(f) /\ f.size \div 2 < 2 * f.pairs - 4

(* DTSMetadata reads a header, and SearchForAuxData goes back through the    *)
(* frame from its last byte, wherever FSIZE says that is.                    *)
ReadsPast(f) == PES.rest < DTSHeaderBytes \/ f.size + f.beyond > PES.rest

(* Behind the frames anything is taken for FSIZE. *)
DTSMetadataOverrun ==
  /\ kind = "dts" /\ Sound /\ ~Idle
  /\ PES.at # <<>> => ReadsPast(Head(PES.at))
  /\ fault' = "overrun"
  /\ UNCHANGED <<DebugOn, LogFile, kind, PES, wav, dumps, meant, reader, returned>>

(* The pointer moves by one for the odd word, the count by two. *)
DecodeDTSFrame ==
  /\ kind = "dts" /\ Sound /\ PES.at # <<>> /\ ~Idle
  /\ ~ReadsPast(Head(PES.at))
  /\ LET f     == Head(PES.at)
         words == Copied(f, PES.left)
         odd   == IF HasOddWord(f, PES.left) THEN 1 ELSE 0
         long  == IF IsLong(f, PES.left) THEN 1 ELSE 0
         whole == 2 * words + odd = f.present
     IN  /\ wav' = WriteSamples(wav,
                     Burst(AES_Header(16, DataType(f.pairs), 2 * f.pairs),
                           Payload(words + odd), 2 * f.pairs + long))
         /\ meant' = Append(meant, [words |-> 2 * f.pairs, length |-> 2 * f.pairs,
                                    dataType |-> DataType(f.pairs), payload |-> words + odd, exact |-> IsClean(f)])
         /\ PES' = [PES EXCEPT !.at = IF whole THEN Tail(@) ELSE <<>>,
                               !.left = @ - 2 * (words + odd), !.rest = @ - (2 * words + odd)]
  /\ UNCHANGED <<logVars, kind, dumps, reader, returned>>

(* At anything but a sync word the packet is given up. *)
NoDTSSync ==
  /\ kind = "dts" /\ Sound /\ PES.at = <<>> /\ ~Idle
  /\ PES.rest >= DTSHeaderBytes
  /\ PES' = [PES EXCEPT !.left = 0]
  /\ UNCHANGED <<logVars, kind, wav, dumps, meant, reader, returned>>

(* AC-3, passed through: each frame the decoder returns makes a burst of two *)
(* words per sample.  Which frames a packet completes is the decoder's       *)
(* affair (module AC3Decoder); a frame has at least one word.                *)
NumSubFrames == 2 * DECODED_FRAME_SIZE

AC3PESDecode ==
  /\ kind = "ac3" /\ CanTake
  /\ \E frames \in UNION {[1 .. n -> AC3Frames] : n \in 0 .. 2} :
       PES' = [PES EXCEPT !.at = frames, !.left = Len(frames), !.taken = @ + 1]
  /\ UNCHANGED <<logVars, kind, wav, dumps, meant, reader, returned>>

WriteAC3Frame ==
  /\ kind = "ac3" /\ Sound /\ ~Idle
  /\ LET words  == Head(PES.at)
         copied == Least(words, NumSubFrames - 4)
     IN  /\ wav' = WriteSamples16(wav, Burst(AES_Header(16, 1, words), Payload(copied), NumSubFrames))
         /\ meant' = Append(meant, [words |-> NumSubFrames, length |-> words, dataType |-> 1,
                                    payload |-> copied, exact |-> TRUE])
  /\ PES' = [PES EXCEPT !.at = Tail(@), !.left = @ - 1]
  /\ UNCHANGED <<logVars, kind, dumps, reader, returned>>

(* A negative length is no range of bytes to copy into the decoder's buffer. *)
NoAC3Range ==
  /\ kind \in {"ac3", "eac3"} /\ CanTake
  /\ \E size \in PESSizes : size < 0 /\ PES' = [PES EXCEPT !.size = size, !.taken = @ + 1]
  /\ fault' = "bad range"
  /\ UNCHANGED <<DebugOn, LogFile, kind, wav, dumps, meant, reader, returned>>

(* E-AC-3 writes the same bursts to a WAVFile that it does not have. *)
EAC3PESDecode ==
  /\ kind = "eac3" /\ CanTake
  /\ \E units \in 0 .. 1 : fault' = IF units > 0 THEN "null file" ELSE fault
  /\ PES' = [PES EXCEPT !.taken = @ + 1]
  /\ UNCHANGED <<DebugOn, LogFile, kind, wav, dumps, meant, reader, returned>>

-----------------------------------------------------------------------------
(* Dumps: to the stream of the constructor, or to a file per packet.  The    *)
(* file name constructor of the ES dump forgets to ask for files, and has no *)
(* stream.  The PES dump writes the whole packet, whatever its header says.  *)
DumpFault(size) ==
  IF MessageFault # "none" THEN MessageFault
  ELSE IF kind = "esfiles" /\ size # 0 THEN "null file"
  ELSE IF kind = "es" /\ size < 0 THEN "overrun" ELSE "none"

DumpPESDecode ==
  /\ kind \in {"es", "esfiles", "pes", "pesfiles"} /\ CanTake
  /\ \E size \in PESSizes :
       /\ kind \in {"pes", "pesfiles"} => size >= 0
       /\ fault' = DumpFault(size)
       /\ dumps' = IF DumpFault(size) # "none" \/ kind = "esfiles" THEN dumps
                   ELSE IF kind = "pesfiles" THEN Append(dumps, <<size>>)
                   ELSE <<Append(dumps[1], size)>>
       /\ PES' = [PES EXCEPT !.size = size, !.taken = @ + 1]
  /\ UNCHANGED <<DebugOn, LogFile, kind, wav, meant, reader, returned>>

-----------------------------------------------------------------------------
(* The log, destruction, and the program's own writing and reading *)

SwitchDebug ==
  /\ Sound /\ Idle
  /\ \E On \in BOOLEAN :
       \/ kind \in RawLogKinds /\ SetDebugOutput(On)
       \/ kind = "ac3" /\ SetDebugOutputShared(On)
  /\ UNCHANGED <<kind, PES, wav, dumps, meant, reader, returned>>

(* Dumps delete their log, and a FILE that no constructor sets; the others   *)
(* leave the log, and close the WAV file: AC3PacketHandler twice.            *)
DestroyDump ==
  /\ kind \in {"es", "esfiles", "pes", "pesfiles"} /\ Sound
  /\ fault' \in {DeleteFault, "uninitialised"}
  /\ LogFile' = IF LogFile = NULL THEN NULL ELSE deleted
  /\ kind' = "gone"
  /\ UNCHANGED <<DebugOn, PES, wav, dumps, meant, reader, returned>>

DestroyWriter ==
  /\ kind \in WAVKinds /\ Sound /\ Idle
  /\ wav' = IF kind = "ac3" THEN Close(Close(wav)) ELSE Close(wav)
  /\ kind' = "gone"
  /\ UNCHANGED <<logVars, PES, dumps, meant, reader, returned>>

WriteOwnSample ==
  /\ kind = "samples" /\ PES.taken < MaxPES
  /\ \E sample \in Samples : wav' = WriteSample(wav, sample) /\ meant' = Append(meant, [sample |-> sample])
  /\ PES' = [PES EXCEPT !.taken = @ + 1]
  /\ UNCHANGED <<logVars, kind, dumps, reader, returned>>

(* Another program's file may have another kind of header; the file may be   *)
(* read before it is closed, and its header be still in the stream's buffer  *)
(* (no chunk, 0): then nothing is ready, and no way to read is set.          *)
OpenReader ==
  /\ kind \in {"samples", "gone"} /\ reader = NoReader /\ Sound
  /\ \E chunk \in {16, 18, 40} \cup IF wav.file.open THEN {0} ELSE {} :
       reader' = ReadWAVChunk([wav EXCEPT !.format.chunk = chunk])
  /\ UNCHANGED <<logVars, kind, PES, wav, dumps, meant, returned>>

ReadOwnSample ==
  /\ kind \in {"samples", "gone"} /\ reader # NoReader /\ Sound
  /\ ReadIsSet(reader) => reader.InputReady
  /\ reader' = IF ReadIsSet(reader) THEN ReadSample(reader) ELSE reader
  /\ returned' = IF ReadIsSet(reader) /\ CanRead(reader)
                 THEN Append(returned, SampleRead(reader)) ELSE returned
  /\ fault' = IF ReadIsSet(reader) THEN fault ELSE "no way to read"
  /\ UNCHANGED <<DebugOn, LogFile, kind, PES, wav, dumps, meant>>

OutputNext ==
  \/ LPCMDecode \/ DecodeLPCMFrame \/ DTSDecode \/ DecodeDTSFrame \/ DTSMetadataOverrun \/ NoDTSSync
  \/ AC3PESDecode \/ WriteAC3Frame \/ EAC3PESDecode \/ NoAC3Range \/ DumpPESDecode
  \/ SwitchDebug \/ DestroyDump \/ DestroyWriter
  \/ WriteOwnSample \/ OpenReader \/ ReadOwnSample

-----------------------------------------------------------------------------
WordAt(n) == Word(SubSeq(wav.file.data, 2 * n - 1, 2 * n))

(* Where the spacing of the bursts before it puts burst k + 1. *)
Spaced(k) == PartialSums([i \in DOMAIN meant |-> meant[i].words])[k]

(* The samples are the program's own. *)
IsOwn == meant # <<>> /\ "sample" \in DOMAIN meant[1]

(* As long as every frame before it was clean, a burst begins where the      *)
(* spacing of those before it puts it: four words that announce it, then its *)
(* payload, then silence.  And a DTS packet of clean frames is written       *)
(* frame by frame, none of them lost.                                        *)
BurstsKeepTheirPlace ==
  ~IsOwn =>
    /\ \A k \in DOMAIN meant :
         (\A i \in 1 .. k : meant[i].exact) =>
           LET start == Spaced(k - 1)
               header == AES_Header(16, meant[k].dataType, meant[k].length)
           IN  /\ 2 * (start + meant[k].words) <= Len(wav.file.data)
               /\ \A n \in 1 .. 4 : WordAt(start + n) = header[n] % 65536
               /\ \A n \in 5 .. meant[k].words :
                    (WordAt(start + n) = 1) <=> (n <= 4 + meant[k].payload)
    /\ Idle /\ PES.of # <<>> /\ (\A i \in DOMAIN PES.of : IsClean(PES.of[i])) =>
         /\ Len(meant) >= Len(PES.of)
         /\ \A i \in DOMAIN PES.of :
              LET burst == meant[Len(meant) - Len(PES.of) + i]
              IN  burst.words = 2 * PES.of[i].pairs /\ 2 * burst.payload = PES.of[i].size

(* A packet of DTS with nothing behind its frames, each of them plain, no    *)
(* shorter than a header and without an end that looks like a sync word of   *)
(* auxiliary data.                                                           *)
IsRegular(f) == IsPlain(f) /\ f.size >= DTSHeaderBytes /\ f.beyond = 0
RegularDTS ==
  PES.size = Sum(BytesPresent(PES.of)) /\ \A i \in DOMAIN PES.of : IsRegular(PES.of[i])

(* What goes wrong, goes wrong for a reason: a handler reads behind a packet *)
(* only when its length is negative, a header of LPCM asks for more than is  *)
(* left, or a packet of DTS is not regular; a packet that is no range has a  *)
(* negative length; a log is missing only when it is switched off; and the   *)
(* handler that holds its log by a shared pointer does nothing else wrong.   *)
FaultsHaveCauses ==
  /\ fault = "overrun" =>
       \/ PES.size < 0
       \/ kind = "lpcm" /\ \E header \in LPCMHeaders : LPCMBytes(header) > PES.left
       \/ kind = "dts" /\ ~RegularDTS
  /\ fault = "bad range" => PES.size < 0 /\ kind \in {"ac3", "eac3"}
  /\ fault \in {"null log", "deleted log"} => ~DebugOn
  /\ fault = "double delete" => kind \in RawLogKinds \cup {"gone"}
  /\ fault = "null file" => kind \in {"eac3", "esfiles"}
  /\ kind \in {"ac3", "samples"} => fault \in {"none", "no way to read", "bad range"}

(* A program that reads the file back gets as many samples as it wrote, and  *)
(* the exception behind the last of them; of a file whose header is there    *)
(* but was not closed, none.  Samples of 16 bits are its own, left           *)
(* justified.  (Those of 20 and 24 bits are not left justified, as WAVFile.h *)
(* says that they are, and their bytes come back reversed: nothing is        *)
(* claimed of them but their number.)  The sizes in the header are those of  *)
(* what was written.                                                         *)
ReadsBack ==
  /\ ~wav.file.open /\ wav # NoWAV =>
       /\ wav.file.dataSize = Len(wav.file.data)
       /\ wav.file.fileSize = Len(wav.file.data) + 36
  /\ reader # NoReader /\ IsOwn =>
       LET expected == IF reader.file.open \/ reader.num_samples = 0 THEN 0 ELSE Len(meant)
       IN  /\ reader.thrown => Len(returned) = expected
           /\ Len(returned) <= expected
           /\ reader.bit_depth = 16 =>
                \A i \in DOMAIN returned : returned[i] = 65536 * Signed16(meant[i].sample % 65536)
=============================================================================
