---------------------------- MODULE Calculations ----------------------------
(***************************************************************************)
(* Calls of the library's calculations.  A program picks operands (job)    *)
(* and calls the function that they are for; outcome is what it returns.   *)
(* The invariants compare it with what it should be.                       *)
(***************************************************************************)
EXTENDS BitOperations, AudioHeaders, TransportPacketFields, CIpAddress, FiniteSetsExt, Sums

CONSTANTS
  HalfWords, Words,    (* Factors: of half a word, of a word.               *)
  DoubleWords,         (* Factors of a double word.                         *)
  Messages,            (* Messages that are checked: sequences of bytes.    *)
  Depths,              (* Bits of a sample.                                 *)
  AC3Flags,            (* Sets of flags that are set in a header.           *)
  DTSFrames,           (* Headers of DTS: its bits, and where auxiliary     *)
                       (* data is.                                          *)
  PacketHeaders, PIDs, (* Headers of transport packets, PIDs to set.        *)
  PESLengths,          (* Lengths of PES packets,                           *)
  HeaderLengths,       (* of what their headers have behind the ninth byte, *)
  Stamps,              (* and time stamps: the bits of them that are one.   *)
  Files,               (* Files of transport packets.                       *)
  Rates, MaxFrames,    (* Frames of video: how fast, and at most how many.  *)
  Times,               (* Milliseconds.                                     *)
  Texts,               (* Texts of addresses.                               *)
  CommandLines,        (* Arguments of a program,                           *)
  Keys, Positions      (* the options it asks for, and where.               *)

ASSUME OperandsAssumption ==
  /\ HalfWords \cup Words \cup DoubleWords \subseteq Int
  /\ Depths \subseteq 1 .. BITS
  /\ \A header \in PacketHeaders : {header.afLength, header.PID} \subseteq Nat
  /\ PIDs \subseteq 0 .. NULLPID
  /\ PESLengths \subseteq Nat /\ HeaderLengths \subseteq Nat
  /\ Stamps \subseteq SUBSET (0 .. 32)
  /\ MaxFrames \in Nat /\ Times \subseteq Nat
  /\ CommandLines \subseteq Seq([text : STRING, number : Int]) \ {<<>>}
  /\ Positions \subseteq Nat \ {0}

(* A file has a sync byte at the start of each packet, only; there may be    *)
(* something in front of the first packet and behind the last.               *)
ASSUME FilesAssumption ==
  \A file \in Files :
    /\ file.packet \in {Ts188Byte, Ts204Byte} /\ file.packets \in Nat \ {0} /\ file.size \in Nat
    /\ \E start \in 0 .. file.size :
         /\ file.syncs = {start + file.packet * i + 1 : i \in 0 .. file.packets - 1}
         /\ start + file.packet * file.packets <= file.size

-----------------------------------------------------------------------------
(* wav.cpp: a program that writes a silent stereo file of 24 bits, so many   *)
(* samples for each frame of video; and the times of StreamTime.             *)

(* Sample pairs of frame FRAME_NUM of video.  At 29.97 and 59.94 frames per  *)
(* second the numbers take turns, to 8008 in five or ten frames.             *)
GetNumAESFrames(frame_rate, FRAME_NUM) ==
  CASE frame_rate = 29 -> IF FRAME_NUM % 5 \in {1, 3} THEN 1601 ELSE 1602
    [] frame_rate = 59 -> IF FRAME_NUM % 10 \in {3, 7} THEN 800 ELSE 801
    [] frame_rate = 50 -> 960
    [] frame_rate = 24 -> 2000
    [] frame_rate = 23 -> 2002
    [] OTHER           -> 1920

(* What falling through the cases of a switch adds up to. *)
Remainder(frame_rate, frames) ==
  IF frame_rate = 29 THEN <<0, 1602, 3203, 4805, 6406>>[frames + 1]
  ELSE <<0, 801, 1602, 2403, 3203, 4004, 4805, 5606, 6406, 7207>>[frames + 1]

(* The sample pairs of the whole file, for its header: none at a rate that   *)
(* is not listed.                                                            *)
AESFrames(frame_rate, NumberOfFrames) ==
  CASE frame_rate = 29 -> (NumberOfFrames \div 5) * 8008 + Remainder(29, NumberOfFrames % 5)
    [] frame_rate = 59 -> (NumberOfFrames \div 10) * 8008 + Remainder(59, NumberOfFrames % 10)
    [] frame_rate = 25 -> NumberOfFrames * 1920
    [] frame_rate = 50 -> NumberOfFrames * 960
    [] frame_rate = 23 -> NumberOfFrames * 2002
    [] frame_rate = 24 -> NumberOfFrames * 2000
    [] OTHER           -> 0

(* Bytes: the size that the header gives the file, the chunk of the format   *)
(* with the marker before it, and the data.                                  *)
fileSize(frame_rate, frames) == 4 + 24 + 8 + 3 * 2 * AESFrames(frame_rate, frames)
SimpleChunkBytes == 4 + 4 + 4 + 2 + 2 + 4 + 4 + 2 + 2

dataWritten(frame_rate, NumFrames) ==
  Sum([n \in 1 .. NumFrames |-> 6 * GetNumAESFrames(frame_rate, n - 1)])

time_33_in_ms(time) == time \div 90
time_32_in_ms(time) == time \div 45

milliseconds_to_hms_ms(time) ==
  LET h == time \div 3600000
      m == (time - h * 3600000) \div 60000
      s == (time - h * 3600000 - m * 60000) \div 1000
  IN  [h |-> h, m |-> m, s |-> s, ms |-> time - h * 3600000 - m * 60000 - s * 1000]

-----------------------------------------------------------------------------
(* The command line of a program: the value of an option is the argument     *)
(* after it.  An argument is its text and the number that atoi makes of it.  *)
(* Arguments are counted from 1 here, the program's name included.           *)
Given(args, key) == {i \in DOMAIN args : args[i].text = key}

Exists(args, key) == Given(args, key) # {}

(* Where the key has a value: not at the end. *)
WithValue(args, key) == {i \in Given(args, key) : i < Len(args)}

NotFound(text, number) == [found |-> FALSE, text |-> text, number |-> number]

Value(arg) == [found |-> TRUE, text |-> arg.text, number |-> arg.number]

(* By the key, and by the position: what stands for no number differs. *)
GetValue(args, key) ==
  IF WithValue(args, key) = {} THEN NotFound("", 0)
  ELSE Value(args[Min(WithValue(args, key)) + 1])

GetValueAt(args, argnum) ==
  IF argnum > Len(args) THEN NotFound("", -1) ELSE Value(args[argnum])

-----------------------------------------------------------------------------
(* The calls *)

VARIABLES
  job,       (* The operands, and what they are for.                        *)
  outcome    (* NotCalled, and then what was returned.                      *)

calculationVars == <<job, outcome>>

ProductJobs ==
  [for : {"multiply"}, a : HalfWords, b : Words, rs : 0 .. HALF]
    \cup [for : {"multiply32"}, a : Words, b : Words]
    \cup [for : {"BigInt"}, a : DoubleWords, b : DoubleWords]

BitJobs ==
  [for : {"reverse"}, n : 0 .. 2^BITS - 1, width : 1 .. BITS] \cup [for : {"crc"}, data : Messages]

SampleJobs ==
  [for : {"sample"}, val : -(2^(BITS - 1)) .. 2^(BITS - 1) - 1, depth : Depths, point : Depths]

HeaderJobs ==
  [for : {"ac3"}, acmod : 0 .. 7, flags : AC3Flags]
    \cup [for : {"eac3"}, strmtyp : 0 .. 3, frmsiz : {1, 1023, 1024, 2047}, fscod : 0 .. 3, nblkscod : 0 .. 3]
    \cup [for : {"dts"}, frame : DTSFrames]

PacketJobs ==
  [for : {"packet"}, header : PacketHeaders, size : {Ts188Byte, Ts204Byte}, PID : PIDs]
    \cup [for : {"PES"}, length : PESLengths, headerLength : HeaderLengths, stream_id : {189, 192},
          flags : {{}, {7}}, PTS : Stamps]
    \cup [for : {"sync"}, file : Files]
    \cup [for : {"address"}, first : Texts, second : Texts]

SizeJobs == [for : {"wave"}, rate : Rates, frames : 0 .. MaxFrames] \cup [for : {"time"}, ms : Times]

OptionJobs == [for : {"options"}, args : CommandLines, key : Keys, argnum : Positions]

Jobs ==
  ProductJobs \cup BitJobs \cup SampleJobs \cup HeaderJobs \cup PacketJobs \cup SizeJobs \cup OptionJobs

NotCalled == [called |-> FALSE]

CalculationsInit == job \in Jobs /\ outcome = NotCalled

Call(for, result) ==
  /\ job.for = for /\ outcome = NotCalled
  /\ outcome' = result
  /\ UNCHANGED job

-----------------------------------------------------------------------------
(* Arithmetic *)

Multiply ==
  Call("multiply", [shifted |-> multiply_16by32to32withlsr(job.a, job.b, job.rs),
                    whole   |-> multiply16by32(job.a, job.b)])

Multiply32 == Call("multiply32", [whole |-> multiply32by32(job.a, job.b)])

MultiplyBigInt ==
  Call("BigInt", [value |-> BigIntValue(right_shift(multiplyBigInt(job.a, job.b), 1))])

ReverseBits ==
  Call("reverse", [word     |-> BitReverse32(job.n), part |-> BitReverseX(job.n, job.width),
                   extended |-> SignExtendToInt(job.n % 2^job.width, job.width)])

(* The check, and the check of the message with its check behind it, low     *)
(* byte first.                                                               *)
CheckBytes(crc) == [i \in 1 .. Len(CRC_POLY) \div BYTE |-> (crc \div 2^(BYTE * (i - 1))) % 2^BYTE]

CheckMessage ==
  Call("crc", [crc |-> calc_16_CRC(job.data),
               again |-> calc_16_CRC(job.data \o CheckBytes(calc_16_CRC(job.data)))])

(* A sample is put into a buffer of that depth, and taken from it and from a *)
(* copy; then the buffer's point is moved, and moved back.                   *)
KeepSample ==
  LET b == put(add(setBitDepth(SampleBuffer, job.depth), 0, job.depth), 0, job.val, job.depth)
  IN  Call("sample", [got |-> get(b, 0), copied |-> get(Copy(b), 0),
                      assigned |-> get(Assign(setBitDepth(SampleBuffer, job.depth), b), 0),
                      moved |-> adjustFixedPoint(adjustFixedPoint(b, job.point), BITS).vect[1]])

-----------------------------------------------------------------------------
(* Headers *)

(* The fields that are in a header, by the standard, and their values.       *)
InHeader(name, acmod, flags) ==
  CASE name = "cmixlev"   -> acmod \in {3, 5, 7}
    [] name = "surmixlev" -> acmod \in 4 .. 7
    [] name = "dsurmod"   -> acmod = 2
    [] name \in {"dialnorm2", "compr2e", "langcod2e", "audprodi2e"} -> acmod = 0
    [] name \in {"compr2", "langcod2", "mixlevel2", "roomtyp2"} ->
         acmod = 0 /\ [compr2 |-> "compr2e", langcod2 |-> "langcod2e", mixlevel2 |-> "audprodi2e",
                       roomtyp2 |-> "audprodi2e"][name] \in flags
    [] name = "compr"     -> "compre" \in flags
    [] name = "langcod"   -> "langcode" \in flags
    [] name \in {"mixlevel", "roomtyp"} -> "audprodie" \in flags
    [] name \in {"dmixmod", "ltrtcmixlev", "ltrtsurmixlev", "lorocmixlev", "lorosurmixlev"} -> "xbsi1e" \in flags
    [] name \in {"dsurexmod", "dheadphonmod", "adconvtyp", "xbsi2", "encinfo"} -> "xbsi2e" \in flags
    [] name = "addbsil"   -> "addbsie" \in flags
    [] OTHER -> TRUE

FlagNames ==
  {"compre", "langcode", "audprodie", "compr2e", "langcod2e", "audprodi2e", "xbsi1e", "xbsi2e", "addbsie"}

(* Values that differ from field to field; two bytes of additional data.     *)
ValueOf(i, acmod, flags) ==
  LET name == AC3Layout[i][1]
  IN  CASE name = "acmod"     -> acmod
        [] name \in FlagNames -> IF name \in flags THEN 1 ELSE 0
        [] name = "addbsil"   -> 1
        [] OTHER              -> (5 * i + 3) % 2^AC3Layout[i][2]

BitsOf(n, w) == Reverse(Bits(n, w))

HeaderBits(acmod, flags) ==
  FlattenSeq([i \in DOMAIN AC3Layout |->
     IF InHeader(AC3Layout[i][1], acmod, flags) THEN BitsOf(ValueOf(i, acmod, flags), AC3Layout[i][2]) ELSE <<>>])
  \o IF "addbsie" \in flags THEN [i \in 1 .. 16 |-> 1] ELSE <<>>

Padding == [i \in 1 .. 64 |-> 0]

ReadAC3 ==
  LET bits == HeaderBits(job.acmod, job.flags)
      s    == InterpretFrame(bits \o Padding, 50)
  IN  Call("ac3", [bits |-> Len(bits), fields |-> s.fields, consumed |-> GetNumBytesConsumed(s.reader),
                   printed |-> write(s.fields)])

ReadEAC3 ==
  LET bits == BitsOf(job.strmtyp, 2) \o BitsOf(2, 3) \o BitsOf(job.frmsiz, 11)
                \o BitsOf(job.fscod, 2) \o BitsOf(job.nblkscod, 2)
  IN  Call("eac3", [fields  |-> preProcessHeader(bits \o Padding, 50, 2048),
                    printed |-> writeEAC3 \cup write_csvEAC3])

(* A frame of DTS: the bits of its header, where its auxiliary data is, and  *)
(* the bits of that.                                                         *)
ReadDTS ==
  LET f  == DTSMetadata(job.frame.bits)
      at == AuxPtr(job.frame.marks, f["FSIZE"])
  IN  Call("dts", [fields |-> f, at |-> at,
                   aux |-> IF at = {} THEN {} ELSE
                           {SearchForAuxData(job.frame.aux, AuxLength(CHOOSE n \in at : TRUE, f["FSIZE"]),
                                             f["AMODE"], f["LFF"])}])

CCToSet == 5

SetFields ==
  LET p == SetPacket(job.header, job.size)
  IN  Call("packet", [p |-> p, withPID |-> SetPID(p, job.PID), withCC |-> SetCC(p, CCToSet),
                      null |-> MakeNULLPID(SetPUSI(p, 1)), long |-> ConvertTo204(ConvertTo188(p))])

(* A PES packet with that time stamp, as the standard lays it out, comes to  *)
(* a handler of private streams (189).                                       *)
StampBytes(PTS) ==
  << {0, 5} \cup Shifted(PTS \cap 30 .. 32, -29), Shifted(PTS \cap 22 .. 29, -22),
     {0} \cup Shifted(PTS \cap 15 .. 21, -14), Shifted(PTS \cap 7 .. 14, -7),
     {0} \cup Shifted(PTS \cap 0 .. 6, 1) >>

ReadPESHeader ==
  LET buf  == [startCode |-> TRUE, stream_id |-> job.stream_id, pes_packet_length |-> job.length,
               flags |-> job.flags, headerLength |-> job.headerLength, stamp |-> StampBytes(job.PTS)]
      size == GetPESPacketSize(buf)
  IN  Call("PES", [header |-> FindPESHeaderAndGetPTS(buf, 189), size |-> size,
                   data |-> GetPESData(buf, size), length |-> GetPESDataLength(buf, size)])

FindSize == Call("sync", [size |-> fgetTSsync(job.file)])

WriteWave ==
  Call("wave", [fileSize |-> fileSize(job.rate, job.frames), data |-> dataWritten(job.rate, job.frames),
                inHeader |-> 6 * AESFrames(job.rate, job.frames)])

TellTime == Call("time", milliseconds_to_hms_ms(job.ms))

(* An address set from one text, and then from another. *)
SetAddresses ==
  LET first == setAddress(ADDRESS_ANY, job.first)
  IN  Call("address", [first |-> first, second |-> setAddress(first.mAddress, job.second)])

ParseCommandLine ==
  Call("options", [value |-> GetValue(job.args, job.key), at |-> GetValueAt(job.args, job.argnum),
                        exists |-> Exists(job.args, job.key)])

CalculationsNext ==
  \/ Multiply \/ Multiply32 \/ MultiplyBigInt \/ ReverseBits \/ CheckMessage \/ KeepSample
  \/ ReadAC3 \/ ReadEAC3 \/ ReadDTS \/ SetFields \/ ReadPESHeader \/ FindSize \/ WriteWave \/ TellTime \/ SetAddresses
  \/ ParseCommandLine

-----------------------------------------------------------------------------
Called(for) == job.for = for /\ outcome # NotCalled

(* Products: the shifted one and that of a half word by a word are right in  *)
(* all the bits they have; that of two words in its lower word, and as a     *)
(* whole when the factors are small (others lose what is shifted out of a    *)
(* word); that of two double words in its lowest word, as a carry is counted *)
(* above it where there is none.  The comment y = a * b says more of both.   *)
ProductsAreRight ==
  /\ Called("multiply") =>
       /\ outcome.shifted = Signed((job.a * job.b) \div 2^job.rs, WORD)
       /\ outcome.whole = Signed(job.a * job.b, WORD)
  /\ Called("multiply32") =>
       /\ (outcome.whole - job.a * job.b) % 2^WORD = 0
       /\ {job.a, job.b} \subseteq 0 .. 2^(HALF - 1) - 1 => outcome.whole = job.a * job.b
  /\ Called("BigInt") => (outcome.value - job.a * job.b) % 2^WORD = 0

(* A sample comes back as it was put, in the bits of its depth; but from a   *)
(* copy of the buffer it comes back left justified.  Moving the point keeps  *)
(* the bits that it leaves room for.                                         *)
SamplesAreRight ==
  Called("sample") =>
    LET left == 2^(BITS - job.depth) * outcome.got
    IN  /\ outcome.got = Signed(job.val, job.depth) /\ outcome.assigned = outcome.got
        /\ outcome.copied = left
        /\ outcome.moved = (left \div 2^(BITS - job.point)) * 2^(BITS - job.point)

(* The header says as many bytes as are written, and so many more as it has  *)
(* itself; at a rate that is not listed it says none.  Hours to milliseconds *)
(* add up.                                                                   *)
SizesAndTimesAreRight ==
  /\ Called("wave") =>
       IF job.rate \in {23, 24, 25, 29, 50, 59}
       THEN outcome.inHeader = outcome.data /\ outcome.fileSize = outcome.data + SimpleChunkBytes + 8
       ELSE outcome.inHeader = 0 /\ outcome.data = 6 * 1920 * job.frames
  /\ Called("time") =>
       /\ outcome.m \in 0 .. 59 /\ outcome.s \in 0 .. 59 /\ outcome.ms \in 0 .. 999
       /\ 3600000 * outcome.h + 60000 * outcome.m + 1000 * outcome.s + outcome.ms = job.ms

(* The payload ends with the packet, but without adaptation field with the   *)
(* 188th byte.  A null packet has its own PID, and fits when there is only   *)
(* payload in 188 bytes.  (What SetPID and SetCC leave is not right, and not *)
(* claimed to be: they change other fields.)  A time stamp is read to its    *)
(* last bit.  What a decoder is given ends with the PES packet, unless that  *)
(* packet is too short for the header it claims; the length is less than     *)
(* zero then.  fgetTSsync tells the size of the packets of a file that has a *)
(* sync byte at the start of each only, from four packets on.  After a       *)
(* malformed text, which is accepted, or that of the broadcast address, no   *)
(* address is.                                                               *)
PacketsAreRight ==
  /\ Called("packet") =>
       /\ outcome.p.Payload # 0 =>
            outcome.p.Payload + outcome.p.payloadSize =
              IF job.header.adaptation = 3 THEN job.size ELSE Ts188Byte
       /\ outcome.null.PID = NULLPID /\ outcome.null.PUSI = 0
       /\ job.header.adaptation = 1 /\ job.size = Ts188Byte => ~FillsOutside(outcome.null)
       /\ outcome.long.packetSize = Ts204Byte
  /\ Called("PES") =>
       /\ outcome.header.found <=> job.stream_id = 189
       /\ outcome.header.PTS = IF outcome.header.found /\ 7 \in job.flags THEN job.PTS ELSE {}
       /\ outcome.data # 0 => outcome.data + outcome.length = job.length + 6
       /\ outcome.length < 0 <=> outcome.size > 10 /\ job.length < 3 + job.headerLength
  /\ Called("sync") => (outcome.size = job.file.packet) \/ job.file.packets < 4
  /\ Called("address") =>
       ~outcome.first.thrown /\ (outcome.second.thrown <=> job.first \in {Malformed, INADDR_NONE})

(* An option is found wherever its text is, among the values of others too;  *)
(* one given twice counts once, but an option that ends the line has no      *)
(* value, unless it was given before.                                        *)
OptionsAreFound ==
  Called("options") =>
    LET n    == Len(job.args)
        last == job.args[n]
    IN  /\ outcome.value.found => outcome.exists
        /\ outcome.exists /\ ~outcome.value.found =>
             last.text = job.key /\ \A i \in 1 .. n - 1 : job.args[i].text # job.key
        /\ \A i \in 1 .. n - 1 :
             job.args[i].text = job.key /\ (\A k \in 1 .. i - 1 : job.args[k].text # job.key) =>
               outcome.value.text = job.args[i + 1].text
        /\ ~outcome.at.found <=> job.argnum > n

(* What the library computes is right, as far as it is.                      *)
CalculationsAreRight ==
  /\ ProductsAreRight /\ SamplesAreRight
  /\ SizesAndTimesAreRight /\ PacketsAreRight /\ OptionsAreFound

(* A reversal exchanges first and last bit and all between; of fewer bits,   *)
(* it is followed by copies of the last.                                     *)
ReversalsAreRight ==
  Called("reverse") =>
    LET part == Number(Reverse(Bits(job.n, job.width)))
    IN  /\ outcome.word = Number(Reverse(Bits(job.n, BITS)))
        /\ outcome.part = part + IF job.n % 2 = 1 THEN 2^BITS - 2^job.width ELSE 0
        /\ (outcome.extended - job.n) % 2^job.width = 0
        /\ outcome.extended \in -(2^(job.width - 1)) .. 2^(job.width - 1) - 1

(* A message with its check behind it checks as zero, and no single wrong    *)
(* bit goes unseen.                                                          *)
ChecksAreRight ==
  Called("crc") =>
    /\ outcome.again = 0
    /\ \A i \in DOMAIN job.data, bit \in 0 .. BYTE - 1 :
         LET flipped == IF (job.data[i] \div 2^bit) % 2 = 0 THEN job.data[i] + 2^bit
                        ELSE job.data[i] - 2^bit
         IN  calc_16_CRC([job.data EXCEPT ![i] = flipped]) # outcome.crc

(* Every field of an AC-3 header is read from its place, whichever of the    *)
(* others are there, and none is made up; the report prints one that was not *)
(* read only for a single centre channel.  The blocks of an E-AC-3 frame are *)
(* read unless it is too long, and its report prints nothing else that was   *)
(* read but its size.  The fields of a DTS header are where the bytes are    *)
(* masked, and of its auxiliary data the last in the frame is read.          *)
HeadersAreRead ==
  /\ Called("ac3") =>
       LET present == {n \in Names(AC3Layout) : InHeader(n, job.acmod, job.flags)}
       IN  /\ \A i \in DOMAIN AC3Layout :
                outcome.fields[AC3Layout[i][1]] =
                  IF AC3Layout[i][1] \in present THEN ValueOf(i, job.acmod, job.flags) ELSE 0
           /\ outcome.consumed = (outcome.bits + 7) \div 8
           /\ outcome.printed \ present = IF job.acmod = 1 THEN {"cmixlev"} ELSE {}
           /\ present \ outcome.printed = IF job.acmod \in {5, 7} THEN {"surmixlev"} ELSE {}
           /\ write_csv \subseteq present
  /\ Called("eac3") =>
       /\ outcome.fields["nblkscod"] = CASE job.frmsiz > 1023 -> 0
                                         [] job.frmsiz <= 1023 /\ job.fscod = 3 -> 3
                                         [] OTHER -> job.nblkscod
       /\ outcome.fields["frmsiz"] = job.frmsiz
       /\ outcome.printed \cap Names(EAC3Layout) = {"frmsiz"}
  /\ Called("dts") =>
       LET byte(n) == BitsToNumber(SubSeq(job.frame.bits, 8 * n + 1, 8 * n + 8))
       IN  /\ outcome.fields["NBLKS"] = 64 * (byte(4) % 2) + byte(5) \div 4
           /\ outcome.fields["FSIZE"] = 4096 * (byte(5) % 4) + 16 * byte(6) + byte(7) \div 16
           /\ outcome.fields["AMODE"] = 4 * (byte(7) % 16) + byte(8) \div 64
           /\ outcome.fields["LFF"] = (byte(10) \div 2) % 4
           /\ outcome.fields["DIALNORM"] = byte(14) % 16
           /\ outcome.at = {} <=> job.frame.marks \cap 1 .. outcome.fields["FSIZE"] = {}
           /\ \A s \in outcome.aux :
                s.fields["AUXDynamCoeffFlag"] = 0 => GetNumBytesConsumed(s.reader) \in {3, 7}

(* What is done bit by bit is right: reversals, checks, and the fields of    *)
(* headers.                                                                  *)
BitsAreRight == ReversalsAreRight /\ ChecksAreRight /\ HeadersAreRead
=============================================================================
