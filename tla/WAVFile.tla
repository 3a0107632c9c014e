------------------------------ MODULE WAVFile ------------------------------
(***************************************************************************)
(* WAVFile writes and reads a RIFF file of samples.  A file is its header  *)
(* and its data, byte by byte; markers and the fields of fixed value are   *)
(* left out of the header.                                                 *)
(*                                                                         *)
(* A closed stream ignores what is written to it: so closing a file again, *)
(* which the handlers do, changes nothing.                                 *)
(***************************************************************************)
EXTENDS Integers, SequencesExt

(* The two or three bytes of a word, least significant first. *)
LittleEndian(word, n) == [i \in 1 .. n |-> (word \div <<1, 256, 65536>>[i]) % 256]

Word(bytes) == bytes[1] + 256 * bytes[2] + IF Len(bytes) = 3 THEN 65536 * bytes[3] ELSE 0

wav_params(depth, channels, rate) ==
  [bit_depth |-> depth, num_channels |-> channels, SamplesPerSec |-> rate]

(* Four words open a burst of compressed data: two of synchronisation, the   *)
(* kind of data, shifted to the top of the sample, and the length in bits.   *)
AES_Header(depth, data_type, num_samples) ==
  CASE depth = 24 -> <<\h96F872, \hA54E1F, 256 * (data_type + 32), 24 * num_samples>>
    [] depth = 20 -> <<\h6F872, \h54E1F, 16 * (data_type + 16), 20 * num_samples>>
    [] OTHER      -> <<\hF872, \h4E1F, data_type, depth * num_samples>>

-----------------------------------------------------------------------------
(* Writing *)

ByteShift(params) == IF params.bit_depth = 16 THEN 2 ELSE 3

WriteRIFFChunk == [open |-> TRUE, fileSize |-> 0, dataSize |-> 0, data |-> <<>>]

WriteSimpleWAVChunk(params) ==
  [chunk |-> 16, channels |-> params.num_channels, rate |-> params.SamplesPerSec,
   bytesPerSec |-> params.SamplesPerSec * ByteShift(params) * params.num_channels,
   blockAlign |-> ByteShift(params) * params.num_channels,
   bits |-> 8 * ByteShift(params)]

NewWAVFile(params) ==
  [file |-> WriteRIFFChunk, format |-> WriteSimpleWAVChunk(params),
   ByteShift |-> ByteShift(params), writtenCount |-> 0]

WriteBytes(f, word, n) ==
  [f EXCEPT !.file.data = IF f.file.open THEN @ \o LittleEndian(word, n) ELSE @,
            !.writtenCount = @ + n]

(* Slip: the most significant byte first. *)
WriteSampleBigEndian(f, sample) ==
  [f EXCEPT !.file.data = IF f.file.open THEN @ \o Reverse(LittleEndian(sample, f.ByteShift)) ELSE @,
            !.writtenCount = @ + f.ByteShift]

(* The low bytes of the sample: it is not shifted down. *)
WriteSample(f, sample) == WriteBytes(f, sample, f.ByteShift)

(* Word by word, in n bytes each. *)
WriteWords(f, words, n) ==
  LET g[i \in 0 .. Len(words)] == IF i = 0 THEN f ELSE WriteBytes(g[i - 1], words[i], n)
  IN  g[Len(words)]

WriteSamples(f, samples) == WriteWords(f, samples, f.ByteShift)
WriteSamples16(f, samples) == WriteWords(f, samples, 2)

(* The size of the file counts what comes after it: 36 bytes of header. *)
Close(f) ==
  [f EXCEPT !.file = IF f.file.open
                     THEN [f.file EXCEPT !.open = FALSE, !.dataSize = f.writtenCount,
                                         !.fileSize = f.writtenCount + 8 + 4 + 24]
                     ELSE f.file]

-----------------------------------------------------------------------------
(* Reading *)

(* The header of another program's file may be extensible (40), or of a kind *)
(* that is not read.  The extensible header is read up to the format, and    *)
(* then as if the file were ready; how its samples are read is never set.    *)
ReadSimpleChunk(f) ==
  [file |-> f.file, InputReady |-> TRUE, bit_depth |-> f.format.bits,
   num_samples |-> f.file.dataSize, ReadCount |-> 0, at |-> 0, thrown |-> FALSE]

ReadExtensibleChunk(f) == [ReadSimpleChunk(f) EXCEPT !.bit_depth = 0, !.num_samples = 0]

ReadWAVChunk(f) ==
  CASE f.format.chunk = 16 -> ReadSimpleChunk(f)
    [] f.format.chunk = 40 -> ReadExtensibleChunk(f)
    [] OTHER -> [ReadSimpleChunk(f) EXCEPT !.InputReady = FALSE, !.bit_depth = 0]

BytesPerSample(r) == IF r.bit_depth = 16 THEN 2 ELSE 3

CanRead(r) ==
  r.ReadCount < r.num_samples /\ r.at + BytesPerSample(r) <= Len(r.file.data)

SampleBytes(r) == SubSeq(r.file.data, r.at + 1, r.at + BytesPerSample(r))

(* How samples are read is set for these depths only; a call of anything     *)
(* else is undefined.                                                        *)
ReadIsSet(r) == r.bit_depth \in {16, 20, 24}

Signed16(word) == IF word < 32768 THEN word ELSE word - 65536

(* 16 bits come left justified in 32; 24 bits come most significant byte     *)
(* first, which is not how they are written, and not justified.              *)
SampleRead(r) ==
  CASE r.bit_depth = 16 -> 65536 * Signed16(Word(SampleBytes(r)))
    [] r.bit_depth = 20 -> 16 * Word(Reverse(SampleBytes(r)))
    [] r.bit_depth = 24 -> Word(Reverse(SampleBytes(r)))

(* Without data it throws; the calls after that return zero. *)
ReadSample(r) ==
  IF CanRead(r)
  THEN [r EXCEPT !.at = @ + BytesPerSample(r), !.ReadCount = @ + BytesPerSample(r)]
  ELSE [r EXCEPT !.InputReady = FALSE, !.thrown = TRUE]
=============================================================================
