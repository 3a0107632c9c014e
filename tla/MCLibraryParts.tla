--------------------------- MODULE MCLibraryParts ---------------------------
(***************************************************************************)
(* A small instance of the library's parts: bursts of a few words, bytes   *)
(* of two bits, rows of six characters, a clock of five bits that wraps    *)
(* within four packets.                                                    *)
(***************************************************************************)
EXTENDS LibraryParts

(* Output: frames of whole words and odd ones, that fit their burst, fill    *)
(* it, or do not, that the packet cuts, that are shorter than a header, that *)
(* end like a sync word; with something behind them, or nothing in front of  *)
(* it; a length below zero; and headers of LPCM that ask for more than there *)
(* is, or for no bytes at all.                                               *)
MCDTSTypes == <<3, 4, 5>>

DTSFrame(pairs, size, present) == [pairs |-> pairs, size |-> size, present |-> present, beyond |-> 0]
FrameOf(pairs, size) == DTSFrame(pairs, size, size)
EndsLikeSync(pairs, size, beyond) == [FrameOf(pairs, size) EXCEPT !.beyond = beyond]

FramesOnly(frames) == [frames |-> frames, extra |-> 0]

MCDTSPackets ==
  {FramesOnly(frames) :
     frames \in {<<FrameOf(4, 4)>>, <<FrameOf(4, 6), FrameOf(5, 4)>>, <<FrameOf(3, 4), FrameOf(4, 4)>>,
                <<FrameOf(4, 5), FrameOf(4, 4)>>, <<DTSFrame(4, 6, 4)>>, <<FrameOf(3, 8), FrameOf(4, 4)>>,
                <<FrameOf(4, 8), FrameOf(4, 4)>>, <<DTSFrame(4, 6, 5)>>, <<FrameOf(6, 10)>>, <<FrameOf(4, 2)>>,
                <<EndsLikeSync(4, 4, 2)>>, <<EndsLikeSync(4, 4, 2), FrameOf(4, 4)>>}}
  \cup {[frames |-> <<FrameOf(4, 4)>>, extra |-> n] : n \in {2, 4}}
  \cup {[frames |-> <<>>, extra |-> -2]}

MCPESSizes == {-1, 0, 4, 10, 20}

LPCMHeader(size, channels, depth) ==
  [audioPacketSize |-> size, numChannels |-> channels, bitDepth |-> depth]

MCLPCMHeaders ==
  {LPCMHeader(48, 2, 20), LPCMHeader(96, 2, 16), LPCMHeader(0, 2, 24), LPCMHeader(300, 2, 24)}

-----------------------------------------------------------------------------
(* Teletext: a page header of page 100, and within it a header, a row, or    *)
(* the triplets of row 26; every row of six of three characters, and two of  *)
(* the others.                                                               *)
MCColumns == 6

Unit(page, n, text, triplets, h13, isUnit, framing) ==
  [whole |-> TRUE, length |-> TRUE, framing |-> TRUE,
   h4 |-> page \div 100, h5 |-> 0, h6 |-> page % 10, h7 |-> (page \div 10) % 10,
   inner |-> [isUnit |-> isUnit, framing |-> framing,
              h4 |-> IF n = 255 THEN 128 ELSE 1 + 8 * (n % 2),
              h5 |-> IF n = 255 THEN 1 ELSE n \div 2,
              h13 |-> h13, text |-> text, triplets |-> triplets]]

Blank == [i \in 1 .. MCColumns |-> " "]
Boxed == <<"START_BOX", "START_BOX", "DOUBLE_HEIGHT", "COLOUR", "a", "END_BOX">>

HeaderUnit(h13) == Unit(100, 0, Blank, <<>>, h13, TRUE, TRUE)
RowUnit(n, text) == Unit(100, n, text, <<>>, 0, TRUE, TRUE)
TripletUnit(triplets) == Unit(100, 26, Blank, triplets, 0, TRUE, TRUE)

Triplet(address, mode) == [address |-> address, mode |-> mode]

Rows == [1 .. MCColumns -> {"START_BOX", "END_BOX", "a"}] \cup {Boxed, Blank}

MCPackets ==
  {<<HeaderUnit(2), RowUnit(2, text)>> : text \in Rows}
    \cup {<<HeaderUnit(128), TripletUnit(<<Triplet(42, 4), Triplet(3, 9), Triplet(41, 31), Triplet(5, 0)>>),
            RowUnit(2, Boxed)>>}
    \cup {<<Unit(100, 255, Boxed, <<>>, 0, TRUE, TRUE)>>, <<Unit(100, 2, Boxed, <<>>, 0, FALSE, TRUE)>>,
          <<Unit(100, 2, Boxed, <<>>, 0, TRUE, FALSE)>>, <<Unit(231, 2, Boxed, <<>>, 0, TRUE, TRUE)>>,
          <<[HeaderUnit(0) EXCEPT !.h6 = 12]>>, <<[HeaderUnit(0) EXCEPT !.h4 = 128]>>,
          <<[HeaderUnit(0) EXCEPT !.inner.h5 = 128], RowUnit(2, Boxed)>>,
          <<[HeaderUnit(0) EXCEPT !.length = FALSE], RowUnit(2, Boxed)>>}

-----------------------------------------------------------------------------
(* Calculations: words of six bits, in halves of three; bytes of two bits,   *)
(* and so samples and words of eight, a check of sixteen.                    *)
MCPoly == <<1, 0, 0, 0, 0, 0, 0, 0, 0, 0, 0, 0, 0, 1, 0, 1>>

MCHalfWords == -4 .. 3
MCWords == {-32, -31, -17, -9, -8, -7, -1, 0, 1, 2, 7, 8, 9, 15, 16, 30, 31}
MCDoubleWords == {-2048, -1000, -65, -64, -1, 0, 1, 2, 31, 32, 63, 64, 65, 1000, 2047}

MCMessages == UNION {[1 .. n -> 0 .. 3] : n \in 1 .. 4}

(* Every combination of the flags, but that four of them go together in two  *)
(* pairs.                                                                    *)
MCAC3Flags ==
  {flags \in SUBSET {"compre", "langcode", "audprodie", "compr2e", "langcod2e", "audprodi2e",
                     "xbsi1e", "xbsi2e", "addbsie"} :
     /\ ("compre" \in flags) <=> ("xbsi1e" \in flags)
     /\ ("compr2e" \in flags) <=> ("langcode" \in flags)}

(* Headers of DTS of two contents and lengths, with no sync word of          *)
(* auxiliary data, one, several, or one behind the frame.                    *)
ByteBits(bytes) ==
  FlattenSeq([i \in DOMAIN bytes |-> [j \in 1 .. 8 |-> (bytes[i] \div 2^(8 - j)) % 2]])

ZeroBits(n) == [i \in 1 .. n |-> 0]

DTSHeader(bytes, marks, aux) == [bits |-> ByteBits(bytes), marks |-> marks, aux |-> aux]

FirstHeader(k)  == <<127, 254, 128, 1, 253, 4 * k, 5, 49, 245, 77, 99, 1, 2, 119, 250>>
SecondHeader(k) == <<127, 254, 128, 1, 128, 4 * k + 1, 0, 18, 129, 177, 29, 1, 2, 219, 125>>

MCDTSFrames ==
  {DTSHeader(FirstHeader(k), marks, aux) :
     k \in {0, 15, 31}, marks \in {{}, {95}, {20, 60, 90}, {40}},
     aux \in {<<1>> \o ZeroBits(96), ZeroBits(100), <<0, 1, 0, 1, 0>> \o [i \in 1 .. 800 |-> 1]}}
  \cup {DTSHeader(SecondHeader(k), {3}, ZeroBits(100)) : k \in {1, 2}}

MCPacketHeaders ==
  [error : {0, 1}, PUSI : {0, 1}, priority : {1}, PID : {0, 16, 4096, 8191},
   scrambling : {0, 2}, adaptation : 0 .. 3, CC : {3}, afLength : {0, 3, 12}]

(* No bit of a time stamp, all of them, and each on its own.                 *)
MCStamps == {{}, 0 .. 32} \cup {{bit} : bit \in 0 .. 32}

(* Files that begin with some bytes of no packet, and end with some.         *)
File(start, packet, n, extra) ==
  [size |-> start + packet * n + extra, syncs |-> {start + packet * i + 1 : i \in 0 .. n - 1},
   packet |-> packet, packets |-> n]

MCFiles ==
  {File(start, packet, n, extra) : start \in {0, 1, 5, 13}, packet \in {12, 16}, n \in 1 .. 8, extra \in {0, 3}}

(* Every line of up to four of an option, another, and a number. *)
MCCommandLines ==
  UNION {[1 .. n -> {[text |-> "-p", number |-> 0], [text |-> "-q", number |-> 0],
                    [text |-> "17", number |-> 17]}] : n \in 1 .. 4}

MCTexts == {<<>>, INADDR_NONE, <<10, 0, 0, 1>>, <<224, 0, 0, 1>>}
=============================================================================
