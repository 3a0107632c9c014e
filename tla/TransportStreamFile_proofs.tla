--------------------- MODULE TransportStreamFile_proofs ---------------------
(***************************************************************************)
(* fileWriter never overruns its buffer and loses nothing, and fileReader  *)
(* returns the packets of a file that is packets of one length, for every  *)
(* capacity of the buffers, every pair of packet lengths, every set of     *)
(* packets and every place where the file begins.                          *)
(***************************************************************************)
EXTENDS TransportStreamFile, SequenceTheorems, TLAPS

-----------------------------------------------------------------------------
(* The writer.                                                             *)

LEMMA ConcatAssociates ==
  ASSUME NEW S, NEW a \in Seq(S), NEW b \in Seq(S), NEW c \in Seq(S)
  PROVE  (a \o b) \o c = a \o (b \o c)
BY SMT

LEMMA ConcatWithEmpty ==
  ASSUME NEW S, NEW a \in Seq(S)
  PROVE  a \o <<>> = a /\ <<>> \o a = a
BY SMT

LEMMA WholeSubSeq ==
  ASSUME NEW S, NEW a \in Seq(S)
  PROVE  SubSeq(a, 1, Len(a)) = a
BY SMT

(* A packet is a sequence of bytes of one of the two lengths.                *)
LEMMA PacketType ==
  ASSUME NEW p \in TransportPackets
  PROVE  p \in Seq(Byte) /\ Len(p) \in PacketLengths
BY WriterAssumption

(* Block_write leaves a file that is a sequence of bytes, and unless a write *)
(* has failed it has appended the buffer.                                    *)
LEMMA BlockWriteAppends ==
  ASSUME WriterTypeOK, BlockWrite(pkt_buffer)
  PROVE  /\ outfile' \in Seq(Byte)
         /\ failed' \in BOOLEAN
         /\ failed' \/ (~failed /\ outfile' = outfile \o pkt_buffer)
<1> USE DEF WriterTypeOK, BlockWrite
<1>1. ASSUME NEW n \in 0 .. Len(pkt_buffer)
      PROVE  outfile \o SubSeq(pkt_buffer, 1, n) \in Seq(Byte)
  <2>1. SubSeq(pkt_buffer, 1, n) \in Seq(Byte)  BY SMT
  <2>. QED  BY <2>1, SMT
<1>2. outfile' \in Seq(Byte)  BY <1>1 DEF FileAfter
<1>3. failed' \in BOOLEAN  BY Zenon
<1>4. failed' \/ (~failed /\ outfile' = outfile \o pkt_buffer)  BY Zenon
<1>. QED  BY <1>2, <1>3, <1>4

-----------------------------------------------------------------------------
(* What writeTsPacket appends to the buffer is the packet.                   *)
LEMMA PacketIsCopied ==
  ASSUME WriterTypeOK, NEW p \in TransportPackets, writeTsPacket(p)
  PROVE  /\ pkt_len' = Len(p)
         /\ MustBeWritten(Len(p)) => pkt_buffer' = p
         /\ ~MustBeWritten(Len(p)) => pkt_buffer' = pkt_buffer \o p
<1>1. pkt_len' = Len(p)  BY Zenon DEF writeTsPacket, NewLength
<1>2. pkt_buffer' = BufferAfter(Len(p)) \o p
  BY <1>1, PacketType, WholeSubSeq DEF writeTsPacket
<1>3. <<>> \o p = p  BY PacketType, ConcatWithEmpty
<1>. QED  BY <1>1, <1>2, <1>3, Zenon DEF BufferAfter

LEMMA TypeInit == WriterInit => WriterTypeOK
<1> SUFFICES ASSUME WriterInit PROVE WriterTypeOK  OBVIOUS
<1> USE DEF WriterInit
<1>1. discarded \in BOOLEAN /\ failed \in BOOLEAN  BY Zenon
<1>. QED  BY <1>1 DEF WriterTypeOK

LEMMA TypeStep == WriterTypeOK /\ [WriterNext]_writerVars => WriterTypeOK'
<1> SUFFICES ASSUME WriterTypeOK, [WriterNext]_writerVars PROVE WriterTypeOK'
  OBVIOUS
<1> USE DEF WriterTypeOK
<1>1. ASSUME NEW p \in TransportPackets, writeTsPacket(p) PROVE WriterTypeOK'
  <2>1. p \in Seq(Byte) /\ Len(p) \in PacketLengths  BY PacketType
  <2>2. pkt_buffer' \in Seq(Byte)
    <3>1. pkt_buffer \o p \in Seq(Byte)  BY <2>1, SMT
    <3>. QED  BY <1>1, <2>1, <3>1, PacketIsCopied
  <2>3. written' \in Seq(Byte)  BY <1>1, <2>1, SMT DEF writeTsPacket
  <2>4. outfile' \in Seq(Byte) /\ failed' \in BOOLEAN
    <3>1. CASE MustBeWritten(Len(p))
      BY <1>1, <3>1, BlockWriteAppends, Zenon DEF writeTsPacket
    <3>2. CASE ~MustBeWritten(Len(p))
      BY <1>1, <3>2, Zenon DEF writeTsPacket
    <3>. QED  BY <3>1, <3>2
  <2>5. pkt_len' \in PacketLengths  BY <1>1, <2>1, PacketIsCopied
  <2>. QED  BY <1>1, <2>2, <2>3, <2>4, <2>5 DEF writeTsPacket
<1>2. ASSUME NEW length \in PacketLengths, setPacketLength(length) PROVE WriterTypeOK'
  <2>1. discarded' \in BOOLEAN  BY <1>2, Zenon DEF setPacketLength
  <2>. QED  BY <1>2, <2>1 DEF setPacketLength
<1>3. CASE flush
  BY <1>3, BlockWriteAppends DEF flush
<1>4. CASE close
  BY <1>4, BlockWriteAppends DEF close
<1>5. CASE destroy
  BY <1>5, BlockWriteAppends DEF destroy
<1>6. CASE UNCHANGED writerVars
  BY <1>6 DEF writerVars
<1>. QED  BY <1>1, <1>2, <1>3, <1>4, <1>5, <1>6 DEF WriterNext

(* The types of the writer's state.                                          *)
THEOREM TypeCorrect == WriterSpec => []WriterTypeOK
BY TypeInit, TypeStep, PTL DEF WriterSpec

-----------------------------------------------------------------------------
(* One packet more, in a buffer that has room for it.                        *)
LEMMA OneMoreFits ==
  ASSUME NEW n \in Nat, NEW max \in Nat, n <= max, NEW l \in Nat, n * l # l * max
  PROVE  n + 1 <= max /\ (n * l) + l = (n + 1) * l
<1>1. n # max
  <2> SUFFICES ASSUME n = max PROVE FALSE  OBVIOUS
  <2>. QED  BY SMT
<1>. QED  BY <1>1, SMT

LEMMA ZeroTimes == \A l \in Nat : 0 * l = 0
BY SMT

LEMMA EmptyFits ==
  ASSUME WriterTypeOK, pkt_buffer = <<>>
  PROVE  BufferFits
<1>1. Len(pkt_buffer) = 0 * pkt_len
  BY WriterAssumption DEF WriterTypeOK, PacketLengths
<1>. QED  BY <1>1, WriterAssumption DEF BufferFits

LEMMA FitsStep ==
  ASSUME WriterTypeOK, WriterTypeOK', BufferFits, [WriterNext]_writerVars
  PROVE  BufferFits'
<1>1. ASSUME NEW p \in TransportPackets, writeTsPacket(p) PROVE BufferFits'
  <2>1. p \in Seq(Byte) /\ Len(p) \in Nat /\ pkt_len' = Len(p)
    BY <1>1, PacketType, PacketIsCopied
  <2>2. CASE MustBeWritten(Len(p))
    <3>1. Len(pkt_buffer') = 1 * pkt_len'
      BY <1>1, <2>1, <2>2, PacketIsCopied, SMT
    <3>2. 1 \in 0 .. MAX_NUM_PACKETS  BY WriterAssumption, SMT
    <3>. QED  BY <3>1, <3>2, Zenon DEF BufferFits
  <2>3. CASE ~MustBeWritten(Len(p))
    <3>1. PICK n \in 0 .. MAX_NUM_PACKETS : Len(pkt_buffer) = n * pkt_len
      BY Zenon DEF BufferFits
    <3>2. Len(p) = pkt_len /\ Len(pkt_buffer) # pkt_len * MAX_NUM_PACKETS
      BY <2>3, Zenon DEF MustBeWritten, Full
    <3>3. n + 1 <= MAX_NUM_PACKETS /\ (n * pkt_len) + pkt_len = (n + 1) * pkt_len
      <4>1. n \in Nat /\ MAX_NUM_PACKETS \in Nat /\ n <= MAX_NUM_PACKETS
        BY WriterAssumption, SMT
      <4>2. pkt_len \in Nat  BY <2>1, <3>2
      <4>3. n * pkt_len # pkt_len * MAX_NUM_PACKETS  BY <3>1, <3>2
      <4>. QED  BY <4>1, <4>2, <4>3, OneMoreFits
    <3>4. Len(pkt_buffer') = Len(pkt_buffer) + Len(p)
      BY <1>1, <2>1, <2>3, PacketIsCopied, SMT DEF WriterTypeOK
    <3>5. Len(pkt_buffer') = (n + 1) * pkt_len'
      BY <2>1, <3>1, <3>2, <3>3, <3>4
    <3>6. n + 1 \in 0 .. MAX_NUM_PACKETS  BY <3>3, SMT
    <3>. QED  BY <3>5, <3>6, Zenon DEF BufferFits
  <2>. QED  BY <2>2, <2>3
<1>2. ASSUME pkt_buffer' = <<>> PROVE BufferFits'
  <2>1. Len(pkt_buffer') = 0 * pkt_len'
    <3>1. pkt_len' \in Nat  BY WriterAssumption DEF WriterTypeOK, PacketLengths
    <3>2. 0 * pkt_len' = 0  BY <3>1, ZeroTimes, Zenon
    <3>3. Len(<<>>) = 0  BY SMT
    <3>. QED  BY <1>2, <3>2, <3>3, Zenon
  <2>2. 0 \in 0 .. MAX_NUM_PACKETS  BY WriterAssumption, SMT
  <2>. QED  BY <2>1, <2>2, Zenon DEF BufferFits
<1>3. ASSUME NEW length \in PacketLengths, setPacketLength(length) PROVE BufferFits'
  BY <1>2, <1>3 DEF setPacketLength
<1>4. CASE flush \/ close \/ destroy
  BY <1>2, <1>4 DEF flush, close, destroy
<1>5. CASE UNCHANGED writerVars
  BY <1>5 DEF writerVars, BufferFits
<1>. QED  BY <1>1, <1>3, <1>4, <1>5 DEF WriterNext

(* The buffer holds whole packets of the present length and is not overrun.  *)
THEOREM BufferFitsHolds == WriterSpec => []BufferFits
<1>1. WriterInit => BufferFits
  BY TypeInit, EmptyFits DEF WriterInit
<1>2. WriterTypeOK /\ WriterTypeOK' /\ BufferFits /\ [WriterNext]_writerVars => BufferFits'
  BY FitsStep
<1>. QED  BY <1>1, <1>2, TypeCorrect, PTL DEF WriterSpec

-----------------------------------------------------------------------------
LEMMA LossStep ==
  ASSUME WriterTypeOK, NothingIsLost, [WriterNext]_writerVars
  PROVE  NothingIsLost'
<1> USE DEF NothingIsLost
<1>1. ASSUME NEW p \in TransportPackets, writeTsPacket(p) PROVE NothingIsLost'
  <2>1. p \in Seq(Byte)  BY PacketType
  <2>2. discarded' = discarded /\ written' = written \o p  BY <1>1 DEF writeTsPacket
  <2>3. (outfile \o pkt_buffer) \o p = outfile \o (pkt_buffer \o p)
    BY <2>1, ConcatAssociates, SMTT(40) DEF WriterTypeOK
  <2>4. CASE MustBeWritten(Len(p))
    <3>1. BlockWrite(pkt_buffer) /\ pkt_buffer' = p
      BY <1>1, <2>4, PacketIsCopied, Zenon DEF writeTsPacket
    <3>. QED  BY <2>2, <3>1, BlockWriteAppends, Zenon
  <2>5. CASE ~MustBeWritten(Len(p))
    <3>1. outfile' = outfile /\ failed' = failed /\ pkt_buffer' = pkt_buffer \o p
      BY <1>1, <2>5, PacketIsCopied, Zenon DEF writeTsPacket
    <3>. QED  BY <2>2, <2>3, <3>1, Zenon
  <2>. QED  BY <2>4, <2>5
<1>2. ASSUME BlockWrite(pkt_buffer), pkt_buffer' = <<>>, UNCHANGED <<written, discarded>>
      PROVE  NothingIsLost'
  <2>1. failed' \/ (~failed /\ outfile' = outfile \o pkt_buffer)
    BY <1>2, BlockWriteAppends, Zenon
  <2>2. outfile' \in Seq(Byte)  BY <1>2, BlockWriteAppends
  <2>3. outfile' \o <<>> = outfile'  BY <2>2, ConcatWithEmpty
  <2>. QED  BY <1>2, <2>1, <2>3, Zenon
<1>3. ASSUME NEW length \in PacketLengths, setPacketLength(length) PROVE NothingIsLost'
  <2>1. CASE pkt_buffer = <<>>
    <3>1. UNCHANGED <<outfile, pkt_buffer, written, failed>> /\ (discarded => discarded')
      BY <1>3, <2>1, Zenon DEF setPacketLength
    <3>. QED  BY <3>1, Zenon
  <2>2. CASE pkt_buffer # <<>>
    BY <1>3, <2>2, Zenon DEF setPacketLength
  <2>. QED  BY <2>1, <2>2
<1>4. CASE flush \/ close \/ destroy
  BY <1>2, <1>4, Zenon DEF flush, close, destroy
<1>5. CASE UNCHANGED writerVars
  BY <1>5 DEF writerVars
<1>. QED  BY <1>1, <1>3, <1>4, <1>5, Zenon DEF WriterNext

(* The file and the buffer are what was given to the writer, in order, once. *)
THEOREM NothingIsLostHolds == WriterSpec => []NothingIsLost
<1>1. WriterInit => NothingIsLost
  <2>1. <<>> \o <<>> = <<>>  BY ConcatWithEmpty
  <2>. QED  BY <2>1 DEF WriterInit, NothingIsLost
<1>2. WriterTypeOK /\ NothingIsLost /\ [WriterNext]_writerVars => NothingIsLost'
  BY LossStep
<1>. QED  BY <1>1, <1>2, TypeCorrect, PTL DEF WriterSpec

-----------------------------------------------------------------------------
(* The reader.                                                             *)

(* Arithmetic *)
LEMMA SmallRemainder ==
  ASSUME NEW l \in Nat \ {0}, NEW i \in 0 .. l - 1
  PROVE  i % l = i
BY SMT

LEMMA ShiftedRemainder ==
  ASSUME NEW l \in Nat \ {0}, NEW o \in 0 .. l - 1, NEW s \in 1 .. l - 1
  PROVE  (o + s) % l # o
<1> DEFINE q == (o + s) \div l
<1>1. o + s = q * l + ((o + s) % l) /\ q \in Int  BY SMT
<1> HIDE DEF q
<1>2. SUFFICES ASSUME (o + s) % l = o PROVE FALSE  OBVIOUS
<1>3. s = q * l  BY <1>1, <1>2, SMT
<1>4. q <= 0 => q * l <= 0  BY <1>1, SMT
<1>5. q >= 1 => q * l >= l  BY <1>1, SMT
<1>6. QED  BY <1>1, <1>3, <1>4, <1>5, SMT

LEMMA Quotient ==
  ASSUME NEW l \in Nat \ {0}, NEW b \in Nat
  PROVE  b \div l \in Nat /\ (b \div l) * l <= b /\ b < (b \div l) * l + l
BY SMT

LEMMA QuotientIs ==
  ASSUME NEW l \in Nat \ {0}, NEW b \in Nat, NEW k \in Nat, k * l <= b, b < k * l + l
  PROVE  b \div l = k
BY SMT

(* The bytes before the first packet are fewer than a packet. *)
LEMMA OneMore ==
  ASSUME NEW l \in Nat \ {0}, NEW o \in 0 .. l - 1, NEW b \in Nat, o <= b
  PROVE  b \div l \in {(b - o) \div l, (b - o) \div l + 1}
<1> DEFINE q == (b - o) \div l
<1>1. b - o \in Nat /\ o \in Nat  OBVIOUS
<1>2. q \in Nat /\ q * l <= b - o /\ b - o < q * l + l  BY <1>1, Quotient
<1> HIDE DEF q
<1>3. (q + 1) * l = q * l + l /\ q * l \in Nat  BY <1>2, SMT
<1>4. CASE b < q * l + l
  <2>1. q * l <= b  BY <1>1, <1>2, <1>3
  <2>2. b \div l = q  BY <1>2, <1>4, <2>1, QuotientIs
  <2>3. QED  BY <2>2 DEF q
<1>5. CASE ~(b < q * l + l)
  <2>1. (q + 1) * l <= b /\ b < (q + 1) * l + l  BY <1>1, <1>2, <1>3, <1>5
  <2>2. b \div l = q + 1  BY <1>2, <2>1, QuotientIs
  <2>3. QED  BY <2>2 DEF q
<1>6. QED  BY <1>4, <1>5

LEMMA OneLess ==
  ASSUME NEW l \in Nat, NEW n \in Nat \ {0}
  PROVE  n * l \in Nat /\ (n - 1) * l \in Nat /\ n * l = l + (n - 1) * l
BY SMT

LEMMA SumTimes ==
  ASSUME NEW l \in Nat, NEW m \in Nat, NEW n \in Nat
  PROVE  (m + n) * l = m * l + n * l /\ m * l \in Nat /\ n * l \in Nat
BY SMT

LEMMA NoMore ==
  ASSUME NEW l \in Nat, NEW m \in Nat, NEW n \in Nat, m <= n
  PROVE  m * l <= n * l
BY SMT

LEMMA MinOfTwo ==
  ASSUME NEW a \in Int, NEW b \in Int
  PROVE  Min({a, b}) = IF a <= b THEN a ELSE b
BY SMT DEF Min

(* A part of a part. *)
LEMMA PartOfPart ==
  ASSUME NEW S, NEW s \in Seq(S), NEW i \in Nat, NEW j \in Nat, i <= j, j <= Len(s),
         NEW m \in Nat, NEW n \in Nat, m <= n, n <= j - i
  PROVE  SubSeq(SubSeq(s, i + 1, j), m + 1, n) = SubSeq(s, i + m + 1, i + n)
<1>1. CASE m = n  BY <1>1, SubSeqEmpty
<1>2. CASE m < n
  <2>1. i + 1 \in 1 .. Len(s) /\ j \in 1 .. Len(s) /\ m + 1 \in 1 .. j - (i + 1) + 1 /\ n \in 1 .. j - (i + 1) + 1
    BY <1>2, LenProperties
  <2>2. SubSeq(SubSeq(s, i + 1, j), m + 1, n) = SubSeq(s, (i + 1) + (m + 1) - 1, (i + 1) + n - 1)
    BY <2>1, SubSeqOfSubSeq
  <2>3. (i + 1) + (m + 1) - 1 = i + m + 1 /\ (i + 1) + n - 1 = i + n  OBVIOUS
  <2>4. QED  BY <2>2, <2>3
<1>3. QED  BY <1>1, <1>2

LEMMA PartType ==
  ASSUME NEW S, NEW s \in Seq(S), NEW i \in Nat, NEW j \in Nat, i <= j, j <= Len(s)
  PROVE  SubSeq(s, i + 1, j) \in Seq(S) /\ Len(SubSeq(s, i + 1, j)) = j - i
<1>1. \A k \in i + 1 .. j : s[k] \in S
  BY ElementOfSeq, LenProperties
<1>2. SubSeq(s, i + 1, j) \in Seq(S) /\ Len(SubSeq(s, i + 1, j)) = IF i + 1 <= j THEN j - (i + 1) + 1 ELSE 0
  BY <1>1, SubSeqProperties
<1>3. QED  BY <1>2

LEMMA Lengths == \A length \in PacketLengths : length \in Nat \ {0}
BY WriterAssumption DEF PacketLengths

-----------------------------------------------------------------------------
(* Where the reader begins *)

(* In a file that is packets of one length the search stops at the first     *)
(* complete one, and finds their length.                                     *)
LEMMA StopsAtFirst ==
  ASSUME infile \in Seq(Byte), NEW l \in PacketLengths, NEW o \in 0 .. l - 1,
         CleanFile(l, o), Begins(o, l)
  PROVE  SomethingBegins /\ \A stop \in Stops : stop[1] = o /\ stop[2] = l
<1>1. l \in Nat \ {0} /\ o \in Nat /\ Len(infile) \in Nat /\ TestBufferSize \in Nat
  BY Lengths, LenProperties, ReaderAssumption
<1>2. IsSync(o) /\ IsSync(o + l)
  <2>1. IsSync(o + 0 * l) /\ IsSync(o + 1 * l)  BY DEF Begins
  <2>2. o + 0 * l = o /\ o + 1 * l = o + l  BY <1>1
  <2>3. QED  BY <2>1, <2>2
<1>3. InFile(o) /\ InFile(o + l)  BY <1>2 DEF IsSync
<1>4. SomethingBegins
  <2>1. o \in 0 .. TestBufferSize - 1  BY <1>1, <1>3 DEF InFile
  <2>2. QED  BY <2>1 DEF SomethingBegins
<1>5. ASSUME NEW stop \in Stops PROVE stop[1] = o /\ stop[2] = l
  <2> DEFINE i == stop[1]
             length == stop[2]
  <2>1. /\ i \in 0 .. TestBufferSize - 1 /\ length \in PacketLengths
        /\ MayBegin(i, length)
        /\ \A j \in 0 .. i, other \in PacketLengths : TriedBefore(j, other, i, length) => ~Begins(j, other)
    BY DEF Stops
  <2> HIDE DEF i, length
  <2>2. length \in Nat \ {0} /\ i \in Nat  BY <1>1, <2>1, Lengths
  <2>3. MayBeSync(i) /\ MayBeSync(i + length)
    <3>1. MayBeSync(i + 0 * length) /\ MayBeSync(i + 1 * length)  BY <2>1 DEF MayBegin
    <3>2. i + 0 * length = i /\ i + 1 * length = i + length  BY <2>2
    <3>3. QED  BY <3>1, <3>2
  <2>4. ~(i < o)
    <3>1. SUFFICES ASSUME i < o PROVE FALSE  OBVIOUS
    <3>2. InFile(i) /\ i \in 0 .. Len(infile) - 1 /\ i \in 0 .. l - 1
      BY <1>1, <1>3, <2>2, <3>1 DEF InFile
    <3>3. i % l = o  BY <2>3, <3>2 DEF MayBeSync, CleanFile
    <3>4. i % l = i  BY <1>1, <3>2, SmallRemainder
    <3>5. QED  BY <1>1, <2>2, <3>1, <3>3, <3>4
  <2>5. ~TriedBefore(o, l, i, length)
    <3>1. o \in 0 .. i  BY <1>1, <2>2, <2>4
    <3>2. QED  BY <2>1, <3>1
  <2>6. i = o /\ ~(l < length)  BY <1>1, <2>2, <2>4, <2>5 DEF TriedBefore
  <2>7. ~(length < l)
    <3>1. SUFFICES ASSUME length < l PROVE FALSE  OBVIOUS
    <3>2. InFile(o + length) /\ o + length \in 0 .. Len(infile) - 1 /\ length \in 1 .. l - 1
      BY <1>1, <1>3, <2>2, <3>1 DEF InFile
    <3>3. MayBeSync(o + length)  BY <2>3, <2>6
    <3>4. (o + length) % l = o  BY <3>2, <3>3 DEF MayBeSync, CleanFile
    <3>5. QED  BY <1>1, <3>2, <3>4, ShiftedRemainder
  <2>8. i = o /\ length = l  BY <1>1, <2>2, <2>6, <2>7
  <2>9. QED  BY <2>8 DEF i, length
<1>6. QED  BY <1>4, <1>5

-----------------------------------------------------------------------------
(* One call of readTsPacket *)

AtStart ==
  position = 0 /\ pkts_available = 0 /\ readBuffer = <<>> /\ packets = <<>>

ReaderInv ==
  /\ TypeOK
  /\ reader \in {"none", "opened"} => AtStart
  /\ reader \in {"ready", "end"} => readLength \in PacketLengths

(* The packets there are to return, and their bytes. *)
Number == IF pkts_available = 0 THEN PacketsOf(Unread) ELSE pkts_available

Buffer ==
  IF pkts_available = 0 THEN SubSeq(infile, position + 1, position + Number * readLength) ELSE readBuffer

LEMMA ReaderTypes ==
  ASSUME ReaderInv, reader = "ready"
  PROVE  /\ readLength \in PacketLengths /\ readLength \in Nat \ {0}
         /\ infile \in Seq(Byte) /\ Len(infile) \in Nat /\ position \in Nat
         /\ pkts_available \in Nat /\ pkts_available <= MAX_NUM_PACKETS /\ MAX_NUM_PACKETS \in Nat \ {0}
         /\ readBuffer \in Seq(Byte) /\ Len(readBuffer) = pkts_available * readLength
         /\ packets \in Seq(Seq(Byte)) /\ Len(packets) \in Nat
         /\ TestBufferSize \in Nat \ {0} /\ position <= Len(infile) + TestBufferSize
<1>1. readLength \in PacketLengths /\ readLength \in Nat \ {0}  BY Lengths DEF ReaderInv
<1>2. MAX_NUM_PACKETS \in Nat \ {0}  BY WriterAssumption
<1>3. TestBufferSize \in Nat \ {0}  BY ReaderAssumption
<1>4. infile \in Seq(Byte) /\ Len(infile) \in Nat  BY LenProperties DEF ReaderInv, TypeOK
<1>5. packets \in Seq(Seq(Byte)) /\ Len(packets) \in Nat  BY LenProperties DEF ReaderInv, TypeOK
<1>6. position \in 0 .. Len(infile) + TestBufferSize /\ pkts_available \in 0 .. MAX_NUM_PACKETS
  BY DEF ReaderInv, TypeOK
<1>7. readBuffer \in Seq(Byte) /\ Len(readBuffer) = pkts_available * readLength
  BY DEF ReaderInv, TypeOK
<1>8. QED  BY <1>1, <1>2, <1>3, <1>4, <1>5, <1>6, <1>7

(* A block never has more than what is left of the file, nor than the buffer.*)
LEMMA BlockFits ==
  ASSUME ReaderInv, reader = "ready"
  PROVE  /\ PacketsOf(Unread) \in Nat /\ PacketsOf(Unread) <= MAX_NUM_PACKETS
         /\ PacketsOf(Unread) # 0 => Unread > 0 /\ position + PacketsOf(Unread) * readLength <= Len(infile)
         /\ PacketsOf(Unread) # MAX_NUM_PACKETS => Unread < PacketsOf(Unread) * readLength + readLength
<1>0. /\ readLength \in Nat \ {0} /\ MAX_NUM_PACKETS \in Nat \ {0}
      /\ position \in Nat /\ Len(infile) \in Nat
  BY ReaderTypes
<1>1. Unread \in Int /\ Unread = Len(infile) - position  BY <1>0 DEF Unread
<1>2. CASE Unread <= 0
  <2>1. PacketsOf(Unread) = 0  BY <1>2 DEF PacketsOf
  <2>2. PacketsOf(Unread) * readLength = 0  BY <2>1, ReaderTypes
  <2>3. QED  BY <1>1, <1>2, <2>1, <2>2, ReaderTypes
<1>3. CASE Unread > 0
  <2> DEFINE q == Unread \div readLength
  <2>0. Unread \in Nat  BY <1>1, <1>3, <1>0
  <2>1. q \in Nat /\ q * readLength <= Unread /\ Unread < q * readLength + readLength
    BY <2>0, <1>0, Quotient
  <2>2. PacketsOf(Unread) = Min({MAX_NUM_PACKETS, q})  BY <1>1, <1>3 DEF PacketsOf
  <2> HIDE DEF q
  <2>3. PacketsOf(Unread) = IF MAX_NUM_PACKETS <= q THEN MAX_NUM_PACKETS ELSE q
    BY <2>1, <2>2, <1>0, MinOfTwo
  <2>4. PacketsOf(Unread) \in Nat /\ PacketsOf(Unread) <= q /\ PacketsOf(Unread) <= MAX_NUM_PACKETS
    BY <2>1, <2>3, <1>0
  <2>5. PacketsOf(Unread) * readLength <= q * readLength  BY <2>1, <2>4, <1>0, NoMore
  <2>6. PacketsOf(Unread) * readLength \in Nat /\ q * readLength \in Nat
    BY <2>1, <2>4, <1>0, SumTimes
  <2>7. position + PacketsOf(Unread) * readLength <= Len(infile)
    <3>1. PacketsOf(Unread) * readLength <= Unread  BY <2>0, <2>1, <2>5, <2>6
    <3>2. QED  BY <1>0, <1>1, <2>6, <3>1
  <2>8. PacketsOf(Unread) # MAX_NUM_PACKETS => PacketsOf(Unread) = q  BY <2>3
  <2>9. QED  BY <1>3, <2>1, <2>4, <2>7, <2>8
<1>4. QED  BY <1>1, <1>2, <1>3

LEMMA BufferType ==
  ASSUME ReaderInv, reader = "ready"
  PROVE  /\ Number \in Nat /\ Number <= MAX_NUM_PACKETS
         /\ Buffer \in Seq(Byte) /\ Len(Buffer) = Number * readLength
<1>1. CASE pkts_available = 0
  <2>1. Number = PacketsOf(Unread) /\ Buffer = SubSeq(infile, position + 1, position + Number * readLength)
    BY <1>1 DEF Number, Buffer
  <2>2. Number \in Nat /\ Number <= MAX_NUM_PACKETS  BY <2>1, BlockFits
  <2>3. Number * readLength \in Nat  BY <2>2, ReaderTypes, SumTimes
  <2>4. CASE Number = 0
    <3>1. Number * readLength = 0  BY <2>4, ReaderTypes
    <3>2. Buffer = <<>>  BY <2>1, <3>1, ReaderTypes, SubSeqEmpty
    <3>3. QED  BY <2>2, <3>1, <3>2
  <2>5. CASE Number # 0
    <3>1. position + Number * readLength <= Len(infile)  BY <2>1, <2>5, BlockFits
    <3> DEFINE end == position + Number * readLength
    <3>0. infile \in Seq(Byte) /\ position \in Nat /\ end \in Nat /\ position <= end /\ end <= Len(infile)
      BY <2>3, <3>1, ReaderTypes
    <3>2. Buffer \in Seq(Byte) /\ Len(Buffer) = end - position
      <4>1. Buffer = SubSeq(infile, position + 1, end)  BY <2>1
      <4> HIDE DEF end
      <4>2. QED  BY <3>0, <4>1, PartType
    <3>3. QED  BY <2>2, <2>3, <3>2, ReaderTypes
  <2>6. QED  BY <2>4, <2>5
<1>2. CASE pkts_available # 0
  BY <1>2, ReaderTypes DEF Number, Buffer
<1>3. QED  BY <1>1, <1>2

(* The next packet, and what is left behind it. *)
LEMMA BufferParts ==
  ASSUME ReaderInv, reader = "ready", Number # 0
  PROVE  /\ readLength <= Len(Buffer)
         /\ SubSeq(Buffer, 1, readLength) \in Seq(Byte)
         /\ SubSeq(Buffer, readLength + 1, Len(Buffer)) \in Seq(Byte)
         /\ Len(SubSeq(Buffer, readLength + 1, Len(Buffer))) = (Number - 1) * readLength
<1>1. Len(Buffer) = readLength + (Number - 1) * readLength /\ (Number - 1) * readLength \in Nat
  BY BufferType, ReaderTypes, OneLess
<1>0. readLength \in Nat \ {0} /\ Buffer \in Seq(Byte)  BY ReaderTypes, BufferType
<1>2. readLength <= Len(Buffer) /\ Len(Buffer) \in Nat  BY <1>0, <1>1
<1>3. SubSeq(Buffer, 0 + 1, readLength) \in Seq(Byte)
  BY <1>0, <1>2, PartType
<1>4. SubSeq(Buffer, readLength + 1, Len(Buffer)) \in Seq(Byte)
      /\ Len(SubSeq(Buffer, readLength + 1, Len(Buffer))) = Len(Buffer) - readLength
  <2>1. readLength \in Nat /\ Len(Buffer) \in Nat /\ Len(Buffer) <= Len(Buffer)  BY <1>0, <1>2
  <2>2. QED  BY <1>0, <1>2, <2>1, PartType
<1>5. Len(Buffer) - readLength = (Number - 1) * readLength  BY <1>0, <1>1
<1>6. SubSeq(Buffer, 0 + 1, readLength) = SubSeq(Buffer, 1, readLength)  OBVIOUS
<1>7. QED  BY <1>2, <1>3, <1>4, <1>5, <1>6, Zenon

LEMMA ReadStep ==
  ASSUME ReaderInv, readTsPacket
  PROVE  /\ reader = "ready" /\ infile' = infile /\ readLength' = readLength /\ UNCHANGED writerVars
         /\ position' = IF pkts_available = 0 /\ Unread > 0 THEN ReadUpTo(Unread) ELSE position
         /\ Number = 0 => reader' = "end" /\ packets' = packets /\ pkts_available' = 0 /\ readBuffer' = <<>>
         /\ Number # 0 => /\ reader' = "ready" /\ packets' = Append(packets, SubSeq(Buffer, 1, readLength))
                          /\ pkts_available' = Number - 1
                          /\ readBuffer' = SubSeq(Buffer, readLength + 1, Len(Buffer))
BY DEF readTsPacket, Number, Buffer

(* Reading goes up to the end of the file at most. *)
LEMMA ReadsUpTo ==
  ASSUME ReaderInv, reader = "ready", Unread > 0
  PROVE  /\ ReadUpTo(Unread) \in Nat /\ ReadUpTo(Unread) <= Len(infile)
         /\ ReadUpTo(Unread) = IF position + MAX_NUM_PACKETS * readLength <= Len(infile)
                               THEN position + MAX_NUM_PACKETS * readLength ELSE Len(infile)
<1>0. /\ readLength \in Nat \ {0} /\ MAX_NUM_PACKETS \in Nat \ {0}
      /\ position \in Nat /\ Len(infile) \in Nat
  BY ReaderTypes
<1>1. position + Unread = Len(infile)  BY <1>0 DEF Unread
<1>2. MAX_NUM_PACKETS * readLength \in Nat  BY <1>0, SumTimes
<1> DEFINE full == position + MAX_NUM_PACKETS * readLength
<1>3. full \in Nat  BY <1>0, <1>2
<1>4. ReadUpTo(Unread) = Min({full, Len(infile)})  BY <1>1 DEF ReadUpTo
<1> HIDE DEF full
<1>5. ReadUpTo(Unread) = IF full <= Len(infile) THEN full ELSE Len(infile)
  BY <1>0, <1>3, <1>4, MinOfTwo
<1>6. ReadUpTo(Unread) \in Nat /\ ReadUpTo(Unread) <= Len(infile)  BY <1>0, <1>3, <1>5
<1>7. QED  BY <1>5, <1>6 DEF full

-----------------------------------------------------------------------------
(* Types *)
LEMMA ReaderInit == Init => ReaderInv
<1> SUFFICES ASSUME Init PROVE ReaderInv  OBVIOUS
<1>1. WriterTypeOK  BY TypeInit DEF Init
<1>2. infile = <<>> /\ AtStart /\ readLength = 0 /\ reader = "none"  BY DEF Init, AtStart
<1>3. Len(infile) = 0 /\ Len(readBuffer) = 0 /\ 0 \in 0 .. Len(infile) + TestBufferSize
      /\ 0 \in 0 .. MAX_NUM_PACKETS /\ pkts_available * readLength = 0
  BY <1>2, ReaderAssumption, WriterAssumption DEF AtStart
<1>4. TypeOK  BY <1>1, <1>2, <1>3 DEF TypeOK, AtStart
<1>5. QED  BY <1>2, <1>4 DEF ReaderInv

LEMMA ReaderStep ==
  ASSUME ReaderInv, [Next]_vars
  PROVE  ReaderInv'
<1> USE DEF ReaderInv
<1>1. ASSUME UNCHANGED readerVars, WriterTypeOK' PROVE ReaderInv'
  BY <1>1 DEF readerVars, TypeOK, AtStart
<1>2. ASSUME UNCHANGED writerVars PROVE WriterTypeOK'
  BY <1>2 DEF writerVars, WriterTypeOK, TypeOK
<1>3. CASE Writer
  BY <1>1, <1>3, TypeStep DEF Writer, TypeOK
<1>4. CASE \E cut \in 0 .. Ts204Byte : OpenFile(cut)
  <2>1. PICK cut \in 0 .. Ts204Byte : OpenFile(cut)  BY <1>4
  <2>2. outfile \in Seq(Byte) /\ Len(outfile) \in Nat /\ cut \in Nat
    BY LenProperties, WriterAssumption DEF TypeOK, WriterTypeOK
  <2>3. infile' \in Seq(Byte)
    <3>1. CASE cut <= Len(outfile)
      <4>1. SubSeq(outfile, cut + 1, Len(outfile)) \in Seq(Byte)
        <5>1. Len(outfile) <= Len(outfile)  BY <2>2
        <5>2. QED  BY <2>2, <3>1, <5>1, PartType
      <4>2. QED  BY <2>1, <4>1 DEF OpenFile
    <3>2. CASE ~(cut <= Len(outfile))
      <4>1. SubSeq(outfile, cut + 1, Len(outfile)) = <<>>  BY <2>2, <3>2, SubSeqEmpty
      <4>2. infile' = SubSeq(outfile, cut + 1, Len(outfile))  BY <2>1 DEF OpenFile
      <4>3. infile' = <<>>  BY <4>1, <4>2
      <4>4. <<>> \in Seq(Byte)  OBVIOUS
      <4>5. QED  BY <4>3, <4>4
    <3>3. QED  BY <3>1, <3>2
  <2>4. /\ WriterTypeOK' /\ reader = "none" /\ reader' = "opened" /\ AtStart'
        /\ readLength' = readLength
    BY <1>2, <2>1 DEF OpenFile, AtStart
  <2>5. Len(infile') \in Nat /\ Len(<<>>) = 0  BY <2>3, LenProperties
  <2>6. position' \in 0 .. Len(infile') + TestBufferSize /\ pkts_available' \in 0 .. MAX_NUM_PACKETS
    BY <2>4, <2>5, ReaderAssumption, WriterAssumption DEF AtStart
  <2>7. readLength' \in PacketLengths \cup {0} /\ 0 * readLength' = 0
    BY <2>4, Lengths DEF TypeOK
  <2>8. TypeOK'  BY <2>3, <2>4, <2>5, <2>6, <2>7 DEF TypeOK, AtStart
  <2>9. QED  BY <2>4, <2>8
<1>5. CASE SyncToTSHeader
  <2>1. /\ reader = "opened" /\ AtStart /\ infile' = infile /\ readBuffer' = <<>> /\ pkts_available' = 0
        /\ packets' = packets /\ WriterTypeOK'
    BY <1>2, <1>5 DEF SyncToTSHeader, AtStart
  <2>2. /\ position' \in 0 .. Len(infile) + TestBufferSize
        /\ \/ reader' = "ready" /\ readLength' \in PacketLengths
           \/ reader' = "lost" /\ readLength' = readLength
    <3>1. Len(infile) \in Nat /\ TestBufferSize \in Nat  BY LenProperties, ReaderAssumption DEF TypeOK
    <3>2. CASE \E stop \in Stops : position' = stop[1] /\ readLength' = stop[2] /\ reader' = "ready"
      <4>1. PICK stop \in Stops : position' = stop[1] /\ readLength' = stop[2] /\ reader' = "ready"
        BY <3>2
      <4>2. stop[1] \in 0 .. TestBufferSize - 1 /\ stop[2] \in PacketLengths  BY DEF Stops
      <4>3. QED  BY <3>1, <4>1, <4>2
    <3>3. CASE reader' = "lost" /\ position' = position /\ readLength' = readLength
      BY <3>3 DEF TypeOK
    <3>4. QED  BY <1>5, <3>2, <3>3 DEF SyncToTSHeader
  <2>3. 0 * readLength' = 0 /\ Len(<<>>) = 0 /\ 0 \in 0 .. MAX_NUM_PACKETS
    BY <2>2, Lengths, WriterAssumption DEF TypeOK
  <2>4. TypeOK'  BY <2>1, <2>2, <2>3 DEF TypeOK
  <2>5. QED  BY <2>2, <2>4
<1>6. CASE readTsPacket
  <2>1. /\ reader = "ready" /\ infile' = infile /\ readLength' = readLength /\ WriterTypeOK'
        /\ reader' \in {"ready", "end"}
    BY <1>2, <1>6, ReadStep
  <2>2. readLength \in Nat \ {0} /\ Len(infile) \in Nat /\ TestBufferSize \in Nat \ {0} /\ position \in Nat
        /\ position <= Len(infile) + TestBufferSize /\ packets \in Seq(Seq(Byte)) /\ MAX_NUM_PACKETS \in Nat \ {0}
    BY <2>1, ReaderTypes
  <2>3. position' \in 0 .. Len(infile) + TestBufferSize
    <3>1. CASE pkts_available = 0 /\ Unread > 0
      BY <1>6, <2>1, <2>2, <3>1, ReadStep, ReadsUpTo
    <3>2. CASE ~(pkts_available = 0 /\ Unread > 0)
      <4>1. position' = position  BY <1>6, <3>2, ReadStep
      <4>2. QED  BY <2>2, <4>1
    <3>3. QED  BY <3>1, <3>2
  <2>4. /\ readBuffer' \in Seq(Byte) /\ pkts_available' \in 0 .. MAX_NUM_PACKETS
        /\ Len(readBuffer') = pkts_available' * readLength /\ packets' \in Seq(Seq(Byte))
    <3>1. CASE Number = 0
      <4>1. packets' = packets /\ pkts_available' = 0 /\ readBuffer' = <<>>  BY <1>6, <3>1, ReadStep
      <4>2. 0 * readLength = 0 /\ Len(<<>>) = 0 /\ 0 \in 0 .. MAX_NUM_PACKETS  BY <2>2
      <4>3. QED  BY <2>2, <4>1, <4>2
    <3>2. CASE Number # 0
      <4>1. /\ packets' = Append(packets, SubSeq(Buffer, 1, readLength))
            /\ pkts_available' = Number - 1
            /\ readBuffer' = SubSeq(Buffer, readLength + 1, Len(Buffer))
        BY <1>6, <3>2, ReadStep
      <4>2. SubSeq(Buffer, 1, readLength) \in Seq(Byte) /\ readBuffer' \in Seq(Byte)
            /\ Len(readBuffer') = pkts_available' * readLength
        BY <2>1, <3>2, <4>1, BufferParts
      <4>3. Number \in Nat /\ Number <= MAX_NUM_PACKETS  BY <2>1, BufferType
      <4>4. pkts_available' \in 0 .. MAX_NUM_PACKETS  BY <2>2, <3>2, <4>1, <4>3
      <4>5. packets' \in Seq(Seq(Byte))  BY <2>2, <4>1, <4>2, AppendProperties
      <4>6. QED  BY <4>2, <4>4, <4>5
    <3>3. QED  BY <3>1, <3>2
  <2>5. readLength' \in PacketLengths \cup {0}  BY <2>1 DEF TypeOK
  <2>6. infile' \in Seq(Byte)  BY <2>1 DEF TypeOK
  <2>7. TypeOK'  BY <2>1, <2>3, <2>4, <2>5, <2>6 DEF TypeOK
  <2>8. QED  BY <2>1, <2>7
<1>7. CASE UNCHANGED vars
  BY <1>1, <1>2, <1>7 DEF vars
<1>8. QED  BY <1>3, <1>4, <1>5, <1>6, <1>7 DEF Next, Reader

LEMMA ReaderAlways == Spec => []ReaderInv
<1>1. Init => ReaderInv  BY ReaderInit
<1>2. ReaderInv /\ [Next]_vars => ReaderInv'  BY ReaderStep
<1>3. QED  BY <1>1, <1>2, PTL DEF Spec

(* The types of the writer's and the reader's state: what is in fileReader's *)
(* buffer is whole packets, however the file ends.                           *)
THEOREM ReaderTypeCorrect == Spec => []TypeOK
<1>1. ReaderInv => TypeOK  BY DEF ReaderInv
<1>2. QED  BY <1>1, ReaderAlways, PTL

-----------------------------------------------------------------------------
(* The reader follows the file *)

(* What of the file has been returned, and what has been returned or buffered.*)
Returned(l, o) == o + Len(packets) * l
Had(l, o)      == o + (Len(packets) + pkts_available) * l

PacketsAre(l, o) ==
  \A k \in DOMAIN packets : packets[k] = SubSeq(infile, o + (k - 1) * l + 1, o + k * l)

(* The reading stands behind what was buffered, or at the end of the file    *)
(* with less than a packet that was read and is not counted.                 *)
Following(l, o) ==
  /\ reader \in {"ready", "end"} /\ readLength = l
  /\ Had(l, o) <= Len(infile)
  /\ readBuffer = SubSeq(infile, Returned(l, o) + 1, Had(l, o))
  /\ position = Had(l, o) \/ (position = Len(infile) /\ Len(infile) < Had(l, o) + l)
  /\ PacketsAre(l, o)
  /\ reader = "end" => Len(packets) = (Len(infile) - o) \div l

FollowInv ==
  /\ ReaderInv
  /\ \A l \in PacketLengths : \A o \in 0 .. l - 1 :
       CleanFile(l, o) /\ Begins(o, l) /\ reader \notin {"none", "opened"} => Following(l, o)

LEMMA WhatIsHad ==
  ASSUME ReaderInv, NEW l \in PacketLengths, NEW o \in 0 .. l - 1
  PROVE  /\ l \in Nat \ {0} /\ o \in Nat /\ Len(packets) \in Nat /\ pkts_available \in Nat
         /\ Returned(l, o) \in Nat /\ Had(l, o) \in Nat
         /\ Had(l, o) = Returned(l, o) + pkts_available * l
<1>1. l \in Nat \ {0} /\ o \in Nat  BY Lengths
<1>2. Len(packets) \in Nat /\ pkts_available \in Nat
  BY LenProperties, WriterAssumption DEF ReaderInv, TypeOK
<1>3. /\ (Len(packets) + pkts_available) * l = Len(packets) * l + pkts_available * l
      /\ Len(packets) * l \in Nat /\ pkts_available * l \in Nat
  BY <1>1, <1>2, SumTimes
<1>4. Had(l, o) = Returned(l, o) + pkts_available * l  BY <1>1, <1>3 DEF Had, Returned
<1>5. Returned(l, o) \in Nat  BY <1>1, <1>3 DEF Returned
<1>6. QED  BY <1>1, <1>2, <1>3, <1>4, <1>5

(* Where the reading stands once readTsPacket has made sure of a packet. *)
ReadTo == IF pkts_available = 0 /\ Unread > 0 THEN ReadUpTo(Unread) ELSE position

(* What readTsPacket takes from is the next of the file, and it finds no     *)
(* packet only where less than one is left.                                  *)
LEMMA BlockFollows ==
  ASSUME ReaderInv, reader = "ready", NEW l \in PacketLengths, NEW o \in 0 .. l - 1, Following(l, o),
         NEW next \in Nat, next = Returned(l, o) + Number * l
  PROVE  /\ next <= Len(infile)
         /\ Buffer = SubSeq(infile, Returned(l, o) + 1, next)
         /\ ReadTo = next \/ (ReadTo = Len(infile) /\ Len(infile) < next + l)
         /\ Number = 0 => Len(infile) < next + l
<1>0. /\ readLength = l /\ l \in Nat \ {0} /\ Had(l, o) <= Len(infile)
      /\ readBuffer = SubSeq(infile, Returned(l, o) + 1, Had(l, o))
      /\ position = Had(l, o) \/ (position = Len(infile) /\ Len(infile) < Had(l, o) + l)
      /\ Had(l, o) \in Nat /\ Returned(l, o) \in Nat /\ Had(l, o) = Returned(l, o) + pkts_available * l
  BY WhatIsHad DEF Following
<1>1. position \in Nat /\ Len(infile) \in Nat /\ MAX_NUM_PACKETS \in Nat \ {0} /\ infile \in Seq(Byte)
      /\ pkts_available \in Nat
  BY ReaderTypes
<1>2. CASE pkts_available # 0
  <2>1. Number = pkts_available /\ Buffer = readBuffer /\ ReadTo = position
    BY <1>2 DEF Number, Buffer, ReadTo
  <2>2. next = Had(l, o)  BY <1>0, <2>1
  <2>3. QED  BY <1>0, <1>2, <2>1, <2>2
<1>3. CASE pkts_available = 0
  <2>0. pkts_available * l = 0  BY <1>0, <1>3
  <2>1. Had(l, o) = Returned(l, o)  BY <1>0, <2>0
  <2>2. Unread = Len(infile) - position  BY DEF Unread
  <2>3. Number = PacketsOf(Unread) /\ Buffer = SubSeq(infile, position + 1, position + Number * l)
    BY <1>0, <1>3 DEF Number, Buffer
  <2>4. Number \in Nat /\ Number <= MAX_NUM_PACKETS /\ Number * l \in Nat
    BY <1>0, BufferType, SumTimes
  <2>5. CASE position = Had(l, o)
    <3>1. next = position + Number * l  BY <2>1, <2>5
    <3>2. Buffer = SubSeq(infile, Returned(l, o) + 1, next)  BY <2>1, <2>3, <2>5, <3>1
    <3>3. next <= Len(infile)
      <4>1. CASE Number = 0
        <5>1. Number * l = 0  BY <4>1, <1>0
        <5>2. QED  BY <1>0, <1>1, <2>5, <3>1, <5>1
      <4>2. CASE Number # 0  BY <1>0, <2>3, <3>1, <4>2, BlockFits
      <4>3. QED  BY <4>1, <4>2
    <3>4. CASE Number = MAX_NUM_PACKETS
      <4>1. Unread > 0  BY <1>1, <2>3, <3>4, BlockFits
      <4>2. ReadTo = ReadUpTo(Unread)  BY <1>3, <4>1 DEF ReadTo
      <4>3. position + MAX_NUM_PACKETS * readLength = next  BY <1>0, <3>1, <3>4
      <4>4. ReadTo = next  BY <3>3, <4>1, <4>2, <4>3, ReadsUpTo
      <4>5. Number # 0  BY <1>1, <3>4
      <4>6. QED  BY <3>2, <3>3, <4>4, <4>5
    <3>5. CASE Number # MAX_NUM_PACKETS
      <4>1. Unread < Number * l + l  BY <1>0, <2>3, <3>5, BlockFits
      <4>2. Len(infile) < next + l  BY <1>0, <1>1, <2>2, <2>4, <3>1, <4>1
      <4>3. CASE Unread > 0
        <5>1. ReadTo = ReadUpTo(Unread)  BY <1>3, <4>3 DEF ReadTo
        <5>2. Number + 1 \in Nat /\ Number + 1 <= MAX_NUM_PACKETS  BY <1>1, <2>4, <3>5
        <5>3. (Number + 1) * l <= MAX_NUM_PACKETS * l /\ MAX_NUM_PACKETS * l \in Nat
          BY <1>0, <1>1, <5>2, NoMore, SumTimes
        <5>4. (Number + 1) * l = Number * l + l
          <6>1. (Number + 1) * l = Number * l + 1 * l  BY <1>0, <2>4, SumTimes
          <6>2. 1 * l = l  BY <1>0
          <6>3. QED  BY <6>1, <6>2
        <5>5. Len(infile) < position + MAX_NUM_PACKETS * l
          <6> DEFINE some == Number * l
                     all  == MAX_NUM_PACKETS * l
          <6>1. some \in Nat /\ all \in Nat /\ some + l <= all  BY <2>4, <5>3, <5>4
          <6>2. Unread < some + l  BY <4>1
          <6> HIDE DEF some, all
          <6>3. Len(infile) < position + all  BY <1>0, <1>1, <2>2, <6>1, <6>2
          <6>4. QED  BY <6>3 DEF all
        <5>6. ReadTo = Len(infile)
          <6>1. ~(position + MAX_NUM_PACKETS * readLength <= Len(infile))
            BY <1>0, <1>1, <5>3, <5>5
          <6>2. QED  BY <4>3, <5>1, <6>1, ReadsUpTo
        <5>7. QED  BY <3>2, <3>3, <4>2, <5>6
      <4>4. CASE ~(Unread > 0)
        <5>1. ReadTo = position  BY <4>4 DEF ReadTo
        <5>2. position = Len(infile)  BY <1>0, <1>1, <2>2, <2>5, <4>4
        <5>3. QED  BY <3>2, <3>3, <4>2, <5>1, <5>2
      <4>5. QED  BY <4>3, <4>4
    <3>6. QED  BY <3>4, <3>5
  <2>6. CASE position = Len(infile) /\ Len(infile) < Had(l, o) + l
    <3>1. Unread = 0  BY <1>1, <2>2, <2>6
    <3>2. Number = 0  BY <2>3, <3>1 DEF PacketsOf
    <3>3. Number * l = 0  BY <1>0, <3>2
    <3>4. next = Returned(l, o)  BY <1>0, <3>3
    <3>5. Buffer = <<>>
      <4>1. position + Number * l < position + 1  BY <1>1, <3>3
      <4>2. QED  BY <1>1, <2>3, <3>3, <4>1, SubSeqEmpty
    <3>6. SubSeq(infile, Returned(l, o) + 1, next) = <<>>  BY <1>0, <1>1, <3>4, SubSeqEmpty, SMTT(40)
    <3>7. ReadTo = position  BY <3>1 DEF ReadTo
    <3>8. next <= Len(infile) /\ Len(infile) < next + l  BY <1>0, <2>1, <2>6, <3>4
    <3>9. QED  BY <2>6, <3>5, <3>6, <3>7, <3>8
  <2>7. QED  BY <1>0, <2>5, <2>6
<1>4. QED  BY <1>2, <1>3

(* A call of readTsPacket keeps to the file. *)
LEMMA FollowsOn ==
  ASSUME ReaderInv, readTsPacket, NEW l \in PacketLengths, NEW o \in 0 .. l - 1, Following(l, o)
  PROVE  Following(l, o)'
<1> DEFINE had  == Returned(l, o)
           next == had + Number * l
<1>0. /\ reader = "ready" /\ infile' = infile /\ readLength' = readLength
      /\ position' = ReadTo
  BY ReadStep DEF ReadTo
<1>1. /\ readLength = l /\ l \in Nat \ {0} /\ o \in Nat /\ had \in Nat /\ Len(packets) \in Nat
      /\ Len(packets) * l \in Nat /\ had = o + Len(packets) * l
  BY WhatIsHad, SumTimes DEF Following, Returned
<1>2. Number \in Nat /\ Number * l \in Nat /\ next \in Nat
  BY <1>0, <1>1, BufferType, SumTimes
<1>3. /\ next <= Len(infile) /\ Buffer = SubSeq(infile, had + 1, next)
      /\ ReadTo = next \/ (ReadTo = Len(infile) /\ Len(infile) < next + l)
      /\ Number = 0 => Len(infile) < next + l
  BY <1>0, <1>2, BlockFollows
<1>4. infile \in Seq(Byte) /\ Len(infile) \in Nat /\ packets \in Seq(Seq(Byte))
  BY <1>0, ReaderTypes
<1>5. PacketsAre(l, o)  BY DEF Following
<1> HIDE DEF had
<1>6. CASE Number = 0
  <2>1. reader' = "end" /\ packets' = packets /\ pkts_available' = 0 /\ readBuffer' = <<>>
    BY <1>6, ReadStep
  <2>2. Number * l = 0  BY <1>1, <1>6
  <2>3. next = had  BY <1>1, <2>2
  <2>4. Returned(l, o)' = had  BY <1>1, <2>1 DEF Returned
  <2>5. Had(l, o)' = had
    <3>1. (Len(packets) + 0) * l = Len(packets) * l  BY <1>1
    <3>2. QED  BY <1>1, <2>1, <3>1 DEF Had
  <2>6. SubSeq(infile, had + 1, had) = <<>>  BY <1>1, SubSeqEmpty
  <2>7. Len(packets) = (Len(infile) - o) \div l
    <3> DEFINE whole == Len(packets) * l
    <3>1. whole \in Nat /\ had = o + whole /\ had <= Len(infile) /\ Len(infile) < had + l
      BY <1>1, <1>3, <1>6, <2>3
    <3> HIDE DEF whole
    <3>2. Len(infile) - o \in Nat /\ whole <= Len(infile) - o /\ Len(infile) - o < whole + l
      BY <1>1, <1>4, <3>1
    <3>3. QED  BY <1>1, <3>2, QuotientIs DEF whole
  <2>8. PacketsAre(l, o)'  BY <1>0, <1>5, <2>1 DEF PacketsAre
  <2>9. position' = had \/ (position' = Len(infile') /\ Len(infile') < had + l)
    BY <1>0, <1>3, <2>3
  <2>10. had <= Len(infile') /\ readBuffer' = SubSeq(infile', had + 1, had)
    BY <1>0, <1>3, <2>1, <2>3, <2>6
  <2>11. readLength' = l /\ Len(packets') = (Len(infile') - o) \div l
    BY <1>0, <1>1, <2>1, <2>7
  <2>12. QED  BY <2>1, <2>4, <2>5, <2>8, <2>9, <2>10, <2>11 DEF Following
<1>7. CASE Number # 0
  <2>1. /\ reader' = "ready" /\ packets' = Append(packets, SubSeq(Buffer, 1, l))
        /\ pkts_available' = Number - 1 /\ readBuffer' = SubSeq(Buffer, l + 1, Len(Buffer))
    BY <1>1, <1>7, ReadStep
  <2>2. Len(Buffer) = Number * l /\ l <= Number * l /\ SubSeq(Buffer, 1, l) \in Seq(Byte)
    BY <1>0, <1>1, <1>7, BufferType, BufferParts
  <2>3. Len(packets') = Len(packets) + 1
    BY <1>4, <2>1, <2>2, AppendProperties
  <2>4. (Len(packets) + 1) * l = Len(packets) * l + l
    <3>1. (Len(packets) + 1) * l = Len(packets) * l + 1 * l  BY <1>1, SumTimes
    <3>2. 1 * l = l  BY <1>1
    <3>3. QED  BY <3>1, <3>2
  <2>5. Returned(l, o)' = had + l
    <3>1. Returned(l, o)' = o + (Len(packets) + 1) * l  BY <2>3 DEF Returned
    <3>2. QED  BY <1>1, <2>4, <3>1
  <2>6. Had(l, o)' = next
    <3>1. Len(packets') + pkts_available' = Len(packets) + Number  BY <1>1, <1>2, <2>1, <2>3
    <3>2. (Len(packets) + Number) * l = Len(packets) * l + Number * l  BY <1>1, <1>2, SumTimes
    <3>3. Had(l, o)' = o + (Len(packets) + Number) * l  BY <3>1 DEF Had
    <3>4. QED  BY <1>1, <1>2, <3>2, <3>3
  <2>7. readBuffer' = SubSeq(infile', had + l + 1, next)
    <3> DEFINE all == Number * l
    <3>1. all \in Nat /\ l <= all /\ next = had + all /\ all <= next - had /\ had <= next
          /\ readBuffer' = SubSeq(Buffer, l + 1, all)
      BY <1>1, <1>2, <2>1, <2>2
    <3> HIDE DEF all, next
    <3>2. SubSeq(SubSeq(infile, had + 1, next), l + 1, all) = SubSeq(infile, had + l + 1, had + all)
      BY <1>1, <1>2, <1>3, <1>4, <3>1, PartOfPart, SMTT(40)
    <3>3. QED  BY <1>0, <1>3, <3>1, <3>2
  <2>8. SubSeq(Buffer, 1, l) = SubSeq(infile, had + 1, had + l)
    <3> DEFINE all == Number * l
    <3>1. all \in Nat /\ l <= all /\ next = had + all /\ l <= next - had /\ had <= next /\ 0 \in Nat /\ 0 <= l
      BY <1>1, <1>2, <2>2
    <3> HIDE DEF all, next
    <3>2. SubSeq(SubSeq(infile, had + 1, next), 0 + 1, l) = SubSeq(infile, had + 0 + 1, had + l)
      BY <1>1, <1>2, <1>3, <1>4, <3>1, PartOfPart
    <3>3. 0 + 1 = 1 /\ had + 0 + 1 = had + 1  BY <1>1
    <3>4. QED  BY <1>3, <3>2, <3>3
  <2>9. PacketsAre(l, o)'
    <3>1. SUFFICES ASSUME NEW k \in DOMAIN packets'
                   PROVE  packets'[k] = SubSeq(infile, o + (k - 1) * l + 1, o + k * l)
      BY <1>0 DEF PacketsAre
    <3>2. packets' \in Seq(Seq(Byte)) /\ k \in 1 .. Len(packets) + 1
      BY <1>4, <2>1, <2>2, AppendProperties
    <3>3. CASE k \in 1 .. Len(packets)
      <4>1. packets'[k] = packets[k] /\ k \in DOMAIN packets
        BY <1>4, <2>1, <2>2, <3>3, AppendProperties
      <4>2. QED  BY <1>5, <4>1 DEF PacketsAre
    <3>4. CASE k = Len(packets) + 1
      <4>1. packets'[k] = SubSeq(infile, had + 1, had + l)
        <5>1. Append(packets, SubSeq(Buffer, 1, l))[Len(packets) + 1] = SubSeq(Buffer, 1, l)
          BY <1>4, <2>2, AppendProperties
        <5>2. QED  BY <2>1, <2>8, <3>4, <5>1
      <4>2. k - 1 = Len(packets)  BY <1>1, <3>4
      <4>3. o + (k - 1) * l + 1 = had + 1  BY <1>1, <4>2
      <4>4. o + k * l = had + l  BY <1>1, <2>4, <3>4
      <4>5. QED  BY <4>1, <4>3, <4>4
    <3>5. QED  BY <1>1, <3>2, <3>3, <3>4
  <2>10. position' = next \/ (position' = Len(infile') /\ Len(infile') < next + l)
    BY <1>0, <1>3
  <2>11. next <= Len(infile') /\ readLength' = l  BY <1>0, <1>1, <1>3
  <2>12. QED  BY <2>1, <2>5, <2>6, <2>7, <2>9, <2>10, <2>11 DEF Following
<1>8. QED  BY <1>6, <1>7

LEMMA FollowStep ==
  ASSUME FollowInv, [Next]_vars
  PROVE  FollowInv'
<1>1. ReaderInv /\ ReaderInv'  BY ReaderStep DEF FollowInv
<1>2. SUFFICES ASSUME NEW l \in PacketLengths, NEW o \in 0 .. l - 1, CleanFile(l, o)', Begins(o, l)',
                      reader' \notin {"none", "opened"}
               PROVE  Following(l, o)'
  BY <1>1 DEF FollowInv, PacketLengths
<1>3. ASSUME infile' = infile PROVE CleanFile(l, o) /\ Begins(o, l)
  BY <1>2, <1>3 DEF CleanFile, Begins, IsSync, InFile, IsSyncByte
<1>4. ASSUME UNCHANGED readerVars PROVE Following(l, o)'
  <2>1. Following(l, o)  BY <1>2, <1>3, <1>4 DEF FollowInv, readerVars
  <2>2. QED  BY <1>4, <2>1 DEF readerVars, Following, Had, Returned, PacketsAre
<1>5. CASE Writer  BY <1>4, <1>5 DEF Writer
<1>6. CASE \E cut \in 0 .. Ts204Byte : OpenFile(cut)
  BY <1>2, <1>6 DEF OpenFile
<1>7. CASE SyncToTSHeader
  <2>1. /\ reader = "opened" /\ AtStart /\ infile' = infile /\ readBuffer' = <<>> /\ pkts_available' = 0
        /\ packets' = <<>>
    BY <1>1, <1>7 DEF SyncToTSHeader, AtStart, ReaderInv
  <2>2. CleanFile(l, o) /\ Begins(o, l) /\ infile \in Seq(Byte) /\ Len(infile) \in Nat
    BY <1>1, <1>3, <2>1, LenProperties DEF ReaderInv, TypeOK
  <2>3. SomethingBegins /\ \A stop \in Stops : stop[1] = o /\ stop[2] = l
    BY <2>2, StopsAtFirst
  <2>4. position' = o /\ readLength' = l /\ reader' = "ready"
    BY <1>7, <2>3 DEF SyncToTSHeader
  <2>5. l \in Nat /\ o \in Nat /\ o <= Len(infile)
    <3>1. l \in Nat /\ o \in Nat /\ o + 0 * l = o  BY Lengths
    <3>2. IsSync(o + 0 * l)  BY <2>2 DEF Begins
    <3>3. QED  BY <2>2, <3>1, <3>2 DEF IsSync, InFile
  <2>6. Len(packets') = 0 /\ DOMAIN packets' = {}  BY <2>1
  <2>7. 0 * l = 0 /\ (0 + 0) * l = 0  BY <2>5
  <2>8. Returned(l, o)' = o /\ Had(l, o)' = o
    BY <2>1, <2>5, <2>6, <2>7 DEF Returned, Had
  <2>9. SubSeq(infile, o + 1, o) = <<>>  BY <2>5, SubSeqEmpty
  <2>10. PacketsAre(l, o)'  BY <2>6 DEF PacketsAre
  <2>11. QED  BY <2>1, <2>4, <2>5, <2>8, <2>9, <2>10 DEF Following
<1>8. CASE readTsPacket
  <2>1. reader = "ready" /\ infile' = infile  BY <1>1, <1>8, ReadStep
  <2>2. Following(l, o)  BY <1>2, <1>3, <2>1 DEF FollowInv
  <2>3. QED  BY <1>1, <1>8, <2>2, FollowsOn
<1>9. CASE UNCHANGED vars  BY <1>4, <1>9 DEF vars
<1>10. QED  BY <1>5, <1>6, <1>7, <1>8, <1>9 DEF Next, Reader

(* fileReader.h: from a file of packets of one length with at least three    *)
(* complete ones, SyncToTSHeader finds the first and the length, and         *)
(* readTsPacket returns every complete packet once and in order, whatever    *)
(* the capacity of the buffer that the blocks are read into, and returns 0   *)
(* only when they are all returned: that many, or one more, is what          *)
(* getTotalNumberOfPackets says.                                             *)
THEOREM PacketsAreThoseHolds == Spec => []PacketsAreThoseOfTheFile
<1>1. Init => FollowInv  BY ReaderInit DEF FollowInv, Init
<1>2. FollowInv /\ [Next]_vars => FollowInv'  BY FollowStep
<1>3. FollowInv => PacketsAreThoseOfTheFile
  <2>1. SUFFICES ASSUME FollowInv, NEW l \in PacketLengths, NEW o \in 0 .. l - 1,
                        CleanFile(l, o), Begins(o, l), reader \notin {"none", "opened"}
                 PROVE  /\ reader # "lost" /\ PacketsAre(l, o)
                        /\ reader = "end" =>
                             /\ Len(packets) = (Len(infile) - o) \div l
                             /\ getTotalNumberOfPackets \in {Len(packets), Len(packets) + 1}
    BY DEF PacketsAreThoseOfTheFile, PacketsAre
  <2>2. Following(l, o)  BY <2>1 DEF FollowInv
  <2>3. l \in Nat \ {0} /\ Len(infile) \in Nat /\ o <= Len(infile)
    <3>1. l \in Nat \ {0} /\ o \in Nat /\ o + 0 * l = o  BY Lengths
    <3>2. IsSync(o + 0 * l)  BY <2>1 DEF Begins
    <3>3. Len(infile) \in Nat  BY <2>1, LenProperties DEF FollowInv, ReaderInv, TypeOK
    <3>4. QED  BY <3>1, <3>2, <3>3 DEF IsSync, InFile
  <2>4. Len(infile) \div l \in {(Len(infile) - o) \div l, (Len(infile) - o) \div l + 1}
    BY <2>3, OneMore
  <2>5. QED  BY <2>2, <2>4 DEF Following, getTotalNumberOfPackets
<1>4. QED  BY <1>1, <1>2, <1>3, PTL DEF Spec
=============================================================================
