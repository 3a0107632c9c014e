-------------------------- MODULE AC3Decoder_proofs --------------------------
(***************************************************************************)
(* Proofs about AC3Decoder.  The invariant that carries them says that the *)
(* buffer is always the end of what has been fed (IsSuffix): whatever the  *)
(* decoder takes, skips or throws away, it takes from the front.           *)
(*                                                                         *)
(* Then about AC3Stream, the decoder behind a stream that is cut into PES  *)
(* packets of which some are lost: for every stream, every way of cutting  *)
(* it and every pattern of losses.                                         *)
(***************************************************************************)
EXTENDS AC3Stream, FiniteSetTheorems, Sums_proofs

IsSuffix(s, t) ==
  /\ s \in Seq(Byte) /\ t \in Seq(Byte)
  /\ Len(s) <= Len(t)
  /\ \A j \in 1 .. Len(s) : s[j] = t[Len(t) - Len(s) + j]

(* A frame whose header the buffer begins with. *)
Headed(buf) ==
  /\ Len(buf) > HeaderSize
  /\ SyncAt(buf, 1) /\ LegalHeader(buf, 1)

IInv == TypeOK /\ IsSuffix(esBuffer, fed) /\ FramesAreCut /\ NothingLeftBehind

-----------------------------------------------------------------------------
(* The invariant of a decoder behind a stream with losses.                 *)

StreamTypeOK ==
  /\ stream \in Streams
  /\ sent \in 0 .. Len(Bytes)
  /\ lost \in Nat
  /\ origin \in Seq(Nat) /\ Len(origin) = Len(fed)

(* What was fed is what the stream has at the places in origin, which rise. *)
Carried ==
  /\ \A i \in 1 .. Len(fed) : origin[i] \in 1 .. sent /\ fed[i] = Bytes[origin[i]]
  /\ \A i, j \in 1 .. Len(fed) : i < j => j - i <= origin[j] - origin[i]
  /\ lost = 0 => sent = Len(fed) /\ \A i \in 1 .. Len(fed) : origin[i] = i

(* Where bytes are missing. *)
Gaps == {g \in 1 .. Len(fed) - 1 : origin[g + 1] # origin[g] + 1}

BrokenAtGaps ==
  \A i, j \in 1 .. Len(fed) :
    i < j /\ ~Unbroken(i, j) => \E g \in Gaps : i <= g /\ g < j

(* Every gap costs a loss, and what is lost now makes the next one. *)
GapsAreLosses ==
  /\ Cardinality(Gaps) <= lost
  /\ fed # <<>> /\ sent # origin[Len(fed)] => Cardinality(Gaps) < lost

SplitIsKnown ==
  \A f \in Frames :
    fed # <<>> /\ origin[Len(fed)] - f.at \in 1 .. HeaderSize - 1 => f \in split

(* The decoder took the frame that begins at i in fed. *)
TakenAt(i, f) == \E k \in 1 .. Len(frames) : frames[k] = [at |-> i - 1, size |-> f.size]

(* Without losses and split headers no frame is cut into, and those the      *)
(* decoder is past are the ones it took.                                     *)
WholeFramesAreTaken ==
  lost = 0 /\ split = {} =>
    /\ \A f \in Frames :
         \/ Consumed <= f.at
         \/ f.at + f.size <= Consumed /\ TakenAt(f.at + 1, f)
    /\ \A k \in 1 .. Len(frames) : frames[k] \in Frames

(* Nothing is missing between a frame length in front of i and the end of f, *)
(* which begins at i, as far as it has arrived.                              *)
Undisturbed(i, f) ==
  \A j \in 1 .. Len(fed) :
    i - LongestFrame <= j /\ j < i + f.size => origin[j] - origin[i] = j - i

(* The decoder is not past such a frame, or took it. *)
UndisturbedIsTaken ==
  Unambiguous =>
    \A f \in Frames \ split : \A i \in 1 .. Len(fed) :
      origin[i] = f.at + 1 /\ Undisturbed(i, f) => Consumed < i \/ TakenAt(i, f)

StreamInv ==
  /\ IInv /\ StreamTypeOK /\ Carried /\ BrokenAtGaps /\ GapsAreLosses
  /\ SplitIsKnown /\ WholeFramesAreTaken /\ UndisturbedIsTaken

-----------------------------------------------------------------------------
(* Sequences and numbers.                                                  *)

LEMMA SuffixOfItself ==
  ASSUME NEW s \in Seq(Byte)
  PROVE  IsSuffix(s, s)
BY LenProperties DEF IsSuffix

LEMMA SuffixOfSuffix ==
  ASSUME NEW s, NEW t, NEW u, IsSuffix(s, t), IsSuffix(t, u)
  PROVE  IsSuffix(s, u)
<1>1. /\ Len(s) \in Nat /\ Len(t) \in Nat /\ Len(u) \in Nat
      /\ Len(s) <= Len(t) /\ Len(t) <= Len(u)
  BY LenProperties DEF IsSuffix
<1>2. ASSUME NEW j \in 1 .. Len(s)
      PROVE  s[j] = u[Len(u) - Len(s) + j]
  <2>1. s[j] = t[Len(t) - Len(s) + j] /\ Len(t) - Len(s) + j \in 1 .. Len(t)
    BY <1>1 DEF IsSuffix
  <2>2. t[Len(t) - Len(s) + j] = u[Len(u) - Len(t) + (Len(t) - Len(s) + j)]
    BY <1>1, <2>1 DEF IsSuffix
  <2>3. Len(u) - Len(t) + (Len(t) - Len(s) + j) = Len(u) - Len(s) + j
    BY <1>1
  <2>4. QED BY <2>1, <2>2, <2>3
<1>3. QED BY <1>1, <1>2 DEF IsSuffix

LEMMA FromIsSuffix ==
  ASSUME NEW s \in Seq(Byte), NEW i \in 1 .. Len(s) + 1
  PROVE  IsSuffix(From(s, i), s) /\ Len(From(s, i)) = Len(s) - i + 1
<1>1. Len(s) \in Nat
  BY LenProperties
<1>2. \A k \in i .. Len(s) : s[k] \in Byte
  BY <1>1, ElementOfSeq
<1> DEFINE t == From(s, i)
<1>3. /\ t \in Seq(Byte)
      /\ Len(t) = IF i <= Len(s) THEN Len(s) - i + 1 ELSE 0
      /\ \A j \in 1 .. Len(s) - i + 1 : t[j] = s[i + j - 1]
  BY <1>1, <1>2, SubSeqProperties DEF From
<1> HIDE DEF t
<1>4. Len(t) = Len(s) - i + 1
  BY <1>1, <1>3
<1>5. ASSUME NEW j \in 1 .. Len(t)
      PROVE  t[j] = s[Len(s) - Len(t) + j]
  <2>1. j \in 1 .. Len(s) - i + 1
    BY <1>4
  <2>2. t[j] = s[i + j - 1]
    BY <1>3, <2>1
  <2>3. i + j - 1 = Len(s) - Len(t) + j
    BY <1>1, <1>4, <2>1
  <2>4. QED BY <2>2, <2>3
<1>6. IsSuffix(t, s)
  <2>1. Len(t) <= Len(s)
    BY <1>1, <1>4
  <2>2. QED BY <1>3, <1>5, <2>1 DEF IsSuffix
<1>7. QED BY <1>4, <1>6 DEF t

-----------------------------------------------------------------------------
(* FindSyncWord.                                                           *)

LEMMA SyncPositionIs ==
  ASSUME NEW buf \in Seq(Byte), Len(buf) >= HeaderSize
  PROVE  /\ SyncPosition(buf) \in 1 .. Len(buf)
         /\ SyncPosition(buf) # Len(buf) => StopsAt(buf, SyncPosition(buf))
         /\ \A j \in 1 .. SyncPosition(buf) - 1 : ~StopsAt(buf, j)
<1>1. Len(buf) \in Nat /\ Len(buf) >= 6
  BY LenProperties DEF HeaderSize
<1>2. CASE \E i \in 1 .. Len(buf) : StopsAt(buf, i)
  <2> DEFINE T == {i \in 1 .. Len(buf) : StopsAt(buf, i)}
  <2>1. T \in SUBSET Nat /\ T # {}
    BY <1>2
  <2>2. PICK n \in T : \A m \in T : n <= m
    BY <2>1, LeastOf
  <2>3. n \in 1 .. Len(buf) /\ StopsAt(buf, n) /\ \A j \in 1 .. n - 1 : ~StopsAt(buf, j)
    BY <1>1, <2>2
  <2>4. \E i \in 1 .. Len(buf) : StopsAt(buf, i) /\ \A j \in 1 .. i - 1 : ~StopsAt(buf, j)
    BY <2>3
  <2>5. /\ SyncPosition(buf) \in 1 .. Len(buf) /\ StopsAt(buf, SyncPosition(buf))
        /\ \A j \in 1 .. SyncPosition(buf) - 1 : ~StopsAt(buf, j)
    BY <1>2, <2>4, Zenon DEF SyncPosition
  <2>6. QED BY <2>5
<1>3. CASE ~\E i \in 1 .. Len(buf) : StopsAt(buf, i)
  BY <1>1, <1>3 DEF SyncPosition
<1>4. QED BY <1>2, <1>3

(* What FindSyncWord leaves is the end of what it was given; it says found   *)
(* only in front of a legal header.                                          *)
LEMMA FindSyncWordIs ==
  ASSUME NEW buf \in Seq(Byte)
  PROVE  /\ IsSuffix(FindSyncWord(buf).buffer, buf)
         /\ FindSyncWord(buf).status = "SYNC_FOUND" => Headed(FindSyncWord(buf).buffer)
         /\ FindSyncWord(buf).status # "SYNC_FOUND" => Len(FindSyncWord(buf).buffer) <= HeaderSize
<1>1. Len(buf) \in Nat
  BY LenProperties
<1>2. CASE Len(buf) < HeaderSize
  BY <1>1, <1>2, SuffixOfItself DEF FindSyncWord, HeaderSize
<1>3. CASE ~(Len(buf) < HeaderSize)
  <2> DEFINE pos == SyncPosition(buf)
             rest == From(buf, pos)
  <2>1. pos \in 1 .. Len(buf) /\ (pos # Len(buf) => StopsAt(buf, pos))
    BY <1>1, <1>3, SyncPositionIs DEF HeaderSize
  <2>2. IsSuffix(rest, buf) /\ Len(rest) = Len(buf) - pos + 1
    BY <1>1, <2>1, FromIsSuffix
  <2>3. /\ FindSyncWord(buf).buffer = rest
        /\ FindSyncWord(buf).status =
             IF Len(rest) > HeaderSize THEN "SYNC_FOUND" ELSE "SYNC_INCOMPLETE"
    BY <1>3 DEF FindSyncWord
  <2>4. ASSUME Len(rest) > HeaderSize PROVE Headed(rest)
    <3> HIDE DEF pos, rest
    <3>1. pos # Len(buf) /\ StopsAt(buf, pos) /\ Len(buf) - pos + 1 > 6
      BY <1>1, <2>1, <2>2, <2>4 DEF HeaderSize
    <3>2. /\ buf[pos] = Sync0 /\ buf[pos + 1] = Sync1
          /\ buf[pos + 4] \in DOMAIN FrameWords /\ buf[pos + 5] \in Bsid8
      BY <3>1 DEF StopsAt, SyncAt, LegalHeader, HeaderSize
    <3>3. \A j \in 1 .. 6 : rest[j] = buf[pos + j - 1]
      <4>1. ASSUME NEW j \in 1 .. 6 PROVE rest[j] = buf[pos + j - 1]
        <5>1. rest[j] = buf[Len(buf) - Len(rest) + j]
          BY <1>1, <2>1, <2>2, <3>1 DEF IsSuffix
        <5>2. Len(buf) - Len(rest) + j = pos + j - 1
          BY <1>1, <2>1, <2>2
        <5>3. QED BY <5>1, <5>2
      <4>2. QED BY <4>1
    <3>4. rest[1] = buf[pos] /\ rest[2] = buf[pos + 1] /\ rest[5] = buf[pos + 4] /\ rest[6] = buf[pos + 5]
      BY <2>1, <3>3
    <3>5. SyncAt(rest, 1)
      BY <1>1, <2>1, <2>2, <3>1, <3>2, <3>4 DEF SyncAt
    <3>6. LegalHeader(rest, 1)
      BY <3>2, <3>4 DEF LegalHeader
    <3>7. QED BY <2>4, <3>5, <3>6 DEF Headed
  <2>5. Len(rest) \in Nat
    BY <2>2, LenProperties DEF IsSuffix
  <2> HIDE DEF pos, rest
  <2>6. QED BY <2>2, <2>3, <2>4, <2>5 DEF HeaderSize
<1>4. QED BY <1>2, <1>3

(* The length of a frame whose header is in front. *)
LEMMA FrameLengthIs ==
  ASSUME NEW buf, LegalHeader(buf, 1)
  PROVE  /\ FrameLength(buf) = 2 * FrameWords[buf[5]]
         /\ FrameLength(buf) \in Nat /\ FrameLength(buf) > 6
         /\ FrameLength(buf) \in FrameSizes
<1>1. buf[5] \in DOMAIN FrameWords
  BY DEF LegalHeader
<1>2. FrameWords[buf[5]] \in Nat /\ 2 * FrameWords[buf[5]] > 6
  BY <1>1, FrameAssumption DEF HeaderSize
<1>3. QED BY <1>1, <1>2 DEF FrameLength, FrameSizes

LEMMA FrameSizeIs ==
  ASSUME NEW n \in FrameSizes
  PROVE  n \in Nat /\ n > 6
<1>1. PICK c \in DOMAIN FrameWords : n = 2 * FrameWords[c]
  BY DEF FrameSizes
<1>2. FrameWords[c] \in Nat /\ 2 * FrameWords[c] > 6
  BY FrameAssumption DEF HeaderSize
<1>3. QED BY <1>1, <1>2

(* What lies below a point up to which two sequences agree. *)
LEMMA SameFrame ==
  ASSUME NEW s \in Seq(Byte), NEW t \in Seq(Byte), Len(s) <= Len(t),
         \A k \in 1 .. Len(s) : t[k] = s[k],
         NEW a \in Nat, NEW n \in FrameSizes, a + n <= Len(s)
  PROVE  /\ t[a + 1] = s[a + 1] /\ t[a + 2] = s[a + 2] /\ t[a + 5] = s[a + 5]
         /\ LegalHeader(t, a + 1) <=> LegalHeader(s, a + 1)
<1>1. Len(s) \in Nat /\ Len(t) \in Nat /\ n \in Nat /\ n > 6
  BY LenProperties, FrameSizeIs
<1>2. /\ a + 1 \in 1 .. Len(s) /\ a + 2 \in 1 .. Len(s)
      /\ a + 5 \in 1 .. Len(s) /\ a + 6 \in 1 .. Len(s)
  BY <1>1
<1>3. t[a + 1] = s[a + 1] /\ t[a + 2] = s[a + 2] /\ t[a + 5] = s[a + 5] /\ t[a + 6] = s[a + 6]
  BY <1>2
<1>4. a + 1 + 4 = a + 5 /\ a + 1 + 5 = a + 6
  OBVIOUS
<1>5. QED BY <1>3, <1>4 DEF LegalHeader

-----------------------------------------------------------------------------
(* The frames already returned, when more is fed or more is consumed.        *)

LEMMA FramesStay ==
  ASSUME FramesAreCut, fed \in Seq(Byte), fed' \in Seq(Byte),
         frames \in Seq([at : Nat, size : FrameSizes]),
         Len(fed) <= Len(fed'), \A k \in 1 .. Len(fed) : fed'[k] = fed[k],
         NEW c \in Int, NEW d \in Int, c = Consumed, d = Consumed', c <= d,
         frames' = frames
  PROVE  FramesAreCut'
<1>1. Len(fed) \in Nat /\ Len(fed') \in Nat /\ Len(frames) \in Nat
  BY LenProperties
<1>2. ASSUME NEW i \in 1 .. Len(frames)
      PROVE  FrameOf(frames[i])' /\ (frames[i].at + frames[i].size <= Consumed)'
  <2> DEFINE a == frames[i].at
             n == frames[i].size
  <2>1. a \in Nat /\ n \in FrameSizes
    <3>1. frames[i] \in [at : Nat, size : FrameSizes]
      BY ElementOfSeq
    <3>2. QED BY <3>1
  <2>2. /\ a + n <= Len(fed) /\ a + n <= c
        /\ fed[a + 1] = Sync0 /\ fed[a + 2] = Sync1
        /\ LegalHeader(fed, a + 1)
        /\ n = 2 * FrameWords[fed[a + 5]]
    BY DEF FramesAreCut, FrameOf
  <2> HIDE DEF a, n
  <2>3. /\ fed'[a + 1] = fed[a + 1] /\ fed'[a + 2] = fed[a + 2] /\ fed'[a + 5] = fed[a + 5]
        /\ LegalHeader(fed', a + 1)
    BY <2>1, <2>2, SameFrame
  <2>4. n \in Nat
    BY <2>1, FrameSizeIs
  <2>5. a + n <= Len(fed') /\ a + n <= d
    <3>1. a \in Nat
      BY <2>1
    <3>2. a + n <= Len(fed) /\ a + n <= c
      BY <2>2
    <3>3. a + n \in Nat
      BY <2>4, <3>1
    <3>4. QED BY <1>1, <3>2, <3>3
  <2>6. /\ a + n <= Len(fed') /\ a + n <= Consumed'
        /\ fed'[a + 1] = Sync0 /\ fed'[a + 2] = Sync1
        /\ LegalHeader(fed', a + 1)
        /\ n = 2 * FrameWords[fed'[a + 5]]
    BY <2>2, <2>3, <2>5
  <2>7. QED BY <2>6 DEF FrameOf, a, n
<1>3. QED BY <1>2 DEF FramesAreCut

-----------------------------------------------------------------------------
(* The steps.                                                              *)

LEMMA AddDataStep ==
  ASSUME IInv, NEW data \in Seq(Byte), AddData(data)
  PROVE  IInv'
<1>1. /\ ~draining /\ fed' = fed \o data /\ esBuffer' = esBuffer \o data
      /\ draining' = TRUE /\ frames' = frames
  BY DEF AddData
<1>2. /\ data \in Seq(Byte) /\ fed \in Seq(Byte) /\ esBuffer \in Seq(Byte)
      /\ frames \in Seq([at : Nat, size : FrameSizes])
  BY DEF IInv, TypeOK
<1>3. /\ fed' \in Seq(Byte) /\ Len(fed') = Len(fed) + Len(data)
      /\ \A k \in 1 .. Len(fed) + Len(data) :
           fed'[k] = IF k <= Len(fed) THEN fed[k] ELSE data[k - Len(fed)]
  BY <1>1, <1>2, ConcatProperties
<1>4. /\ esBuffer' \in Seq(Byte) /\ Len(esBuffer') = Len(esBuffer) + Len(data)
      /\ \A k \in 1 .. Len(esBuffer) + Len(data) :
           esBuffer'[k] = IF k <= Len(esBuffer) THEN esBuffer[k] ELSE data[k - Len(esBuffer)]
  BY <1>1, <1>2, ConcatProperties
<1>5. /\ Len(fed) \in Nat /\ Len(esBuffer) \in Nat /\ Len(data) \in Nat
      /\ Len(esBuffer) <= Len(fed)
      /\ \A j \in 1 .. Len(esBuffer) : esBuffer[j] = fed[Len(fed) - Len(esBuffer) + j]
  BY <1>2, LenProperties DEF IInv, IsSuffix
<1>6. TypeOK'
  BY <1>1, <1>2, <1>3, <1>4 DEF TypeOK
<1>7. IsSuffix(esBuffer', fed')
  <2>1. ASSUME NEW j \in 1 .. Len(esBuffer')
        PROVE  esBuffer'[j] = fed'[Len(fed') - Len(esBuffer') + j]
    <3>1. j \in 1 .. Len(esBuffer) + Len(data)
      BY <1>4
    <3>2. /\ Len(fed') - Len(esBuffer') + j = Len(fed) - Len(esBuffer) + j
          /\ Len(fed) - Len(esBuffer) + j \in 1 .. Len(fed) + Len(data)
      BY <1>3, <1>4, <1>5, <3>1
    <3>3. CASE j <= Len(esBuffer)
      <4>1. j \in 1 .. Len(esBuffer) /\ Len(fed) - Len(esBuffer) + j <= Len(fed)
        BY <1>5, <3>1, <3>3
      <4>2. esBuffer'[j] = esBuffer[j] /\ esBuffer[j] = fed[Len(fed) - Len(esBuffer) + j]
        BY <1>4, <1>5, <3>1, <3>3, <4>1
      <4>3. fed'[Len(fed) - Len(esBuffer) + j] = fed[Len(fed) - Len(esBuffer) + j]
        BY <1>3, <3>2, <4>1
      <4>4. QED BY <3>2, <4>2, <4>3
    <3>4. CASE ~(j <= Len(esBuffer))
      <4>1. /\ ~(Len(fed) - Len(esBuffer) + j <= Len(fed))
            /\ Len(fed) - Len(esBuffer) + j - Len(fed) = j - Len(esBuffer)
        BY <1>5, <3>1, <3>4
      <4>2. esBuffer'[j] = data[j - Len(esBuffer)]
        BY <1>4, <3>1, <3>4
      <4>3. fed'[Len(fed) - Len(esBuffer) + j] = data[j - Len(esBuffer)]
        BY <1>3, <3>2, <4>1
      <4>4. QED BY <3>2, <4>2, <4>3
    <3>5. QED BY <3>3, <3>4
  <2>2. Len(esBuffer') <= Len(fed')
    BY <1>3, <1>4, <1>5
  <2>3. QED BY <1>3, <1>4, <2>1, <2>2 DEF IsSuffix
<1>8. FramesAreCut'
  <2>1. Len(fed) <= Len(fed') /\ \A k \in 1 .. Len(fed) : fed'[k] = fed[k]
    BY <1>3, <1>5
  <2>2. Consumed <= Consumed' /\ Consumed \in Int /\ Consumed' \in Int
    BY <1>3, <1>4, <1>5 DEF Consumed
  <2>3. QED BY <1>1, <1>2, <1>3, <2>1, <2>2, FramesStay DEF IInv
<1>9. NothingLeftBehind'
  BY <1>1 DEF NothingLeftBehind
<1>10. QED BY <1>6, <1>7, <1>8, <1>9 DEF IInv

(* A step that only takes bytes from the front of the buffer. *)
LEMMA ReturnNullStep ==
  ASSUME IInv, NEW buffer, IsSuffix(buffer, esBuffer), ReturnNull(buffer), fed' = fed,
         Len(buffer) <= HeaderSize \/ (Headed(buffer) /\ ~WholeFrame(buffer))
  PROVE  IInv'
<1>1. esBuffer' = buffer /\ draining' = FALSE /\ frames' = frames
  BY DEF ReturnNull
<1>2. IsSuffix(esBuffer', fed')
  BY <1>1, SuffixOfSuffix DEF IInv
<1>3. /\ buffer \in Seq(Byte) /\ fed \in Seq(Byte)
      /\ frames \in Seq([at : Nat, size : FrameSizes])
  BY DEF IInv, TypeOK, IsSuffix
<1>4. TypeOK'
  BY <1>1, <1>3 DEF TypeOK
<1>5. FramesAreCut'
  <2>1. /\ Len(fed) \in Nat /\ Len(esBuffer) \in Nat /\ Len(buffer) \in Nat
        /\ Len(buffer) <= Len(esBuffer)
    BY LenProperties DEF IInv, IsSuffix
  <2>2. Consumed <= Consumed' /\ Consumed \in Int /\ Consumed' \in Int
    BY <1>1, <2>1 DEF Consumed
  <2>3. QED BY <1>1, <1>3, <2>1, <2>2, FramesStay DEF IInv
<1>6. NothingLeftBehind'
  <2>1. CASE Len(buffer) <= HeaderSize
    BY <1>1, <2>1 DEF NothingLeftBehind
  <2>2. CASE Headed(buffer) /\ ~WholeFrame(buffer)
    <3>1. SyncAt(buffer, 1) /\ LegalHeader(buffer, 1)
      BY <2>2 DEF Headed
    <3>2. FrameLength(buffer) = 2 * FrameWords[buffer[5]] /\ FrameLength(buffer) \in Nat
      BY <3>1, FrameLengthIs
    <3>3. Len(buffer) < 2 * FrameWords[buffer[5]]
      BY <1>3, <2>2, <3>2, LenProperties DEF WholeFrame
    <3>4. QED BY <1>1, <3>1, <3>3 DEF NothingLeftBehind
  <2>3. QED BY <2>1, <2>2
<1>7. QED BY <1>2, <1>4, <1>5, <1>6 DEF IInv

(* A frame that fills the front of the buffer is returned and removed. *)
LEMMA TakeFrameStep ==
  ASSUME IInv, draining, NEW buffer, IsSuffix(buffer, esBuffer), Headed(buffer),
         WholeFrame(buffer), TakeFrame(buffer), fed' = fed
  PROVE  IInv'
<1> DEFINE at == Len(fed) - Len(buffer)
           size == FrameLength(buffer)
           f == [at |-> at, size |-> size]
<1>1. /\ frames' = Append(frames, f)
      /\ esBuffer' = From(buffer, size + 1)
      /\ draining' = draining
  BY DEF TakeFrame
<1>2. /\ buffer \in Seq(Byte) /\ fed \in Seq(Byte)
      /\ frames \in Seq([at : Nat, size : FrameSizes])
  BY DEF IInv, TypeOK, IsSuffix
<1>3. /\ Len(fed) \in Nat /\ Len(esBuffer) \in Nat /\ Len(buffer) \in Nat /\ Len(frames) \in Nat
      /\ Len(buffer) <= Len(esBuffer) /\ Len(esBuffer) <= Len(fed)
  BY <1>2, LenProperties DEF IInv, IsSuffix
<1>4. IsSuffix(buffer, fed)
  BY SuffixOfSuffix DEF IInv
<1>5. SyncAt(buffer, 1) /\ LegalHeader(buffer, 1)
  BY DEF Headed
<1>6. /\ size = 2 * FrameWords[buffer[5]] /\ size \in FrameSizes
      /\ size \in Nat /\ size > 6 /\ size <= Len(buffer)
  BY <1>5, FrameLengthIs DEF WholeFrame
<1> HIDE DEF size
<1>7. at \in Nat
  BY <1>3
<1>8. IsSuffix(esBuffer', buffer) /\ Len(esBuffer') = Len(buffer) - size
  <2>1. size + 1 \in 1 .. Len(buffer) + 1
    BY <1>3, <1>6
  <2>2. /\ IsSuffix(From(buffer, size + 1), buffer)
        /\ Len(From(buffer, size + 1)) = Len(buffer) - (size + 1) + 1
    BY <1>2, <2>1, FromIsSuffix
  <2>3. Len(buffer) - (size + 1) + 1 = Len(buffer) - size
    BY <1>3, <1>6
  <2>4. QED BY <1>1, <2>2, <2>3
<1>9. IsSuffix(esBuffer', fed')
  BY <1>4, <1>8, SuffixOfSuffix
<1>10. /\ frames' \in Seq([at : Nat, size : FrameSizes])
       /\ Len(frames') = Len(frames) + 1
       /\ \A i \in 1 .. Len(frames) : frames'[i] = frames[i]
       /\ frames'[Len(frames) + 1] = f
  <2>1. f \in [at : Nat, size : FrameSizes]
    BY <1>6, <1>7
  <2> HIDE DEF f
  <2>2. QED BY <1>1, <1>2, <2>1, AppendProperties
<1>11. TypeOK'
  <2>1. esBuffer' \in Seq(Byte)
    BY <1>9 DEF IsSuffix
  <2>2. draining' \in BOOLEAN
    BY <1>1 DEF IInv, TypeOK
  <2>3. QED BY <1>2, <1>10, <2>1, <2>2 DEF TypeOK
<1>12. f.at = at /\ f.size = size
  OBVIOUS
<1>13. /\ fed[at + 1] = Sync0 /\ fed[at + 2] = Sync1 /\ LegalHeader(fed, at + 1)
       /\ size = 2 * FrameWords[fed[at + 5]] /\ at + size <= Len(fed)
  <2>1. buffer[1] = Sync0 /\ buffer[2] = Sync1 /\ buffer[5] \in DOMAIN FrameWords /\ buffer[6] \in Bsid8
    BY <1>5 DEF SyncAt, LegalHeader
  <2>2. /\ 1 \in 1 .. Len(buffer) /\ 2 \in 1 .. Len(buffer)
        /\ 5 \in 1 .. Len(buffer) /\ 6 \in 1 .. Len(buffer)
    BY <1>3, <1>6
  <2>3. \A j \in 1 .. Len(buffer) : buffer[j] = fed[Len(fed) - Len(buffer) + j]
    BY <1>4 DEF IsSuffix
  <2>4. /\ buffer[1] = fed[at + 1] /\ buffer[2] = fed[at + 2]
        /\ buffer[5] = fed[at + 5] /\ buffer[6] = fed[at + 6]
    BY <2>2, <2>3
  <2> HIDE DEF at
  <2>5. at + 1 + 4 = at + 5 /\ at + 1 + 5 = at + 6
    BY <1>7
  <2>6. LegalHeader(fed, at + 1)
    BY <2>1, <2>4, <2>5 DEF LegalHeader
  <2>7. at + size <= Len(fed)
    BY <1>3, <1>6, <1>7 DEF at
  <2>8. QED BY <1>6, <2>1, <2>4, <2>6, <2>7
<1>14. FrameOf(f)
  BY <1>12, <1>13 DEF FrameOf
<1>15. Consumed' = at + size /\ Consumed <= at
  BY <1>3, <1>6, <1>8 DEF Consumed
<1> HIDE DEF at, f
<1>16. ASSUME NEW i \in 1 .. Len(frames)
       PROVE  FrameOf(frames[i]) /\ frames[i].at + frames[i].size <= Consumed /\
              frames[i].at \in Nat /\ frames[i].size \in Nat
  <2>1. frames[i] \in [at : Nat, size : FrameSizes]
    BY <1>2, ElementOfSeq
  <2>2. frames[i].at \in Nat /\ frames[i].size \in Nat
    BY <2>1, FrameSizeIs
  <2>3. QED BY <2>2 DEF IInv, FramesAreCut
<1>17. Consumed \in Int
  BY <1>3 DEF Consumed
<1>18. FramesAreCut'
  <2>1. ASSUME NEW i \in 1 .. Len(frames')
        PROVE  FrameOf(frames[i])' /\ (frames[i].at + frames[i].size <= Consumed)'
    <3>1. CASE i \in 1 .. Len(frames)
      <4>1. frames'[i] = frames[i] /\ FrameOf(frames[i])
        BY <1>10, <1>16, <3>1
      <4>2. frames[i].at + frames[i].size <= Consumed'
        <5>1. frames[i].at + frames[i].size <= Consumed /\ frames[i].at + frames[i].size \in Nat
          BY <1>16, <3>1
        <5>2. QED BY <1>6, <1>7, <1>15, <1>17, <5>1, SMTT(40)
      <4>3. FrameOf(frames[i])'
        BY <4>1, Zenon DEF FrameOf, LegalHeader
      <4>4. QED BY <4>1, <4>2, <4>3
    <3>2. CASE i = Len(frames) + 1
      <4>1. frames'[i] = f
        BY <1>10, <3>2
      <4>2. FrameOf(frames[i])'
        BY <1>14, <4>1, Zenon DEF FrameOf, LegalHeader
      <4>3. f.at + f.size <= Consumed'
        BY <1>6, <1>7, <1>12, <1>15
      <4>4. QED BY <4>1, <4>2, <4>3
    <3>3. i \in 1 .. Len(frames) \/ i = Len(frames) + 1
      BY <1>3, <1>10
    <3>4. QED BY <3>1, <3>2, <3>3
  <2>2. ASSUME NEW i \in 1 .. Len(frames'), NEW j \in 1 .. Len(frames'), i < j
        PROVE  (frames[i].at + frames[i].size <= frames[j].at)'
    <3>1. i \in 1 .. Len(frames)
      BY <1>3, <1>10, <2>2
    <3>2. CASE j \in 1 .. Len(frames)
      BY <1>10, <2>2, <3>1, <3>2 DEF IInv, FramesAreCut
    <3>3. CASE j = Len(frames) + 1
      <4>1. frames'[i] = frames[i] /\ frames'[j].at = at
        BY <1>10, <1>12, <3>1, <3>3
      <4>2. frames[i].at + frames[i].size <= at
        <5>1. frames[i].at + frames[i].size <= Consumed /\ frames[i].at + frames[i].size \in Nat
          BY <1>16, <3>1
        <5>2. QED BY <1>7, <1>15, <1>17, <5>1
      <4>3. QED BY <4>1, <4>2
    <3>4. j \in 1 .. Len(frames) \/ j = Len(frames) + 1
      BY <1>3, <1>10
    <3>5. QED BY <3>2, <3>3, <3>4
  <2>3. QED BY <2>1, <2>2 DEF FramesAreCut
<1>19. NothingLeftBehind'
  BY <1>1 DEF NothingLeftBehind
<1>20. QED BY <1>9, <1>11, <1>18, <1>19 DEF IInv

LEMMA DecodeFrameStep ==
  ASSUME IInv, DecodeFrame
  PROVE  IInv'
<1> DEFINE sync == FindSyncWord(esBuffer)
<1>1. draining /\ fed' = fed /\ esBuffer \in Seq(Byte)
  BY DEF DecodeFrame, IInv, TypeOK
<1>2. /\ IsSuffix(sync.buffer, esBuffer)
      /\ sync.status = "SYNC_FOUND" => Headed(sync.buffer)
      /\ sync.status # "SYNC_FOUND" => Len(sync.buffer) <= HeaderSize
  BY <1>1, FindSyncWordIs
<1>3. IsSuffix(<<>>, esBuffer) /\ Len(<<>>) <= HeaderSize
  BY <1>1, EmptySeq, LenProperties DEF IsSuffix, HeaderSize
<1>4. \/ ReturnNull(<<>>)
      \/ sync.status = "SYNC_FOUND" /\ WholeFrame(sync.buffer) /\ TakeFrame(sync.buffer)
      \/ sync.status = "SYNC_FOUND" /\ ~WholeFrame(sync.buffer) /\ ReturnNull(sync.buffer)
      \/ sync.status # "SYNC_FOUND" /\ ReturnNull(LeftOver(sync))
  BY DEF DecodeFrame
<1> HIDE DEF sync
<1>5. CASE ReturnNull(<<>>)
  BY <1>1, <1>3, <1>5, ReturnNullStep
<1>6. CASE sync.status = "SYNC_FOUND" /\ WholeFrame(sync.buffer) /\ TakeFrame(sync.buffer)
  BY <1>1, <1>2, <1>6, TakeFrameStep
<1>7. CASE sync.status = "SYNC_FOUND" /\ ~WholeFrame(sync.buffer) /\ ReturnNull(sync.buffer)
  BY <1>1, <1>2, <1>7, ReturnNullStep
<1>8. CASE sync.status # "SYNC_FOUND" /\ ReturnNull(LeftOver(sync))
  <2>1. LeftOver(sync) = <<>> \/ LeftOver(sync) = sync.buffer
    BY DEF LeftOver
  <2>2. IsSuffix(LeftOver(sync), esBuffer) /\ Len(LeftOver(sync)) <= HeaderSize
    BY <1>2, <1>3, <1>8, <2>1
  <2>3. QED BY <1>1, <1>8, <2>2, ReturnNullStep
<1>9. QED BY <1>4, <1>5, <1>6, <1>7, <1>8

-----------------------------------------------------------------------------
(* The theorems.                                                           *)

LEMMA InitEstablishes == Init => IInv
<1> SUFFICES ASSUME Init PROVE IInv
  OBVIOUS
<1>1. fed = <<>> /\ esBuffer = <<>> /\ frames = <<>> /\ draining = FALSE
  BY DEF Init
<1>2. TypeOK
  BY <1>1, EmptySeq DEF TypeOK
<1>3. IsSuffix(esBuffer, fed)
  BY <1>1, EmptySeq, SuffixOfItself
<1>4. Len(frames) = 0 /\ Len(esBuffer) = 0
  BY <1>1, EmptySeq
<1>5. FramesAreCut
  BY <1>4 DEF FramesAreCut
<1>6. NothingLeftBehind
  BY <1>4 DEF NothingLeftBehind, HeaderSize
<1>7. QED BY <1>2, <1>3, <1>5, <1>6 DEF IInv

LEMMA StepPreserves == IInv /\ [Next]_vars => IInv'
<1> SUFFICES ASSUME IInv, [Next]_vars PROVE IInv'
  OBVIOUS
<1>1. CASE DecodeFrame
  BY <1>1, DecodeFrameStep
<1>2. ASSUME NEW data \in PESData, AddData(data) PROVE IInv'
  BY <1>2, AddDataStep, ByteAssumption
<1>3. CASE UNCHANGED vars
  <2>1. TypeOK' /\ IsSuffix(esBuffer, fed)'
    BY <1>3 DEF vars, IInv, TypeOK, IsSuffix
  <2>2. FramesAreCut'
    BY <1>3 DEF vars, IInv, FramesAreCut, FrameOf, LegalHeader, Consumed
  <2>3. NothingLeftBehind'
    BY <1>3 DEF vars, IInv, NothingLeftBehind, SyncAt, LegalHeader
  <2>4. QED BY <2>1, <2>2, <2>3 DEF IInv
<1>4. QED BY <1>1, <1>2, <1>3 DEF Next

LEMMA Inductive == Spec => []IInv
<1>1. Init => IInv
  BY InitEstablishes
<1>2. IInv /\ [Next]_vars => IInv'
  BY StepPreserves
<1>3. QED BY <1>1, <1>2, PTL DEF Spec

(* The decoder's variables keep their types: every frame returned has one of *)
(* the lengths of frmsizcod_table.                                           *)
THEOREM TypeCorrect == Spec => []TypeOK
<1>1. IInv => TypeOK
  BY DEF IInv
<1>2. QED BY <1>1, Inductive, PTL

(* Whatever is fed and however it is split into PES packets, the frames      *)
(* returned are stretches of it, each with a legal header that gives its     *)
(* length, in order and without overlap.                                     *)
THEOREM FramesAreCutHolds == Spec => []FramesAreCut
<1>1. IInv => FramesAreCut
  BY DEF IInv
<1>2. QED BY <1>1, Inductive, PTL

(* PESDecode never returns while the buffer holds a complete frame at its    *)
(* front.                                                                    *)
THEOREM NothingLeftBehindHolds == Spec => []NothingLeftBehind
<1>1. IInv => NothingLeftBehind
  BY DEF IInv
<1>2. QED BY <1>1, Inductive, PTL

-----------------------------------------------------------------------------
(* What a call of DecodeFrame does, seen in the data fed.                  *)

(* FindSyncWord skips no position where it should stop. *)
LEMMA FindSyncWordSkips ==
  ASSUME NEW buf \in Seq(Byte), Len(buf) >= HeaderSize
  PROVE  /\ FindSyncWord(buf).status # "SYNC_NOT_FOUND"
         /\ \A j \in 1 .. Len(buf) - Len(FindSyncWord(buf).buffer) : ~StopsAt(buf, j)
<1>1. Len(buf) \in Nat /\ ~(Len(buf) < HeaderSize)
  BY LenProperties DEF HeaderSize
<1> DEFINE pos == SyncPosition(buf)
           rest == From(buf, pos)
<1>2. pos \in 1 .. Len(buf) /\ \A j \in 1 .. pos - 1 : ~StopsAt(buf, j)
  BY SyncPositionIs
<1>3. Len(rest) = Len(buf) - pos + 1
  BY <1>1, <1>2, FromIsSuffix
<1>4. /\ FindSyncWord(buf).buffer = rest
      /\ FindSyncWord(buf).status =
           IF Len(rest) > HeaderSize THEN "SYNC_FOUND" ELSE "SYNC_INCOMPLETE"
  BY <1>1 DEF FindSyncWord
<1> HIDE DEF pos, rest
<1>5. Len(buf) - Len(rest) = pos - 1
  BY <1>1, <1>2, <1>3
<1>6. QED BY <1>2, <1>4, <1>5

(* A whole header in the buffer stops the search. *)
LEMMA HeaderStops ==
  ASSUME NEW buf, NEW t, IsSuffix(buf, t),
         NEW j \in 1 .. Len(buf), j + 5 <= Len(buf),
         HeaderAt(t, Len(t) - Len(buf) + j)
  PROVE  StopsAt(buf, j)
<1> DEFINE d == Len(t) - Len(buf)
<1>1. Len(buf) \in Nat /\ Len(t) \in Nat /\ d \in Int /\ j \in Nat
  BY LenProperties DEF IsSuffix
<1>2. \A k \in 1 .. Len(buf) : buf[k] = t[d + k]
  BY DEF IsSuffix
<1>3. HeaderAt(t, d + j)
  OBVIOUS
<1> HIDE DEF d
<1>4. /\ j + 1 \in 1 .. Len(buf) /\ j + 4 \in 1 .. Len(buf) /\ j + 5 \in 1 .. Len(buf)
      /\ d + j + 1 = d + (j + 1) /\ d + j + 4 = d + (j + 4) /\ d + j + 5 = d + (j + 5)
      /\ j < Len(buf)
  BY <1>1
<1>5. /\ buf[j] = Sync0 /\ buf[j + 1] = Sync1
      /\ buf[j + 4] \in DOMAIN FrameWords /\ buf[j + 5] \in Bsid8
  BY <1>2, <1>3, <1>4, SMTT(40) DEF HeaderAt
<1>6. QED BY <1>4, <1>5 DEF StopsAt, SyncAt, LegalHeader

(* The header in front of the buffer, as it lies in the data fed. *)
LEMMA HeadIsHeader ==
  ASSUME NEW buf, NEW t, IsSuffix(buf, t), Len(buf) > HeaderSize,
         SyncAt(buf, 1), LegalHeader(buf, 1)
  PROVE  LET at == Len(t) - Len(buf)
         IN  /\ at \in Nat
             /\ HeaderAt(t, at + 1)
             /\ buf[5] = t[at + 5]
             /\ FrameLength(buf) = 2 * FrameWords[t[at + 5]]
             /\ FrameLength(buf) \in FrameSizes
<1> DEFINE at == Len(t) - Len(buf)
<1>1. Len(buf) \in Nat /\ Len(t) \in Nat /\ at \in Nat /\ Len(buf) > 6
  BY LenProperties DEF IsSuffix, HeaderSize
<1>2. \A k \in 1 .. Len(buf) : buf[k] = t[at + k]
  BY DEF IsSuffix
<1> HIDE DEF at
<1>3. /\ 1 \in 1 .. Len(buf) /\ 2 \in 1 .. Len(buf)
      /\ 5 \in 1 .. Len(buf) /\ 6 \in 1 .. Len(buf)
      /\ at + 1 + 1 = at + 2 /\ at + 1 + 4 = at + 5 /\ at + 1 + 5 = at + 6
  BY <1>1
<1>4. buf[1] = Sync0 /\ buf[2] = Sync1 /\ buf[5] \in DOMAIN FrameWords /\ buf[6] \in Bsid8
  BY DEF SyncAt, LegalHeader
<1>5. /\ buf[1] = t[at + 1] /\ buf[2] = t[at + 2] /\ buf[5] = t[at + 5] /\ buf[6] = t[at + 6]
  BY <1>2, <1>3
<1>6. HeaderAt(t, at + 1)
  BY <1>3, <1>4, <1>5 DEF HeaderAt
<1>7. FrameLength(buf) = 2 * FrameWords[buf[5]] /\ FrameLength(buf) \in FrameSizes
  BY FrameLengthIs
<1>8. QED BY <1>1, <1>5, <1>6, <1>7 DEF at

(* Up to m the decoder skips what it still had; no complete header is in     *)
(* that.  Then it returns nothing, or the frame that begins there.           *)
Skips(m) ==
  /\ m \in Nat /\ Consumed <= m /\ m <= Len(fed)
  /\ \A i \in Consumed + 1 .. m : i + 5 <= Len(fed) => ~HeaderAt(fed, i)

Takes(m, n) ==
  /\ n \in FrameSizes /\ m + n <= Len(fed)
  /\ HeaderAt(fed, m + 1) /\ n = 2 * FrameWords[fed[m + 5]]
  /\ Consumed' = m + n
  /\ frames' = Append(frames, [at |-> m, size |-> n])

(* Skipping to the end of the buffer, of which buffer is left. *)
LEMMA SkipsTo ==
  ASSUME IInv, NEW buffer, IsSuffix(buffer, esBuffer),
         \A j \in 1 .. Len(esBuffer) - Len(buffer) :
           j + 5 <= Len(esBuffer) => ~StopsAt(esBuffer, j)
  PROVE  Skips(Len(fed) - Len(buffer))
<1> DEFINE m == Len(fed) - Len(buffer)
<1>1. IsSuffix(esBuffer, fed) /\ IsSuffix(buffer, fed)
  BY SuffixOfSuffix DEF IInv
<1>2. /\ Len(fed) \in Nat /\ Len(esBuffer) \in Nat /\ Len(buffer) \in Nat
      /\ Len(buffer) <= Len(esBuffer) /\ Len(esBuffer) <= Len(fed)
  BY <1>1, LenProperties DEF IsSuffix
<1>3. m \in Nat /\ Consumed <= m /\ m <= Len(fed)
  BY <1>2 DEF Consumed
<1>4. ASSUME NEW i \in Consumed + 1 .. m, i + 5 <= Len(fed), HeaderAt(fed, i)
      PROVE  FALSE
  <2> DEFINE j == i - Consumed
  <2>1. /\ j \in 1 .. Len(esBuffer) - Len(buffer) /\ j \in 1 .. Len(esBuffer)
        /\ j + 5 <= Len(esBuffer)
        /\ Len(fed) - Len(esBuffer) + j = i
    BY <1>2, <1>4 DEF Consumed
  <2> HIDE DEF j
  <2>2. StopsAt(esBuffer, j)
    BY <1>1, <1>4, <2>1, HeaderStops
  <2>3. QED BY <2>1, <2>2
<1>5. QED BY <1>3, <1>4 DEF Skips

LEMMA DecodeEffect ==
  ASSUME IInv, DecodeFrame
  PROVE  \E m \in Nat :
           /\ Skips(m)
           /\ (Consumed' = m /\ frames' = frames) \/ \E n \in FrameSizes : Takes(m, n)
<1> DEFINE sync == FindSyncWord(esBuffer)
<1>1. draining /\ fed' = fed /\ esBuffer \in Seq(Byte) /\ IsSuffix(esBuffer, fed)
  BY DEF DecodeFrame, IInv, TypeOK
<1>2. /\ IsSuffix(sync.buffer, esBuffer)
      /\ sync.status = "SYNC_FOUND" => Headed(sync.buffer)
      /\ sync.status # "SYNC_FOUND" => Len(sync.buffer) <= HeaderSize
  BY <1>1, FindSyncWordIs
<1>3. /\ Len(fed) \in Nat /\ Len(esBuffer) \in Nat /\ Len(sync.buffer) \in Nat
      /\ Len(esBuffer) <= Len(fed) /\ Len(sync.buffer) <= Len(esBuffer)
  BY <1>1, <1>2, LenProperties DEF IsSuffix
<1>4. \/ esBuffer = <<>> /\ ReturnNull(<<>>)
      \/ sync.status = "SYNC_FOUND" /\ WholeFrame(sync.buffer) /\ TakeFrame(sync.buffer)
      \/ sync.status = "SYNC_FOUND" /\ ~WholeFrame(sync.buffer) /\ ReturnNull(sync.buffer)
      \/ esBuffer # <<>> /\ sync.status # "SYNC_FOUND" /\ ReturnNull(LeftOver(sync))
  BY DEF DecodeFrame
<1>5. Len(esBuffer) >= HeaderSize =>
        /\ sync.status # "SYNC_NOT_FOUND"
        /\ \A j \in 1 .. Len(esBuffer) - Len(sync.buffer) : ~StopsAt(esBuffer, j)
  BY <1>1, FindSyncWordSkips
<1>6. Len(esBuffer) < HeaderSize => sync.status = "SYNC_NOT_FOUND"
  BY DEF FindSyncWord
<1> HIDE DEF sync
<1>7. ASSUME NEW buffer, IsSuffix(buffer, esBuffer), ReturnNull(buffer),
             Skips(Len(fed) - Len(buffer))
      PROVE  \E m \in Nat : Skips(m) /\ Consumed' = m /\ frames' = frames
  <2>1. Consumed' = Len(fed) - Len(buffer) /\ frames' = frames
    BY <1>1, <1>7 DEF ReturnNull, Consumed
  <2>2. Len(fed) - Len(buffer) \in Nat
    BY <1>7 DEF Skips
  <2>3. QED BY <1>7, <2>1, <2>2
<1>8. IsSuffix(<<>>, esBuffer) /\ Len(<<>>) = 0
  BY <1>1, EmptySeq, LenProperties DEF IsSuffix
<1>9. CASE esBuffer = <<>> /\ ReturnNull(<<>>)
  <2>1. Skips(Len(fed) - Len(<<>>))
    BY <1>8, <1>9, SkipsTo
  <2>2. QED BY <1>7, <1>8, <1>9, <2>1
<1>10. ASSUME sync.status = "SYNC_FOUND" PROVE Skips(Len(fed) - Len(sync.buffer))
  <2>1. \A j \in 1 .. Len(esBuffer) - Len(sync.buffer) : ~StopsAt(esBuffer, j)
    BY <1>3, <1>5, <1>6, <1>10 DEF HeaderSize
  <2>2. QED BY <1>2, <2>1, SkipsTo
<1>11. CASE sync.status = "SYNC_FOUND" /\ WholeFrame(sync.buffer) /\ TakeFrame(sync.buffer)
  <2> DEFINE m == Len(fed) - Len(sync.buffer)
             n == FrameLength(sync.buffer)
  <2>1. Headed(sync.buffer) /\ IsSuffix(sync.buffer, fed) /\ sync.buffer \in Seq(Byte)
    <3>1. Headed(sync.buffer) /\ IsSuffix(sync.buffer, fed)
      BY <1>1, <1>2, <1>11, SuffixOfSuffix
    <3>2. QED BY <3>1 DEF IsSuffix
  <2>2. /\ m \in Nat /\ HeaderAt(fed, m + 1)
        /\ n = 2 * FrameWords[fed[m + 5]] /\ n \in FrameSizes
    BY <2>1, HeadIsHeader DEF Headed
  <2>3. n \in Nat /\ n <= Len(sync.buffer) /\ n > 6
    BY <1>11, <2>2, FrameSizeIs DEF WholeFrame
  <2>4. Len(From(sync.buffer, n + 1)) = Len(sync.buffer) - n
    <3>1. n + 1 \in 1 .. Len(sync.buffer) + 1
      BY <1>3, <2>3
    <3>2. Len(From(sync.buffer, n + 1)) = Len(sync.buffer) - (n + 1) + 1
      BY <2>1, <3>1, FromIsSuffix
    <3> HIDE DEF n
    <3>3. QED BY <1>3, <2>3, <3>2
  <2>5. esBuffer' = From(sync.buffer, n + 1) /\ frames' = Append(frames, [at |-> m, size |-> n])
    BY <1>11 DEF TakeFrame
  <2>6. Consumed' = Len(fed) - Len(esBuffer')
    BY <1>1 DEF Consumed
  <2>7. Skips(m)
    BY <1>10, <1>11
  <2>8. Consumed' = m + n /\ m + n <= Len(fed)
    <3>1. Len(esBuffer') = Len(sync.buffer) - n
      BY <2>4, <2>5
    <3> HIDE DEF n
    <3>2. QED BY <1>3, <2>3, <2>6, <3>1
  <2>9. Takes(m, n)
    BY <2>2, <2>5, <2>8 DEF Takes
  <2> HIDE DEF m, n
  <2>10. QED BY <2>2, <2>7, <2>9
<1>12. CASE sync.status = "SYNC_FOUND" /\ ~WholeFrame(sync.buffer) /\ ReturnNull(sync.buffer)
  BY <1>2, <1>7, <1>10, <1>12
<1>13. CASE esBuffer # <<>> /\ sync.status # "SYNC_FOUND" /\ ReturnNull(LeftOver(sync))
  <2>1. CASE sync.status = "SYNC_NOT_FOUND"
    <3>1. LeftOver(sync) = <<>> /\ Len(esBuffer) < 6
      BY <1>3, <1>5, <2>1 DEF LeftOver, HeaderSize
    <3>2. Skips(Len(fed) - Len(<<>>))
      <4>1. \A j \in 1 .. Len(esBuffer) - Len(<<>>) : ~(j + 5 <= Len(esBuffer))
        BY <1>3, <3>1
      <4>2. QED BY <1>8, <4>1, SkipsTo
    <3>3. QED BY <1>7, <1>8, <1>13, <3>1, <3>2
  <2>2. CASE sync.status # "SYNC_NOT_FOUND"
    <3>1. LeftOver(sync) = sync.buffer /\ Len(esBuffer) >= HeaderSize
      BY <1>3, <1>6, <2>2 DEF LeftOver, HeaderSize
    <3>2. Skips(Len(fed) - Len(sync.buffer))
      BY <1>2, <1>5, <3>1, SkipsTo
    <3>3. QED BY <1>2, <1>7, <1>13, <3>1, <3>2
  <2>3. QED BY <2>1, <2>2
<1>14. QED BY <1>4, <1>9, <1>11, <1>12, <1>13

-----------------------------------------------------------------------------
(* The stream, and what has come of it.                                    *)

LEMMA LongestFrameIs ==
  /\ LongestFrame \in Nat
  /\ \A n \in FrameSizes : n <= LongestFrame
<1>1. PICK c \in DOMAIN FrameWords : \A d \in DOMAIN FrameWords : FrameWords[d] <= FrameWords[c]
  BY FrameAssumption
<1>2. \A d \in DOMAIN FrameWords : FrameWords[d] \in Nat
  BY FrameAssumption
<1>3. \A d \in DOMAIN FrameWords : 2 * FrameWords[d] <= 2 * FrameWords[c]
  BY <1>1, <1>2
<1>4. \E n \in FrameSizes : \A m \in FrameSizes : m <= n
  BY <1>3 DEF FrameSizes
<1>5. LongestFrame \in FrameSizes /\ \A m \in FrameSizes : m <= LongestFrame
  BY <1>4 DEF LongestFrame
<1>6. QED BY <1>5, FrameSizeIs

LEMMA StreamFacts ==
  ASSUME StreamTypeOK
  PROVE  /\ Bytes \in Seq(Byte) /\ Len(Bytes) \in Nat
         /\ sent \in Nat /\ sent <= Len(Bytes) /\ lost \in Nat
         /\ \A f \in Frames :
              /\ f = [at |-> f.at, size |-> f.size]
              /\ f.at \in Nat /\ f.size \in FrameSizes /\ f.size \in Nat /\ f.size > 6
              /\ f.at + f.size <= Len(Bytes)
              /\ HeaderAt(Bytes, f.at + 1)
              /\ f.size = 2 * FrameWords[Bytes[f.at + 5]]
         /\ \A f, g \in Frames : f = g \/ Disjoint(f, g)
         /\ \A i \in 1 .. Len(Bytes) - HeaderSize + 1 :
              HeaderAt(Bytes, i) => \E f \in Frames : f.at < i /\ i <= f.at + f.size
<1>1. stream \in Streams /\ sent \in 0 .. Len(Bytes) /\ lost \in Nat
  BY DEF StreamTypeOK
<1>2. /\ Bytes \in Seq(Byte)
      /\ Frames \subseteq [at : Nat, size : FrameSizes]
      /\ \A f \in Frames : IsFrame(Bytes, f)
      /\ \A f, g \in Frames : f = g \/ Disjoint(f, g)
      /\ \A i \in 1 .. Len(Bytes) - HeaderSize + 1 :
           HeaderAt(Bytes, i) => \E f \in Frames : f.at < i /\ i <= f.at + f.size
  BY <1>1, StreamsAssumption DEF Bytes, Frames
<1>3. Len(Bytes) \in Nat
  BY <1>2, LenProperties
<1>4. ASSUME NEW f \in Frames
      PROVE  /\ f = [at |-> f.at, size |-> f.size]
             /\ f.at \in Nat /\ f.size \in FrameSizes /\ f.size \in Nat /\ f.size > 6
             /\ f.at + f.size <= Len(Bytes)
             /\ HeaderAt(Bytes, f.at + 1)
             /\ f.size = 2 * FrameWords[Bytes[f.at + 5]]
  <2>1. f \in [at : Nat, size : FrameSizes] /\ IsFrame(Bytes, f)
    BY <1>2
  <2>2. f.at \in Nat /\ f.size \in FrameSizes /\ f = [at |-> f.at, size |-> f.size]
    BY <2>1
  <2>3. f.size \in Nat /\ f.size > 6
    BY <2>2, FrameSizeIs
  <2>4. QED BY <2>1, <2>2, <2>3 DEF IsFrame
<1>5. QED BY <1>1, <1>2, <1>3, <1>4

LEMMA FedFacts ==
  ASSUME IInv, StreamTypeOK
  PROVE  /\ fed \in Seq(Byte) /\ Len(fed) \in Nat /\ Len(origin) = Len(fed)
         /\ origin \in Seq(Nat) /\ \A i \in 1 .. Len(fed) : origin[i] \in Nat
         /\ Consumed \in Nat /\ Consumed <= Len(fed)
         /\ fed # <<>> <=> Len(fed) >= 1
<1>1. fed \in Seq(Byte) /\ IsSuffix(esBuffer, fed)
  BY DEF IInv, TypeOK
<1>2. Len(fed) \in Nat /\ Len(esBuffer) \in Nat /\ Len(esBuffer) <= Len(fed)
  BY <1>1, LenProperties DEF IsSuffix
<1>3. Consumed \in Nat /\ Consumed <= Len(fed)
  BY <1>2 DEF Consumed
<1>4. fed # <<>> <=> Len(fed) >= 1
  BY <1>1, <1>2, EmptySeq
<1>5. origin \in Seq(Nat) /\ Len(origin) = Len(fed)
  BY DEF StreamTypeOK
<1>6. \A i \in 1 .. Len(fed) : origin[i] \in Nat
  BY <1>5, ElementOfSeq
<1>7. QED BY <1>1, <1>2, <1>3, <1>4, <1>5, <1>6

LEMMA FrameTaken ==
  ASSUME IInv, NEW k \in 1 .. Len(frames)
  PROVE  /\ frames[k] = [at |-> frames[k].at, size |-> frames[k].size]
         /\ frames[k].at \in Nat /\ frames[k].size \in FrameSizes
         /\ frames[k].size \in Nat /\ frames[k].size > 6
         /\ frames[k].at + frames[k].size <= Len(fed)
         /\ HeaderAt(fed, frames[k].at + 1)
         /\ frames[k].size = 2 * FrameWords[fed[frames[k].at + 5]]
<1>1. frames \in Seq([at : Nat, size : FrameSizes])
  BY DEF IInv, TypeOK
<1>2. frames[k] \in [at : Nat, size : FrameSizes]
  BY <1>1, ElementOfSeq
<1>3. /\ frames[k].at \in Nat /\ frames[k].size \in FrameSizes
      /\ frames[k] = [at |-> frames[k].at, size |-> frames[k].size]
  BY <1>2
<1>4. FrameOf(frames[k])
  BY DEF IInv, FramesAreCut
<1>5. frames[k].at + 1 + 1 = frames[k].at + 2
  BY <1>3
<1>6. HeaderAt(fed, frames[k].at + 1)
  BY <1>4, <1>5 DEF FrameOf, LegalHeader, HeaderAt
<1>7. QED BY <1>3, <1>4, <1>6, FrameSizeIs DEF FrameOf

(* Between the ends of a stretch without a gap there is none. *)
LEMMA UnbrokenInside ==
  ASSUME IInv, StreamTypeOK, Carried,
         NEW i \in 1 .. Len(fed), NEW j \in 1 .. Len(fed), Unbroken(i, j),
         NEW k \in i .. j
  PROVE  origin[k] - origin[i] = k - i
<1>1. /\ Len(fed) \in Nat /\ k \in 1 .. Len(fed) /\ i <= k /\ k <= j
      /\ origin[i] \in Nat /\ origin[j] \in Nat /\ origin[k] \in Nat
  BY FedFacts
<1>2. i < k => k - i <= origin[k] - origin[i]
  BY <1>1 DEF Carried
<1>3. k < j => j - k <= origin[j] - origin[k]
  BY <1>1 DEF Carried
<1>4. origin[j] - origin[i] = j - i
  BY DEF Unbroken
<1>5. QED BY <1>1, <1>2, <1>3, <1>4, SMTT(40)

(* A header that arrived without a gap is one of the stream. *)
LEMMA HeaderOfStream ==
  ASSUME IInv, StreamTypeOK, Carried,
         NEW q \in 1 .. Len(fed), q + 5 <= Len(fed), Unbroken(q, q + 5)
  PROVE  /\ HeaderAt(fed, q) <=> HeaderAt(Bytes, origin[q])
         /\ fed[q + 4] = Bytes[origin[q] + 4]
         /\ origin[q] \in 1 .. Len(Bytes) - HeaderSize + 1
<1>1. /\ Len(fed) \in Nat /\ q \in Nat
      /\ q + 1 \in 1 .. Len(fed) /\ q + 4 \in 1 .. Len(fed) /\ q + 5 \in 1 .. Len(fed)
      /\ q + 1 \in q .. q + 5 /\ q + 4 \in q .. q + 5
  BY FedFacts
<1>2. /\ origin[q] \in Nat /\ origin[q + 1] \in Nat /\ origin[q + 4] \in Nat /\ origin[q + 5] \in Nat
  BY <1>1, FedFacts
<1>3. origin[q + 1] = origin[q] + 1
  <2>1. origin[q + 1] - origin[q] = q + 1 - q
    BY <1>1, UnbrokenInside
  <2>2. QED BY <1>1, <1>2, <2>1
<1>4. origin[q + 4] = origin[q] + 4
  <2>1. origin[q + 4] - origin[q] = q + 4 - q
    BY <1>1, UnbrokenInside
  <2>2. QED BY <1>1, <1>2, <2>1
<1>5. origin[q + 5] = origin[q] + 5
  BY <1>1, <1>2 DEF Unbroken
<1>6. /\ fed[q] = Bytes[origin[q]] /\ fed[q + 1] = Bytes[origin[q] + 1]
      /\ fed[q + 4] = Bytes[origin[q] + 4] /\ fed[q + 5] = Bytes[origin[q] + 5]
  <2>1. \A k \in 1 .. Len(fed) : fed[k] = Bytes[origin[k]]
    BY DEF Carried
  <2>2. QED BY <1>1, <1>3, <1>4, <1>5, <2>1
<1>7. origin[q] \in 1 .. Len(Bytes) - HeaderSize + 1
  <2>1. origin[q] \in 1 .. sent /\ origin[q + 5] \in 1 .. sent
    BY <1>1 DEF Carried
  <2>2. sent \in Nat /\ Len(Bytes) \in Nat /\ sent <= Len(Bytes)
    BY StreamFacts
  <2>3. QED BY <1>2, <1>5, <2>1, <2>2 DEF HeaderSize
<1>8. QED BY <1>6, <1>7 DEF HeaderAt

(* In front of an undisturbed frame no other header claims its beginning. *)
LEMMA UndisturbedHeader ==
  ASSUME IInv, StreamTypeOK, Carried, Unambiguous,
         NEW f \in Frames, NEW i \in 1 .. Len(fed),
         origin[i] = f.at + 1, Undisturbed(i, f),
         NEW q \in 1 .. i, q + 5 <= Len(fed), HeaderAt(fed, q),
         NEW n \in FrameSizes, n = 2 * FrameWords[fed[q + 4]], q + n > i
  PROVE  q = i /\ n = f.size
<1>1. /\ Len(fed) \in Nat /\ q \in Nat /\ i \in Nat /\ q <= i
      /\ q \in 1 .. Len(fed) /\ q + 5 \in 1 .. Len(fed)
      /\ n \in Nat /\ n <= LongestFrame /\ LongestFrame \in Nat
  <2>1. Len(fed) \in Nat
    BY FedFacts
  <2>2. n \in Nat /\ n <= LongestFrame /\ LongestFrame \in Nat
    BY LongestFrameIs, FrameSizeIs
  <2>3. QED BY <2>1, <2>2
<1>2. /\ f.at \in Nat /\ f.size \in Nat /\ f.size > 6
      /\ origin[i] \in Nat /\ origin[q] \in Nat /\ origin[q + 5] \in Nat
  <2>1. f.at \in Nat /\ f.size \in Nat /\ f.size > 6
    BY StreamFacts
  <2>2. \A k \in 1 .. Len(fed) : origin[k] \in Nat
    BY FedFacts
  <2>3. QED BY <1>1, <2>1, <2>2
<1> DEFINE longest == LongestFrame
           size == f.size
           at == f.at
<1> HIDE DEF longest, size, at
<1>3. /\ i - LongestFrame <= q /\ q < i + f.size
      /\ i - LongestFrame <= q + 5 /\ q + 5 < i + f.size
  <2>1. /\ n \in Nat /\ n <= longest /\ longest \in Nat /\ size \in Nat /\ size > 6
        /\ q \in Nat /\ i \in Nat /\ q <= i /\ q + n > i
    BY <1>1, <1>2 DEF longest, size
  <2>2. /\ i - longest <= q /\ q < i + size
        /\ i - longest <= q + 5 /\ q + 5 < i + size
    BY <2>1
  <2>3. QED BY <2>2 DEF longest, size
<1>4. /\ origin[q] - origin[i] = q - i
      /\ origin[q + 5] - origin[i] = q + 5 - i
  BY <1>1, <1>3 DEF Undisturbed
<1>5. Unbroken(q, q + 5)
  <2> DEFINE a == origin[i]
             b == origin[q]
             c == origin[q + 5]
  <2>1. /\ a \in Nat /\ b \in Nat /\ c \in Nat /\ i \in Nat /\ q \in Nat
        /\ b - a = q - i /\ c - a = q + 5 - i
    BY <1>1, <1>2, <1>4
  <2> HIDE DEF a, b, c
  <2>2. c - b = q + 5 - q
    BY <2>1
  <2>3. QED BY <2>2 DEF Unbroken, b, c
<1>6. /\ HeaderAt(Bytes, origin[q]) /\ fed[q + 4] = Bytes[origin[q] + 4]
      /\ origin[q] \in 1 .. Len(Bytes) - HeaderSize + 1
  BY <1>1, <1>5, HeaderOfStream
<1>7. PICK g \in Frames : g.at + 1 = origin[q]
  BY <1>6 DEF Unambiguous
<1>8. g.at \in Nat /\ g.size = 2 * FrameWords[Bytes[g.at + 5]]
  BY StreamFacts
<1>9. g.at + 5 = origin[q] + 4
  BY <1>2, <1>7, <1>8
<1>10. g.size = n
  BY <1>6, <1>8, <1>9
<1>11. g.at = f.at + q - i
  <2>1. g.at \in Nat /\ g.at + 1 = origin[q] /\ f.at \in Nat /\ origin[i] = f.at + 1
    BY <1>2, <1>7, <1>8
  <2> DEFINE a == origin[i]
             b == origin[q]
             c == g.at
  <2>2. /\ c \in Nat /\ c + 1 = b /\ at \in Nat /\ a = at + 1 /\ b - a = q - i
        /\ i \in Nat /\ q \in Nat
    BY <1>1, <1>4, <2>1 DEF at
  <2> HIDE DEF a, b, c
  <2>3. c = at + q - i
    BY <2>2
  <2>4. QED BY <2>3 DEF c, at
<1>12. ~Disjoint(f, g)
  <2>1. /\ ~(at + size <= at + q - i)
        /\ ~(at + q - i + n <= at)
    <3>1. /\ at \in Nat /\ size \in Nat /\ size > 6 /\ n \in Nat
          /\ q \in Nat /\ i \in Nat /\ q <= i /\ q + n > i
      BY <1>1, <1>2 DEF at, size
    <3>2. QED BY <3>1
  <2>2. QED BY <1>10, <1>11, <2>1 DEF Disjoint, at, size
<1>13. f = g
  BY <1>12, StreamFacts
<1>14. q = i
  <2>1. at \in Nat /\ at = at + q - i /\ q \in Nat /\ i \in Nat
    BY <1>1, <1>2, <1>11, <1>13 DEF at
  <2>2. QED BY <2>1
<1>15. QED BY <1>10, <1>13, <1>14

-----------------------------------------------------------------------------
(* Sending and losing a PES packet.                                        *)

Sends(n) ==
  /\ n \in Nat /\ n >= 1
  /\ sent + n <= Len(Bytes)
  /\ AddData(SubSeq(Bytes, sent + 1, sent + n))
  /\ origin' = origin \o [i \in 1 .. n |-> sent + i]
  /\ split' = split \cup SplitAt(sent + n)
  /\ sent' = sent + n
  /\ UNCHANGED <<stream, lost>>

LEMMA SendEffect ==
  ASSUME StreamInv, NEW n, Sends(n)
  PROVE  /\ IInv' /\ StreamTypeOK'
         /\ n \in Nat /\ n >= 1 /\ sent \in Nat /\ sent + n <= Len(Bytes)
         /\ Len(fed') = Len(fed) + n
         /\ \A i \in 1 .. Len(fed) : origin'[i] = origin[i] /\ fed'[i] = fed[i]
         /\ \A i \in Len(fed) + 1 .. Len(fed) + n :
              origin'[i] = sent + (i - Len(fed)) /\ fed'[i] = Bytes[sent + (i - Len(fed))]
         /\ Consumed' = Consumed /\ frames' = frames
<1> DEFINE data == SubSeq(Bytes, sent + 1, sent + n)
           places == [i \in 1 .. n |-> sent + i]
<1>1. IInv /\ StreamTypeOK
  BY DEF StreamInv
<1>2. /\ n \in Nat /\ n >= 1 /\ sent \in Nat /\ sent + n <= Len(Bytes)
      /\ Bytes \in Seq(Byte) /\ Len(Bytes) \in Nat
  BY <1>1, StreamFacts DEF Sends
<1>3. /\ data \in Seq(Byte) /\ Len(data) = n
      /\ \A k \in 1 .. n : data[k] = Bytes[sent + k]
  <2>1. \A k \in sent + 1 .. sent + n : Bytes[k] \in Byte
    BY <1>2, ElementOfSeq
  <2>2. /\ data \in Seq(Byte)
        /\ Len(data) = IF sent + 1 <= sent + n THEN sent + n - (sent + 1) + 1 ELSE 0
        /\ \A k \in 1 .. sent + n - (sent + 1) + 1 : data[k] = Bytes[sent + 1 + k - 1]
    BY <1>2, <2>1, SubSeqProperties
  <2> HIDE DEF data
  <2>3. sent + n - (sent + 1) + 1 = n /\ \A k \in 1 .. n : sent + 1 + k - 1 = sent + k
    BY <1>2
  <2>4. QED BY <1>2, <2>2, <2>3
<1>4. /\ places \in Seq(Nat) /\ Len(places) = n
      /\ \A k \in 1 .. n : places[k] = sent + k
  <2>1. \A k \in 1 .. n : sent + k \in Nat
    BY <1>2
  <2>2. QED BY <1>2, <2>1
<1>5. /\ fed' = fed \o data /\ esBuffer' = esBuffer \o data /\ frames' = frames
      /\ origin' = origin \o places /\ sent' = sent + n /\ stream' = stream /\ lost' = lost
      /\ AddData(data)
  BY DEF Sends, AddData
<1> HIDE DEF data, places
<1>6. IInv'
  BY <1>1, <1>3, <1>5, AddDataStep
<1>7. /\ fed \in Seq(Byte) /\ esBuffer \in Seq(Byte) /\ origin \in Seq(Nat)
      /\ Len(origin) = Len(fed) /\ Len(fed) \in Nat /\ Len(esBuffer) \in Nat
  <2>1. fed \in Seq(Byte) /\ esBuffer \in Seq(Byte)
    BY <1>1 DEF IInv, TypeOK
  <2>2. origin \in Seq(Nat) /\ Len(origin) = Len(fed)
    BY <1>1, FedFacts
  <2>3. QED BY <2>1, <2>2, LenProperties
<1>8. /\ Len(fed') = Len(fed) + n /\ Len(esBuffer') = Len(esBuffer) + n
      /\ \A k \in 1 .. Len(fed) + n :
           fed'[k] = IF k <= Len(fed) THEN fed[k] ELSE data[k - Len(fed)]
  <2>1. data \in Seq(Byte) /\ fed \in Seq(Byte) /\ esBuffer \in Seq(Byte)
    BY <1>3, <1>7
  <2>2. Len(esBuffer \o data) = Len(esBuffer) + Len(data)
    BY <2>1, ConcatProperties
  <2>3. /\ Len(fed \o data) = Len(fed) + Len(data)
        /\ \A k \in 1 .. Len(fed) + Len(data) :
             (fed \o data)[k] = IF k <= Len(fed) THEN fed[k] ELSE data[k - Len(fed)]
    BY <2>1, ConcatProperties
  <2>4. QED BY <1>3, <1>5, <2>2, <2>3
<1>9. /\ origin' \in Seq(Nat) /\ Len(origin') = Len(fed) + n
      /\ \A k \in 1 .. Len(fed) + n :
           origin'[k] = IF k <= Len(fed) THEN origin[k] ELSE places[k - Len(fed)]
  <2>1. places \in Seq(Nat) /\ origin \in Seq(Nat)
    BY <1>4, <1>7
  <2>2. /\ origin \o places \in Seq(Nat)
        /\ Len(origin \o places) = Len(origin) + Len(places)
        /\ \A k \in 1 .. Len(origin) + Len(places) :
             (origin \o places)[k] = IF k <= Len(origin) THEN origin[k] ELSE places[k - Len(origin)]
    BY <2>1, ConcatProperties
  <2>3. QED BY <1>4, <1>5, <1>7, <2>2
<1>10. \A i \in 1 .. Len(fed) : origin'[i] = origin[i] /\ fed'[i] = fed[i]
  BY <1>2, <1>7, <1>8, <1>9, SMTT(40)
<1>11. ASSUME NEW i \in Len(fed) + 1 .. Len(fed) + n
       PROVE  origin'[i] = sent + (i - Len(fed)) /\ fed'[i] = Bytes[sent + (i - Len(fed))]
  <2>1. i \in 1 .. Len(fed) + n /\ ~(i <= Len(fed)) /\ i - Len(fed) \in 1 .. n
    BY <1>2, <1>7
  <2>2. QED BY <1>3, <1>4, <1>8, <1>9, <2>1
<1>12. Consumed' = Consumed
  BY <1>2, <1>7, <1>8 DEF Consumed
<1>13. StreamTypeOK'
  <2>1. Bytes' = Bytes
    BY <1>5 DEF Bytes
  <2>2. sent' \in 0 .. Len(Bytes)
    BY <1>2, <1>5
  <2>3. stream' \in Streams /\ lost' \in Nat
    BY <1>1, <1>5 DEF StreamTypeOK
  <2>4. QED BY <1>8, <1>9, <2>1, <2>2, <2>3 DEF StreamTypeOK
<1>14. QED BY <1>2, <1>5, <1>6, <1>8, <1>10, <1>11, <1>12, <1>13

LEMMA SendKeepsCarried ==
  ASSUME StreamInv, NEW n, Sends(n)
  PROVE  Carried'
<1> DEFINE L == Len(fed)
<1>1. IInv /\ StreamTypeOK /\ Carried
  BY DEF StreamInv
<1>2. /\ L \in Nat /\ n \in Nat /\ n >= 1 /\ sent \in Nat
      /\ Len(fed') = L + n /\ sent' = sent + n /\ lost' = lost /\ Bytes' = Bytes
  BY <1>1, FedFacts, SendEffect DEF Sends, Bytes
<1>3. \A i \in 1 .. L : origin'[i] = origin[i] /\ fed'[i] = fed[i]
  BY SendEffect
<1>4. \A i \in L + 1 .. L + n :
        origin'[i] = sent + (i - L) /\ fed'[i] = Bytes[sent + (i - L)]
  BY SendEffect
<1>5. \A i \in 1 .. L : origin[i] \in 1 .. sent /\ fed[i] = Bytes[origin[i]] /\ origin[i] \in Nat
  BY <1>1, FedFacts DEF Carried
<1>6. \A i, j \in 1 .. L : i < j => j - i <= origin[j] - origin[i]
  BY <1>1 DEF Carried
<1> HIDE DEF L
<1>7. ASSUME NEW i \in 1 .. L + n
      PROVE  origin'[i] \in 1 .. sent + n /\ fed'[i] = Bytes[origin'[i]]
  <2>1. CASE i <= L
    <3>1. i \in 1 .. L
      BY <1>2, <2>1
    <3>2. QED BY <1>2, <1>3, <1>5, <3>1
  <2>2. CASE ~(i <= L)
    <3>1. i \in L + 1 .. L + n /\ sent + (i - L) \in 1 .. sent + n
      BY <1>2, <2>2
    <3>2. QED BY <1>4, <3>1
  <2>3. QED BY <2>1, <2>2
<1>8. ASSUME NEW i \in 1 .. L + n, NEW j \in 1 .. L + n, i < j
      PROVE  j - i <= origin'[j] - origin'[i]
  <2>1. CASE j <= L
    <3>1. i \in 1 .. L /\ j \in 1 .. L
      BY <1>2, <1>8, <2>1
    <3>2. QED BY <1>3, <1>6, <1>8, <3>1
  <2>2. CASE ~(j <= L) /\ ~(i <= L)
    <3>1. i \in L + 1 .. L + n /\ j \in L + 1 .. L + n
      BY <1>2, <2>2
    <3>2. origin'[j] = sent + (j - L) /\ origin'[i] = sent + (i - L)
      BY <1>4, <3>1
    <3> DEFINE x == origin'[i]
               y == origin'[j]
    <3>3. y = sent + (j - L) /\ x = sent + (i - L)
      BY <3>2
    <3> HIDE DEF x, y
    <3>4. j - i <= y - x
      BY <1>2, <3>3
    <3>5. QED BY <3>4 DEF x, y
  <2>3. CASE ~(j <= L) /\ i <= L
    <3>1. i \in 1 .. L /\ j \in L + 1 .. L + n /\ L \in 1 .. L
      BY <1>2, <2>3
    <3>2. origin'[j] = sent + (j - L) /\ origin'[i] = origin[i]
      BY <1>3, <1>4, <3>1
    <3> DEFINE a == origin[i]
               c == origin[L]
    <3>3. /\ a \in Nat /\ c \in Nat /\ c <= sent
          /\ i < L => L - i <= c - a
          /\ i = L => a = c
      <4>1. origin[L] \in 1 .. sent
        BY <1>5, <3>1
      <4>2. QED BY <1>2, <1>5, <1>6, <3>1, <4>1
    <3> DEFINE y == origin'[j]
    <3>4. y = sent + (j - L) /\ origin'[i] = a
      BY <3>2
    <3> HIDE DEF a, c, y
    <3>5. j - i <= y - a
      BY <1>2, <3>1, <3>3, <3>4
    <3>6. QED BY <3>4, <3>5 DEF y
  <2>4. QED BY <2>1, <2>2, <2>3
<1>9. ASSUME lost = 0
      PROVE  sent + n = L + n /\ \A i \in 1 .. L + n : origin'[i] = i
  <2>1. sent = L /\ \A i \in 1 .. L : origin[i] = i
    BY <1>1, <1>9 DEF Carried, L
  <2>2. ASSUME NEW i \in 1 .. L + n PROVE origin'[i] = i
    <3>1. CASE i <= L
      <4>1. i \in 1 .. L
        BY <1>2, <3>1
      <4>2. QED BY <1>3, <2>1, <4>1
    <3>2. CASE ~(i <= L)
      <4>1. i \in L + 1 .. L + n /\ sent + (i - L) = i
        BY <1>2, <2>1, <3>2
      <4>2. QED BY <1>4, <4>1
    <3>3. QED BY <3>1, <3>2
  <2>3. QED BY <2>1, <2>2
<1>10. QED BY <1>2, <1>7, <1>8, <1>9 DEF Carried

(* The gap that a PES packet makes lies right in front of it, and only if    *)
(* something was lost there.                                                 *)
LEMMA GapsAfterSend ==
  ASSUME StreamInv, NEW n, Sends(n)
  PROVE  /\ Gaps \subseteq Gaps'
         /\ \A g \in Gaps' \ Gaps : g = Len(fed) /\ Len(fed) >= 1 /\ origin[Len(fed)] # sent
         /\ Len(fed) >= 1 /\ origin[Len(fed)] # sent => Len(fed) \in Gaps'
<1> DEFINE L == Len(fed)
<1>1. /\ L \in Nat /\ n \in Nat /\ n >= 1 /\ sent \in Nat /\ Len(fed') = L + n
  BY FedFacts, SendEffect DEF StreamInv
<1>2. \A i \in 1 .. L : origin'[i] = origin[i]
  BY SendEffect
<1>3. \A i \in L + 1 .. L + n : origin'[i] = sent + (i - L)
  BY SendEffect
<1>4. \A i \in 1 .. L : origin[i] \in Nat
  BY FedFacts DEF StreamInv
<1>5. Gaps = {g \in 1 .. L - 1 : origin[g + 1] # origin[g] + 1}
  BY DEF Gaps
<1>6. Gaps' = {g \in 1 .. L + n - 1 : origin'[g + 1] # origin'[g] + 1}
  BY <1>1 DEF Gaps
<1> HIDE DEF L
<1>7. Gaps \subseteq Gaps'
  <2>1. ASSUME NEW g \in Gaps PROVE g \in Gaps'
    <3>1. g \in 1 .. L - 1 /\ g \in 1 .. L /\ g + 1 \in 1 .. L /\ g \in 1 .. L + n - 1
      BY <1>1, <1>5
    <3>2. origin'[g + 1] = origin[g + 1] /\ origin'[g] = origin[g] /\ origin[g + 1] # origin[g] + 1
      BY <1>2, <1>5, <3>1
    <3>3. QED BY <1>6, <3>1, <3>2
  <2>2. QED BY <2>1
<1>8. ASSUME NEW g \in Gaps', g \notin Gaps
      PROVE  g = L /\ L >= 1 /\ origin[L] # sent
  <2>1. g \in 1 .. L + n - 1 /\ origin'[g + 1] # origin'[g] + 1
    BY <1>6
  <2>2. CASE g < L
    <3>1. g \in 1 .. L - 1 /\ g \in 1 .. L /\ g + 1 \in 1 .. L
      BY <1>1, <2>1, <2>2
    <3>2. origin'[g + 1] = origin[g + 1] /\ origin'[g] = origin[g]
      BY <1>2, <3>1
    <3>3. QED BY <1>5, <1>8, <2>1, <3>1, <3>2
  <2>3. CASE g > L
    <3> DEFINE h == g + 1
    <3>1. /\ g \in L + 1 .. L + n /\ h \in L + 1 .. L + n
          /\ sent + (h - L) = sent + (g - L) + 1
      BY <1>1, <2>1, <2>3
    <3>2. origin'[h] # origin'[g] + 1
      BY <2>1
    <3> HIDE DEF h
    <3>3. origin'[g] = sent + (g - L) /\ origin'[h] = sent + (h - L)
      BY <1>3, <3>1
    <3>4. QED BY <3>1, <3>2, <3>3
  <2>4. CASE g = L
    <3>1. L >= 1 /\ L \in 1 .. L /\ L + 1 \in L + 1 .. L + n /\ sent + (L + 1 - L) = sent + 1
      BY <1>1, <2>1, <2>4
    <3>2. origin'[L] = origin[L] /\ origin'[L + 1] = sent + 1
      BY <1>2, <1>3, <3>1
    <3>3. QED BY <2>1, <2>4, <3>1, <3>2
  <2>5. QED BY <1>1, <2>1, <2>2, <2>3, <2>4
<1>9. ASSUME L >= 1, origin[L] # sent
      PROVE  L \in Gaps'
  <2>1. /\ L \in 1 .. L /\ L + 1 \in L + 1 .. L + n /\ sent + (L + 1 - L) = sent + 1
        /\ L \in 1 .. L + n - 1
    BY <1>1, <1>9
  <2>2. origin'[L] = origin[L] /\ origin'[L + 1] = sent + 1
    BY <1>2, <1>3, <2>1
  <2>3. origin[L] \in Nat
    BY <1>4, <2>1
  <2>4. sent + 1 # origin[L] + 1
    BY <1>1, <1>9, <2>3
  <2>5. QED BY <1>6, <2>1, <2>2, <2>4
<1>10. QED BY <1>7, <1>8, <1>9 DEF L

LEMMA SendKeepsBroken ==
  ASSUME StreamInv, NEW n, Sends(n)
  PROVE  BrokenAtGaps'
<1> DEFINE L == Len(fed)
<1>1. /\ L \in Nat /\ n \in Nat /\ n >= 1 /\ sent \in Nat /\ Len(fed') = L + n
  BY FedFacts, SendEffect DEF StreamInv
<1>2. \A i \in 1 .. L : origin'[i] = origin[i] /\ origin[i] \in Nat
  BY SendEffect, FedFacts DEF StreamInv
<1>3. \A i \in L + 1 .. L + n : origin'[i] = sent + (i - L)
  BY SendEffect
<1>4. Gaps \subseteq Gaps' /\ (L >= 1 /\ origin[L] # sent => L \in Gaps')
  BY GapsAfterSend
<1>5. \A i, j \in 1 .. L :
        i < j /\ origin[j] - origin[i] # j - i => \E g \in Gaps : i <= g /\ g < j
  BY DEF StreamInv, BrokenAtGaps, Unbroken
<1> HIDE DEF L
<1>6. ASSUME NEW i \in 1 .. L + n, NEW j \in 1 .. L + n, i < j,
             origin'[j] - origin'[i] # j - i
      PROVE  \E g \in Gaps' : i <= g /\ g < j
  <2>1. CASE j <= L
    <3>1. i \in 1 .. L /\ j \in 1 .. L
      BY <1>1, <1>6, <2>1
    <3>2. origin'[j] = origin[j] /\ origin'[i] = origin[i]
      BY <1>2, <3>1
    <3>3. QED BY <1>4, <1>5, <1>6, <3>1, <3>2
  <2>2. CASE ~(i <= L)
    <3>1. i \in L + 1 .. L + n /\ j \in L + 1 .. L + n
          /\ sent + (j - L) - (sent + (i - L)) = j - i
      BY <1>1, <1>6, <2>2
    <3>2. origin'[j] = sent + (j - L) /\ origin'[i] = sent + (i - L)
      BY <1>3, <3>1
    <3> DEFINE x == origin'[i]
               y == origin'[j]
    <3>3. y = sent + (j - L) /\ x = sent + (i - L) /\ y - x # j - i
      BY <1>6, <3>2
    <3> HIDE DEF x, y
    <3>4. y - x = j - i
      BY <1>1, <3>1, <3>3
    <3>5. QED BY <3>3, <3>4
  <2>3. CASE ~(j <= L) /\ i <= L
    <3>1. i \in 1 .. L /\ j \in L + 1 .. L + n /\ L \in 1 .. L /\ L >= 1 /\ i <= L /\ L < j
      BY <1>1, <2>3
    <3>2. CASE origin[L] # sent
      BY <1>4, <3>1, <3>2
    <3>3. CASE origin[L] = sent
      <4>1. origin'[j] = sent + (j - L) /\ origin'[i] = origin[i]
        BY <1>2, <1>3, <3>1
      <4> DEFINE a == origin[i]
                 y == origin'[j]
      <4>2. y = sent + (j - L) /\ y - a # j - i /\ a \in Nat /\ (i = L => a = sent)
        BY <1>2, <1>6, <3>1, <3>3, <4>1
      <4> HIDE DEF a, y
      <4>3. i # L /\ sent - a # L - i
        BY <1>1, <3>1, <4>2
      <4>4. i < L /\ origin[L] - origin[i] # L - i
        BY <3>1, <3>3, <4>3 DEF a
      <4>5. PICK g \in Gaps : i <= g /\ g < L
        BY <1>5, <3>1, <4>4
      <4>6. g < j
        <5>1. g \in Nat
          BY DEF Gaps
        <5>2. QED BY <1>1, <3>1, <4>5, <5>1
      <4>7. QED BY <1>4, <4>5, <4>6
    <3>4. QED BY <3>2, <3>3
  <2>4. QED BY <1>1, <2>1, <2>2, <2>3
<1>7. QED BY <1>1, <1>6 DEF BrokenAtGaps, Unbroken

LEMMA GapsAreFinite ==
  ASSUME IInv, StreamTypeOK
  PROVE  IsFiniteSet(Gaps) /\ Cardinality(Gaps) \in Nat
<1>1. Len(fed) \in Nat /\ Len(fed) - 1 \in Int
  BY FedFacts
<1>2. IsFiniteSet(1 .. Len(fed) - 1)
  BY <1>1, FS_Interval
<1>3. Gaps \in SUBSET (1 .. Len(fed) - 1)
  BY DEF Gaps
<1>4. IsFiniteSet(Gaps)
  BY <1>2, <1>3, FS_Subset
<1>5. QED BY <1>4, FS_CardinalityType

LEMMA SendKeepsGaps ==
  ASSUME StreamInv, NEW n, Sends(n)
  PROVE  GapsAreLosses'
<1> DEFINE L == Len(fed)
<1>1. /\ L \in Nat /\ n \in Nat /\ n >= 1 /\ sent \in Nat /\ Len(fed') = L + n
      /\ lost \in Nat /\ (fed # <<>> <=> L >= 1)
  BY FedFacts, SendEffect, StreamFacts DEF StreamInv
<1>2. lost' = lost /\ sent' = sent + n
  BY DEF Sends
<1>3. /\ \A g \in Gaps' \ Gaps : g = L /\ L >= 1 /\ origin[L] # sent
  BY GapsAfterSend
<1>4. IsFiniteSet(Gaps) /\ Cardinality(Gaps) \in Nat
  BY GapsAreFinite DEF StreamInv
<1>5. /\ Cardinality(Gaps) <= lost
      /\ L >= 1 /\ origin[L] # sent => Cardinality(Gaps) < lost
  BY <1>1 DEF StreamInv, GapsAreLosses
<1>6. origin'[L + n] = sent + n
  <2>1. L + n \in L + 1 .. L + n /\ sent + (L + n - L) = sent + n
    BY <1>1
  <2>2. QED BY <2>1, SendEffect
<1> HIDE DEF L
<1>7. Cardinality(Gaps') <= lost
  <2>1. CASE Gaps' \subseteq Gaps
    <3>1. Cardinality(Gaps') <= Cardinality(Gaps) /\ Cardinality(Gaps') \in Nat
      BY <1>4, <2>1, FS_Subset, FS_CardinalityType
    <3>2. QED BY <1>1, <1>4, <1>5, <3>1
  <2>2. CASE ~(Gaps' \subseteq Gaps)
    <3>1. L >= 1 /\ origin[L] # sent
      BY <1>3, <2>2
    <3>2. Gaps' \in SUBSET (Gaps \cup {L})
      BY <1>3
    <3>3. /\ IsFiniteSet(Gaps \cup {L})
          /\ Cardinality(Gaps \cup {L}) \in Nat
          /\ Cardinality(Gaps \cup {L}) <= Cardinality(Gaps) + 1
      <4>1. /\ IsFiniteSet(Gaps \cup {L})
            /\ Cardinality(Gaps \cup {L}) =
                 IF L \in Gaps THEN Cardinality(Gaps) ELSE Cardinality(Gaps) + 1
        BY <1>4, FS_AddElement
      <4>2. QED BY <1>4, <4>1
    <3>4. Cardinality(Gaps') <= Cardinality(Gaps \cup {L}) /\ Cardinality(Gaps') \in Nat
      BY <3>2, <3>3, FS_Subset, FS_CardinalityType
    <3>5. QED BY <1>1, <1>4, <1>5, <3>1, <3>3, <3>4
  <2>3. QED BY <2>1, <2>2
<1>8. QED BY <1>1, <1>2, <1>6, <1>7 DEF GapsAreLosses

LEMMA SendStep ==
  ASSUME StreamInv, NEW n, Sends(n)
  PROVE  StreamInv'
<1>1. IInv' /\ StreamTypeOK' /\ Carried' /\ BrokenAtGaps' /\ GapsAreLosses'
  BY SendEffect, SendKeepsCarried, SendKeepsBroken, SendKeepsGaps
<1> DEFINE L == Len(fed)
<1>2. /\ L \in Nat /\ n \in Nat /\ n >= 1 /\ sent \in Nat
      /\ Len(fed') = L + n /\ Consumed \in Nat /\ Consumed <= L
      /\ Consumed' = Consumed /\ frames' = frames
  BY FedFacts, SendEffect DEF StreamInv
<1>3. /\ sent' = sent + n /\ lost' = lost /\ split' = split \cup SplitAt(sent + n)
      /\ Bytes' = Bytes /\ Frames' = Frames /\ (Unambiguous' <=> Unambiguous)
  BY DEF Sends, Bytes, Frames, Unambiguous
<1>4. \A i \in 1 .. L : origin'[i] = origin[i]
  BY SendEffect
<1>5. origin'[L + n] = sent + n
  <2>1. L + n \in L + 1 .. L + n /\ sent + (L + n - L) = sent + n
    BY <1>2
  <2>2. QED BY <2>1, SendEffect
<1>6. SplitIsKnown'
  <2>1. ASSUME NEW f \in Frames, (sent + n) - f.at \in 1 .. HeaderSize - 1
        PROVE  f \in split'
    <3>1. f \in SplitAt(sent + n)
      BY <2>1, SMT DEF SplitAt
    <3>2. QED BY <1>3, <3>1
  <2>2. ASSUME NEW f \in Frames', origin'[Len(fed')] - f.at \in 1 .. HeaderSize - 1
        PROVE  f \in split'
    <3>1. origin'[Len(fed')] = sent + n
      BY <1>2, <1>5
    <3>2. f \in Frames /\ (sent + n) - f.at \in 1 .. HeaderSize - 1
      BY <1>3, <2>2, <3>1
    <3>3. QED BY <2>1, <3>2
  <2>3. QED BY <2>2, Zenon DEF SplitIsKnown
<1>7. WholeFramesAreTaken'
  <2>1. split' = {} => split = {}
    BY <1>3
  <2>2. \A i, f : TakenAt(i, f)' <=> TakenAt(i, f)
    BY <1>2 DEF TakenAt
  <2>3. QED BY <1>2, <1>3, <2>1, <2>2 DEF StreamInv, WholeFramesAreTaken
<1>8. UndisturbedIsTaken'
  <2>1. ASSUME Unambiguous, NEW f \in Frames, f \notin split', NEW i \in 1 .. L + n,
               origin'[i] = f.at + 1, Undisturbed(i, f)'
        PROVE  Consumed < i \/ TakenAt(i, f)'
    <3>1. CASE i <= L
      <4>1. i \in 1 .. L /\ origin[i] = f.at + 1 /\ f \notin split
        BY <1>2, <1>3, <1>4, <2>1, <3>1
      <4>2. \A j \in 1 .. L + n :
              i - LongestFrame <= j /\ j < i + f.size => origin'[j] - origin'[i] = j - i
        BY <1>2, <2>1, Zenon DEF Undisturbed
      <4>3. 1 .. L \subseteq 1 .. L + n
        BY <1>2
      <4>4. Undisturbed(i, f)
        BY <1>4, <4>1, <4>2, <4>3, Zenon DEF Undisturbed
      <4>5. Consumed < i \/ TakenAt(i, f)
        BY <2>1, <4>1, <4>4, Zenon DEF StreamInv, UndisturbedIsTaken
      <4>6. QED BY <1>2, <4>5 DEF TakenAt
    <3>2. CASE ~(i <= L)
      BY <1>2, <3>2
    <3>3. QED BY <3>1, <3>2
  <2>2. ASSUME NEW f \in Frames', NEW i \in 1 .. Len(fed'), f \notin split', Unambiguous',
               origin'[i] = f.at + 1, Undisturbed(i, f)'
        PROVE  Consumed' < i \/ TakenAt(i, f)'
    BY <1>2, <1>3, <2>1, <2>2
  <2>3. QED BY <2>2, Zenon DEF UndisturbedIsTaken
<1>9. QED BY <1>1, <1>6, <1>7, <1>8 DEF StreamInv

LEMMA LoseStep ==
  ASSUME StreamInv, Lose
  PROVE  StreamInv'
<1>1. PICK n \in 1 .. MaxPES : sent + n <= Len(Bytes) /\ sent' = sent + n
  BY DEF Lose
<1>2. /\ lost' = lost + 1 /\ stream' = stream /\ origin' = origin /\ split' = split
      /\ fed' = fed /\ esBuffer' = esBuffer /\ draining' = draining /\ frames' = frames
  BY DEF Lose, vars
<1>3. /\ sent \in Nat /\ n \in Nat /\ lost \in Nat /\ Len(fed) \in Nat /\ Len(Bytes) \in Nat
  BY StreamsAssumption, StreamFacts, FedFacts DEF StreamInv
<1>4. /\ Bytes' = Bytes /\ Frames' = Frames /\ Consumed' = Consumed /\ Gaps' = Gaps
      /\ (Unambiguous' <=> Unambiguous)
  BY <1>2 DEF Bytes, Frames, Consumed, Gaps, Unambiguous
<1>5. IInv'
  <2>1. UNCHANGED vars
    BY <1>2 DEF vars
  <2>2. QED BY <2>1, StepPreserves DEF StreamInv
<1>6. StreamTypeOK'
  <2>1. sent' \in 0 .. Len(Bytes) /\ lost' \in Nat
    BY <1>1, <1>2, <1>3
  <2>2. QED BY <1>2, <1>4, <2>1 DEF StreamInv, StreamTypeOK
<1>7. Carried'
  <2>1. \A i \in 1 .. Len(fed) : origin[i] \in 1 .. sent /\ fed[i] = Bytes[origin[i]]
    BY DEF StreamInv, Carried
  <2>2. 1 .. sent \subseteq 1 .. sent' /\ lost' # 0
    BY <1>1, <1>2, <1>3
  <2>3. \A i, j \in 1 .. Len(fed) : i < j => j - i <= origin[j] - origin[i]
    BY DEF StreamInv, Carried
  <2>4. QED BY <1>2, <1>4, <2>1, <2>2, <2>3 DEF Carried
<1>8. BrokenAtGaps'
  BY <1>2, <1>4 DEF StreamInv, BrokenAtGaps, Unbroken
<1>9. GapsAreLosses'
  <2>1. Cardinality(Gaps) <= lost /\ Cardinality(Gaps) \in Nat
    BY GapsAreFinite DEF StreamInv, GapsAreLosses
  <2>2. Cardinality(Gaps') < lost' /\ Cardinality(Gaps') <= lost'
    BY <1>2, <1>3, <1>4, <2>1
  <2>3. QED BY <2>2 DEF GapsAreLosses
<1>10. SplitIsKnown'
  BY <1>2, <1>4 DEF StreamInv, SplitIsKnown
<1>11. WholeFramesAreTaken'
  <2>1. lost' # 0
    BY <1>2, <1>3
  <2>2. QED BY <2>1 DEF WholeFramesAreTaken
<1>12. UndisturbedIsTaken'
  BY <1>2, <1>4 DEF StreamInv, UndisturbedIsTaken, Undisturbed, TakenAt
<1>13. QED BY <1>5, <1>6, <1>7, <1>8, <1>9, <1>10, <1>11, <1>12 DEF StreamInv

-----------------------------------------------------------------------------
(* Decoding.                                                               *)

LEMMA TakesIs ==
  ASSUME IInv, NEW m \in Nat, NEW n, Takes(m, n)
  PROVE  /\ n \in Nat /\ n > 6 /\ n \in FrameSizes /\ m + n <= Len(fed)
         /\ HeaderAt(fed, m + 1) /\ n = 2 * FrameWords[fed[(m + 1) + 4]]
         /\ Consumed' = m + n
         /\ Len(frames') = Len(frames) + 1 /\ Len(frames) \in Nat
         /\ frames'[Len(frames) + 1] = [at |-> m, size |-> n]
         /\ \A k \in 1 .. Len(frames) : frames'[k] = frames[k]
<1>1. /\ n \in FrameSizes /\ n \in Nat /\ n > 6 /\ m + n <= Len(fed)
      /\ HeaderAt(fed, m + 1) /\ n = 2 * FrameWords[fed[m + 5]] /\ Consumed' = m + n
      /\ frames' = Append(frames, [at |-> m, size |-> n])
  BY FrameSizeIs DEF Takes
<1>2. (m + 1) + 4 = m + 5
  OBVIOUS
<1>3. frames \in Seq([at : Nat, size : FrameSizes])
  BY DEF IInv, TypeOK
<1> DEFINE f == [at |-> m, size |-> n]
<1>4. f \in [at : Nat, size : FrameSizes] /\ frames' = Append(frames, f)
  BY <1>1
<1> HIDE DEF f
<1>5. /\ Len(frames') = Len(frames) + 1 /\ Len(frames) \in Nat
      /\ frames'[Len(frames) + 1] = f
      /\ \A k \in 1 .. Len(frames) : frames'[k] = frames[k]
  BY <1>3, <1>4, AppendProperties, LenProperties
<1>6. QED BY <1>1, <1>2, <1>5 DEF f

(* A frame that was taken stays taken. *)
LEMMA TakenStays ==
  ASSUME IInv, NEW m \in Nat, frames' = frames \/ \E n \in FrameSizes : Takes(m, n),
         NEW i, NEW f, TakenAt(i, f)
  PROVE  TakenAt(i, f)'
<1>1. PICK k \in 1 .. Len(frames) : frames[k] = [at |-> i - 1, size |-> f.size]
  BY DEF TakenAt
<1>2. CASE frames' = frames
  BY <1>1, <1>2 DEF TakenAt
<1>3. ASSUME NEW n \in FrameSizes, Takes(m, n) PROVE TakenAt(i, f)'
  <2>1. /\ Len(frames') = Len(frames) + 1 /\ Len(frames) \in Nat
        /\ frames'[k] = frames[k]
    BY <1>3, TakesIs
  <2>2. k \in 1 .. Len(frames')
    BY <2>1
  <2>3. QED BY <1>1, <2>1, <2>2 DEF TakenAt
<1>4. QED BY <1>2, <1>3

(* A frame whose header is not split is not skipped, once it has begun. *)
LEMMA NotSkipped ==
  ASSUME StreamInv, NEW m \in Nat, Skips(m),
         NEW f \in Frames, f \notin split, NEW i \in 1 .. Len(fed),
         origin[i] = f.at + 1, Undisturbed(i, f), Consumed < i
  PROVE  m < i
<1>1. IInv /\ StreamTypeOK /\ Carried
  BY DEF StreamInv
<1>2. /\ Len(fed) \in Nat /\ i \in Nat /\ Consumed \in Nat /\ fed # <<>>
      /\ Len(fed) \in 1 .. Len(fed)
  BY <1>1, FedFacts
<1>3. /\ f.at \in Nat /\ f.size \in Nat /\ f.size > 6 /\ HeaderAt(Bytes, f.at + 1)
  BY <1>1, StreamFacts
<1>4. \A k \in 1 .. Len(fed) : origin[k] \in Nat
  BY <1>1, FedFacts
<1>5. LongestFrame \in Nat
  BY LongestFrameIs
<1>6. \A j \in 1 .. Len(fed) :
        i <= j /\ j < i + f.size => origin[j] - origin[i] = j - i
  BY <1>2, <1>5 DEF Undisturbed
<1>7. i + 5 <= Len(fed)
  <2>1. SUFFICES ASSUME ~(i + 5 <= Len(fed)) PROVE FALSE
    OBVIOUS
  <2> DEFINE last == Len(fed)
             o == origin[last]
  <2>2. last \in 1 .. Len(fed) /\ i <= last /\ last < i + f.size /\ last \in Nat /\ last < i + 5
    BY <1>2, <1>3, <2>1
  <2>3. o - origin[i] = last - i /\ o \in Nat
    BY <1>4, <1>6, <2>2
  <2>4. o - (f.at + 1) = last - i
    BY <2>3
  <2> DEFINE at == f.at
  <2>5. at \in Nat /\ o - (at + 1) = last - i
    BY <1>3, <2>4
  <2>6. o = origin[Len(fed)]
    OBVIOUS
  <2> HIDE DEF o, at, last
  <2>7. o - at \in 1 .. 5
    BY <1>2, <2>2, <2>3, <2>5
  <2>8. origin[Len(fed)] - f.at \in 1 .. HeaderSize - 1
    BY <2>6, <2>7 DEF at, HeaderSize
  <2>9. QED BY <1>2, <2>8 DEF StreamInv, SplitIsKnown
<1>8. Unbroken(i, i + 5)
  <2>1. i + 5 \in 1 .. Len(fed) /\ i <= i + 5 /\ i + 5 < i + f.size
    BY <1>2, <1>3, <1>7
  <2>2. origin[i + 5] - origin[i] = i + 5 - i
    BY <1>6, <2>1
  <2>3. QED BY <2>2 DEF Unbroken
<1>9. HeaderAt(fed, i)
  BY <1>1, <1>3, <1>7, <1>8, HeaderOfStream
<1>10. i \notin Consumed + 1 .. m
  BY <1>7, <1>9 DEF Skips
<1>11. QED BY <1>2, <1>10

LEMMA DecodeKeepsUndisturbed ==
  ASSUME StreamInv, Decode
  PROVE  UndisturbedIsTaken'
<1>1. /\ stream' = stream /\ origin' = origin /\ split' = split /\ fed' = fed
      /\ IInv /\ StreamTypeOK /\ Carried
  BY DEF Decode, DecodeFrame, streamVars, StreamInv
<1>2. PICK m \in Nat :
        /\ Skips(m)
        /\ (Consumed' = m /\ frames' = frames) \/ \E n \in FrameSizes : Takes(m, n)
  BY <1>1, DecodeEffect DEF Decode
<1>3. Frames' = Frames /\ (Unambiguous' <=> Unambiguous)
  BY <1>1 DEF Frames, Bytes, Unambiguous
<1>4. ASSUME Unambiguous, NEW f \in Frames, f \notin split, NEW i \in 1 .. Len(fed),
             origin[i] = f.at + 1, Undisturbed(i, f)
      PROVE  Consumed' < i \/ TakenAt(i, f)'
  <2>1. Consumed < i \/ TakenAt(i, f)
    BY <1>4, Zenon DEF StreamInv, UndisturbedIsTaken
  <2>2. CASE TakenAt(i, f)
    BY <1>1, <1>2, <2>2, TakenStays
  <2>3. CASE Consumed < i
    <3>1. m < i
      BY <1>2, <1>4, <2>3, NotSkipped
    <3>2. CASE Consumed' = m
      BY <3>1, <3>2
    <3>3. ASSUME NEW n \in FrameSizes, Takes(m, n), ~(Consumed' < i)
          PROVE  TakenAt(i, f)'
      <4>1. /\ n \in Nat /\ n > 6 /\ m + n <= Len(fed)
            /\ HeaderAt(fed, m + 1) /\ n = 2 * FrameWords[fed[(m + 1) + 4]]
            /\ Consumed' = m + n
            /\ Len(frames') = Len(frames) + 1 /\ Len(frames) \in Nat
            /\ frames'[Len(frames) + 1] = [at |-> m, size |-> n]
        BY <1>1, <3>3, TakesIs
      <4> DEFINE q == m + 1
      <4>2. /\ q \in 1 .. i /\ q + 5 <= Len(fed) /\ q + n > i /\ q - 1 = m
        <5>1. Len(fed) \in Nat /\ i \in Nat
          BY <1>1, FedFacts
        <5>2. QED BY <3>1, <3>3, <4>1, <5>1, SMTT(40)
      <4>3. HeaderAt(fed, q) /\ n = 2 * FrameWords[fed[q + 4]]
        BY <4>1
      <4> HIDE DEF q
      <4>4. q = i /\ n = f.size
        BY <1>1, <1>4, <4>2, <4>3, UndisturbedHeader
      <4>5. frames'[Len(frames) + 1] = [at |-> i - 1, size |-> f.size]
        BY <4>1, <4>2, <4>4
      <4>6. Len(frames) + 1 \in 1 .. Len(frames')
        BY <4>1
      <4>7. QED BY <4>5, <4>6 DEF TakenAt
    <3>4. QED BY <1>2, <3>2, <3>3
  <2>4. QED BY <2>1, <2>2, <2>3
<1>5. ASSUME Unambiguous', NEW f \in Frames', f \notin split', NEW i \in 1 .. Len(fed'),
             origin'[i] = f.at + 1, Undisturbed(i, f)'
      PROVE  Consumed' < i \/ TakenAt(i, f)'
  <2>1. Undisturbed(i, f)
    BY <1>1, <1>5 DEF Undisturbed
  <2>2. QED BY <1>1, <1>3, <1>4, <1>5, <2>1
<1>6. QED BY <1>5, Zenon DEF UndisturbedIsTaken

(* Without losses, what is fed is the stream as far as it has been sent. *)
LEMMA FedIsStream ==
  ASSUME IInv, StreamTypeOK, Carried, lost = 0
  PROVE  /\ Len(fed) = sent /\ sent \in Nat /\ sent <= Len(Bytes) /\ Len(Bytes) \in Nat
         /\ \A i \in 1 .. sent : origin[i] = i /\ fed[i] = Bytes[i]
<1>1. sent = Len(fed) /\ \A i \in 1 .. Len(fed) : origin[i] = i
  BY DEF Carried
<1>2. \A i \in 1 .. Len(fed) : fed[i] = Bytes[origin[i]]
  BY DEF Carried
<1>3. sent \in Nat /\ sent <= Len(Bytes) /\ Len(Bytes) \in Nat
  BY StreamFacts
<1>4. QED BY <1>1, <1>2, <1>3

LEMMA HeaderOfWhole ==
  ASSUME IInv, StreamTypeOK, Carried, lost = 0,
         NEW i \in 1 .. sent, i + 5 <= sent
  PROVE  /\ HeaderAt(fed, i) <=> HeaderAt(Bytes, i)
         /\ fed[i + 4] = Bytes[i + 4]
<1>1. /\ i + 1 \in 1 .. sent /\ i + 4 \in 1 .. sent /\ i + 5 \in 1 .. sent
  BY FedIsStream
<1>2. /\ fed[i] = Bytes[i] /\ fed[i + 1] = Bytes[i + 1]
      /\ fed[i + 4] = Bytes[i + 4] /\ fed[i + 5] = Bytes[i + 5]
  BY <1>1, FedIsStream
<1>3. QED BY <1>2 DEF HeaderAt

(* A header in front of the decoder, which is not inside of a frame, is that *)
(* of a frame.                                                               *)
LEMMA HeaderIsFrame ==
  ASSUME IInv, StreamTypeOK, Carried, lost = 0,
         NEW m \in Nat, m + 6 <= sent, HeaderAt(fed, m + 1),
         NEW n, n = 2 * FrameWords[fed[(m + 1) + 4]],
         \A f \in Frames : m <= f.at \/ f.at + f.size <= m
  PROVE  \E g \in Frames : g.at = m /\ g.size = n
<1>1. /\ sent \in Nat /\ sent <= Len(Bytes) /\ Len(Bytes) \in Nat
      /\ m + 1 \in 1 .. sent /\ (m + 1) + 5 <= sent
  BY FedIsStream
<1>2. HeaderAt(Bytes, m + 1) /\ fed[(m + 1) + 4] = Bytes[(m + 1) + 4]
  BY <1>1, HeaderOfWhole
<1>3. m + 1 \in 1 .. Len(Bytes) - HeaderSize + 1
  BY <1>1 DEF HeaderSize
<1>4. PICK g \in Frames : g.at < m + 1 /\ m + 1 <= g.at + g.size
  BY <1>2, <1>3, StreamFacts
<1>5. g.at \in Nat /\ g.size \in Nat /\ g.size = 2 * FrameWords[Bytes[g.at + 5]]
  BY StreamFacts
<1>6. g.at = m
  <2>1. m <= g.at \/ g.at + g.size <= m
    OBVIOUS
  <2> DEFINE a == g.at
             s == g.size
  <2>2. a \in Nat /\ s \in Nat /\ a < m + 1 /\ m + 1 <= a + s /\ (m <= a \/ a + s <= m)
    BY <1>4, <1>5, <2>1
  <2> HIDE DEF a, s
  <2>3. a = m
    BY <2>2
  <2>4. QED BY <2>3 DEF a
<1>7. (m + 1) + 4 = m + 5
  OBVIOUS
<1>8. QED BY <1>2, <1>5, <1>6, <1>7

(* With no header split, a frame that the decoder was not past is not        *)
(* skipped.                                                                  *)
LEMMA NotSkippedWhole ==
  ASSUME StreamInv, lost = 0, split = {}, NEW m \in Nat, Skips(m),
         NEW f \in Frames, Consumed <= f.at
  PROVE  m <= f.at
<1>1. IInv /\ StreamTypeOK /\ Carried
  BY DEF StreamInv
<1>2. /\ Len(fed) = sent /\ sent \in Nat /\ Consumed \in Nat /\ m <= sent
      /\ (fed # <<>> <=> sent >= 1)
  BY <1>1, FedIsStream, FedFacts DEF Skips
<1>3. f.at \in Nat /\ HeaderAt(Bytes, f.at + 1)
  BY <1>1, StreamFacts
<1>4. SUFFICES ASSUME ~(m <= f.at) PROVE FALSE
  OBVIOUS
<1> DEFINE at == f.at
<1>5. at \in Nat /\ at < m /\ Consumed <= at /\ at + 1 \in 1 .. sent
  BY <1>2, <1>3, <1>4
<1>6. ~(sent - at \in 1 .. 5)
  <2>1. fed # <<>> /\ sent \in 1 .. sent
    BY <1>2, <1>5
  <2>2. origin[Len(fed)] = sent
    BY <1>1, <1>2, <2>1, FedIsStream
  <2>3. f \notin split
    OBVIOUS
  <2>4. ~(origin[Len(fed)] - f.at \in 1 .. HeaderSize - 1)
    BY <2>1, <2>3 DEF StreamInv, SplitIsKnown
  <2>5. QED BY <2>2, <2>4 DEF HeaderSize
<1> HIDE DEF at
<1>7. at + 1 + 5 <= sent
  BY <1>2, <1>5, <1>6
<1>8. HeaderAt(fed, at + 1)
  <2>1. HeaderAt(Bytes, at + 1)
    BY <1>3 DEF at
  <2>2. QED BY <1>1, <1>5, <1>7, <2>1, HeaderOfWhole
<1>9. at + 1 \in Consumed + 1 .. m
  BY <1>2, <1>5
<1>10. QED BY <1>2, <1>7, <1>8, <1>9 DEF Skips

LEMMA DecodeKeepsWhole ==
  ASSUME StreamInv, Decode
  PROVE  WholeFramesAreTaken'
<1>1. /\ stream' = stream /\ origin' = origin /\ split' = split /\ fed' = fed /\ lost' = lost
      /\ IInv /\ StreamTypeOK /\ Carried
  BY DEF Decode, DecodeFrame, streamVars, StreamInv
<1>2. PICK m \in Nat :
        /\ Skips(m)
        /\ (Consumed' = m /\ frames' = frames) \/ \E n \in FrameSizes : Takes(m, n)
  BY <1>1, DecodeEffect DEF Decode
<1>3. Frames' = Frames
  BY <1>1 DEF Frames
<1>4. SUFFICES ASSUME lost = 0, split = {}
               PROVE  /\ \A f \in Frames :
                           \/ Consumed' <= f.at
                           \/ f.at + f.size <= Consumed' /\ TakenAt(f.at + 1, f)'
                      /\ \A k \in 1 .. Len(frames') : frames'[k] \in Frames
  BY <1>1, <1>3 DEF WholeFramesAreTaken
<1>5. /\ \A f \in Frames :
           \/ Consumed <= f.at
           \/ f.at + f.size <= Consumed /\ TakenAt(f.at + 1, f)
      /\ \A k \in 1 .. Len(frames) : frames[k] \in Frames
  BY <1>4 DEF StreamInv, WholeFramesAreTaken
<1>6. Consumed \in Nat /\ Consumed <= m /\ Len(fed) = sent /\ sent \in Nat
  BY <1>1, <1>2, <1>4, FedFacts, FedIsStream DEF Skips
<1>7. ASSUME NEW f \in Frames
      PROVE  \/ m <= f.at
             \/ f.at + f.size <= m /\ TakenAt(f.at + 1, f)'
  <2>1. CASE Consumed <= f.at
    BY <1>2, <1>4, <2>1, NotSkippedWhole
  <2>2. CASE f.at + f.size <= Consumed /\ TakenAt(f.at + 1, f)
    <3>1. f.at \in Nat /\ f.size \in Nat
      BY <1>1, StreamFacts
    <3>2. f.at + f.size <= m
      BY <1>6, <2>2, <3>1
    <3>3. TakenAt(f.at + 1, f)'
      BY <1>1, <1>2, <2>2, TakenStays
    <3>4. QED BY <3>2, <3>3
  <2>3. QED BY <1>5, <2>1, <2>2
<1>8. CASE Consumed' = m /\ frames' = frames
  BY <1>5, <1>7, <1>8
<1>9. ASSUME NEW n \in FrameSizes, Takes(m, n)
      PROVE  /\ \A f \in Frames :
                  \/ Consumed' <= f.at
                  \/ f.at + f.size <= Consumed' /\ TakenAt(f.at + 1, f)'
             /\ \A k \in 1 .. Len(frames') : frames'[k] \in Frames
  <2>1. /\ n \in Nat /\ n > 6 /\ m + n <= sent
        /\ HeaderAt(fed, m + 1) /\ n = 2 * FrameWords[fed[(m + 1) + 4]]
        /\ Consumed' = m + n
        /\ Len(frames') = Len(frames) + 1 /\ Len(frames) \in Nat
        /\ frames'[Len(frames) + 1] = [at |-> m, size |-> n]
        /\ \A k \in 1 .. Len(frames) : frames'[k] = frames[k]
    BY <1>1, <1>6, <1>9, TakesIs
  <2>2. m + 6 <= sent
    BY <1>6, <2>1, SMTT(40)
  <2>3. \A f \in Frames : m <= f.at \/ f.at + f.size <= m
    BY <1>7
  <2>4. PICK g \in Frames : g.at = m /\ g.size = n
    <3>1. IInv /\ StreamTypeOK /\ Carried /\ lost = 0
      BY <1>1, <1>4
    <3>2. HeaderAt(fed, m + 1) /\ n = 2 * FrameWords[fed[(m + 1) + 4]]
      BY <2>1
    <3>3. QED BY <2>2, <2>3, <3>1, <3>2, HeaderIsFrame
  <2>5. g = [at |-> m, size |-> n]
    BY <1>1, <2>4, StreamFacts
  <2>6. ASSUME NEW k \in 1 .. Len(frames') PROVE frames'[k] \in Frames
    <3>1. k \in 1 .. Len(frames) \/ k = Len(frames) + 1
      BY <2>1
    <3>2. QED BY <1>5, <2>1, <2>5, <3>1
  <2>7. ASSUME NEW f \in Frames
        PROVE  \/ m + n <= f.at
               \/ f.at + f.size <= m + n /\ TakenAt(f.at + 1, f)'
    <3>1. f.at \in Nat /\ f.size \in Nat /\ f.size > 6
      BY <1>1, StreamFacts
    <3>2. CASE f = g
      <4>1. f.at + f.size <= m + n /\ (f.at + 1) - 1 = m
        BY <2>1, <2>4, <3>1, <3>2
      <4>2. Len(frames) + 1 \in 1 .. Len(frames')
        BY <2>1
      <4>3. frames'[Len(frames) + 1] = [at |-> (f.at + 1) - 1, size |-> f.size]
        BY <2>1, <2>4, <3>2, <4>1
      <4>4. QED BY <4>1, <4>2, <4>3 DEF TakenAt
    <3>3. CASE f # g
      <4>1. Disjoint(f, g)
        BY <1>1, <3>3, StreamFacts
      <4>2. f.at + f.size <= m \/ m + n <= f.at
        BY <2>4, <4>1 DEF Disjoint
      <4>3. CASE f.at + f.size <= m
        <5>1. ~(m <= f.at) /\ f.at + f.size <= m + n
          BY <2>1, <3>1, <4>3, SMTT(40)
        <5>2. QED BY <1>7, <5>1
      <4>4. QED BY <4>2, <4>3
    <3>4. QED BY <3>2, <3>3
  <2>8. QED BY <2>1, <2>6, <2>7
<1>10. QED BY <1>2, <1>8, <1>9

-----------------------------------------------------------------------------
(* The theorems about AC3Stream.                                           *)

LEMMA StreamStart == StreamInit => StreamInv
<1> SUFFICES ASSUME StreamInit PROVE StreamInv
  OBVIOUS
<1>1. /\ fed = <<>> /\ esBuffer = <<>> /\ frames = <<>> /\ origin = <<>>
      /\ stream \in Streams /\ sent = 0 /\ lost = 0 /\ split = {}
  BY DEF StreamInit, Init
<1>2. IInv
  BY InitEstablishes DEF StreamInit
<1>3. Len(fed) = 0 /\ Len(frames) = 0 /\ Len(esBuffer) = 0
  BY <1>1, EmptySeq
<1>4. Bytes \in Seq(Byte) /\ Len(Bytes) \in Nat
  BY <1>1, StreamsAssumption, LenProperties DEF Bytes
<1>5. StreamTypeOK
  BY <1>1, <1>3, <1>4, EmptySeq DEF StreamTypeOK
<1>6. Carried /\ BrokenAtGaps
  BY <1>1, <1>3 DEF Carried, BrokenAtGaps
<1>7. GapsAreLosses
  <2>1. Gaps = {}
    BY <1>3 DEF Gaps
  <2>2. QED BY <1>1, <2>1, FS_EmptySet DEF GapsAreLosses
<1>8. SplitIsKnown
  BY <1>1 DEF SplitIsKnown
<1>9. WholeFramesAreTaken
  <2>1. Consumed = 0
    BY <1>3 DEF Consumed
  <2>2. \A f \in Frames : f.at \in Nat
    BY <1>5, StreamFacts
  <2>3. QED BY <1>3, <2>1, <2>2 DEF WholeFramesAreTaken
<1>10. UndisturbedIsTaken
  BY <1>3 DEF UndisturbedIsTaken
<1>11. QED BY <1>2, <1>5, <1>6, <1>7, <1>8, <1>9, <1>10 DEF StreamInv

LEMMA DecodeStep ==
  ASSUME StreamInv, Decode
  PROVE  StreamInv'
<1>1. /\ stream' = stream /\ origin' = origin /\ split' = split /\ fed' = fed /\ lost' = lost
      /\ sent' = sent /\ DecodeFrame
  BY DEF Decode, DecodeFrame, streamVars
<1>2. IInv'
  BY <1>1, DecodeFrameStep DEF StreamInv
<1>3. StreamTypeOK'
  BY <1>1 DEF StreamInv, StreamTypeOK, Bytes
<1>4. Carried'
  BY <1>1 DEF StreamInv, Carried, Bytes
<1>5. Gaps' = Gaps
  BY <1>1 DEF Gaps
<1>6. BrokenAtGaps'
  BY <1>1, <1>5 DEF StreamInv, BrokenAtGaps, Unbroken
<1>7. GapsAreLosses'
  BY <1>1, <1>5 DEF StreamInv, GapsAreLosses
<1>8. SplitIsKnown'
  BY <1>1 DEF StreamInv, SplitIsKnown, Frames
<1>9. QED
  BY <1>2, <1>3, <1>4, <1>6, <1>7, <1>8, DecodeKeepsWhole, DecodeKeepsUndisturbed DEF StreamInv

LEMMA StreamStep == StreamInv /\ [StreamNext]_allVars => StreamInv'
<1> SUFFICES ASSUME StreamInv, [StreamNext]_allVars PROVE StreamInv'
  OBVIOUS
<1>1. CASE Send
  <2>1. PICK n \in 1 .. MaxPES : Sends(n)
    <3>1. \A n \in 1 .. MaxPES : n \in Nat /\ n >= 1
      BY StreamsAssumption
    <3>2. QED BY <1>1, <3>1 DEF Send, Sends
  <2>2. QED BY <2>1, SendStep
<1>2. CASE Lose
  BY <1>2, LoseStep
<1>3. CASE Decode
  BY <1>3, DecodeStep
<1>4. CASE UNCHANGED allVars
  <2>1. /\ UNCHANGED vars
        /\ fed' = fed /\ esBuffer' = esBuffer /\ frames' = frames /\ draining' = draining
        /\ stream' = stream /\ sent' = sent /\ lost' = lost /\ origin' = origin /\ split' = split
    BY <1>4 DEF allVars, vars, streamVars
  <2>2. IInv'
    BY <2>1, StepPreserves DEF StreamInv
  <2>3. Bytes' = Bytes /\ Frames' = Frames /\ Gaps' = Gaps /\ Consumed' = Consumed
    BY <2>1 DEF Bytes, Frames, Gaps, Consumed
  <2>4. StreamTypeOK' /\ Carried' /\ BrokenAtGaps' /\ GapsAreLosses' /\ SplitIsKnown'
    BY <2>1, <2>3
    DEF StreamInv, StreamTypeOK, Carried, BrokenAtGaps, Unbroken, GapsAreLosses, SplitIsKnown
  <2>5. WholeFramesAreTaken'
    BY <2>1, <2>3 DEF StreamInv, WholeFramesAreTaken, TakenAt
  <2>6. UndisturbedIsTaken'
    BY <2>1, <2>3 DEF StreamInv, UndisturbedIsTaken, Undisturbed, TakenAt, Unambiguous
  <2>7. QED BY <2>2, <2>4, <2>5, <2>6 DEF StreamInv
<1>5. QED BY <1>1, <1>2, <1>3, <1>4 DEF StreamNext

LEMMA StreamInductive == StreamSpec => []StreamInv
<1>1. QED BY StreamStart, StreamStep, PTL DEF StreamSpec

(* At the end of a call the decoder is not past a frame that is still coming *)
(* in, and has no header in front of a longer one.                           *)
LEMMA HeaderLeftBehind ==
  ASSUME IInv, ~draining, Len(fed) - Consumed > 6
  PROVE  LET n == 2 * FrameWords[fed[(Consumed + 1) + 4]]
         IN  /\ HeaderAt(fed, Consumed + 1)
             /\ n \in FrameSizes /\ n > Len(fed) - Consumed
             /\ Consumed \in Nat
<1>1. IsSuffix(esBuffer, fed) /\ Len(esBuffer) \in Nat /\ Len(fed) \in Nat
  BY LenProperties DEF IInv, IsSuffix
<1>2. Len(esBuffer) = Len(fed) - Consumed /\ Consumed = Len(fed) - Len(esBuffer) /\ Consumed \in Int
  BY <1>1 DEF Consumed
<1>3. Len(esBuffer) > HeaderSize
  BY <1>2 DEF HeaderSize
<1>4. /\ SyncAt(esBuffer, 1) /\ LegalHeader(esBuffer, 1)
      /\ Len(esBuffer) < 2 * FrameWords[esBuffer[5]]
  BY <1>1, <1>3 DEF IInv, NothingLeftBehind, HeaderSize
<1> DEFINE c == Len(fed) - Len(esBuffer)
<1>5. /\ c \in Nat /\ HeaderAt(fed, c + 1) /\ esBuffer[5] = fed[c + 5]
      /\ FrameLength(esBuffer) = 2 * FrameWords[fed[c + 5]]
      /\ FrameLength(esBuffer) \in FrameSizes
  BY <1>1, <1>3, <1>4, HeadIsHeader
<1>6. c = Consumed
  BY <1>2
<1> HIDE DEF c
<1>7. (c + 1) + 4 = c + 5
  BY <1>5
<1>8. 2 * FrameWords[fed[(c + 1) + 4]] \in FrameSizes
      /\ Len(esBuffer) < 2 * FrameWords[fed[(c + 1) + 4]]
  BY <1>4, <1>5, <1>7
<1> DEFINE n == 2 * FrameWords[fed[(c + 1) + 4]]
<1>9. n \in FrameSizes /\ n \in Nat /\ Len(esBuffer) < n
  BY <1>8, FrameSizeIs
<1> HIDE DEF n
<1>10. n > Len(fed) - Consumed
  BY <1>1, <1>2, <1>9
<1>11. n = 2 * FrameWords[fed[(Consumed + 1) + 4]] /\ HeaderAt(fed, Consumed + 1) /\ Consumed \in Nat
  BY <1>5, <1>6 DEF n
<1>12. QED BY <1>9, <1>10, <1>11

(* On a stream without losses in which no PES packet ends inside a header,   *)
(* the decoder returns the frames that have been sent, all of them and       *)
(* nothing else, whatever the stream and however it is cut.                  *)
THEOREM CutsWholeStreamHolds == StreamSpec => []CutsWholeStream
<1>1. ASSUME StreamInv PROVE CutsWholeStream
  <2>1. SUFFICES ASSUME lost = 0, split = {}, ~draining
                 PROVE  /\ \A i \in DOMAIN frames : Genuine(frames[i])
                        /\ Returned = {f \in Frames : f.at + f.size <= sent}
    BY DEF CutsWholeStream
  <2>2. IInv /\ StreamTypeOK /\ Carried
    BY <1>1 DEF StreamInv
  <2>3. /\ Len(fed) = sent /\ sent \in Nat /\ Consumed \in Nat /\ Consumed <= sent
        /\ \A i \in 1 .. sent : origin[i] = i
    BY <2>1, <2>2, FedIsStream, FedFacts
  <2>4. /\ \A f \in Frames :
             \/ Consumed <= f.at
             \/ f.at + f.size <= Consumed /\ TakenAt(f.at + 1, f)
        /\ \A k \in 1 .. Len(frames) : frames[k] \in Frames
    BY <1>1, <2>1 DEF StreamInv, WholeFramesAreTaken
  <2>5. DOMAIN frames = 1 .. Len(frames)
    BY <2>2, LenProperties DEF IInv, TypeOK
  <2>6. ASSUME NEW k \in 1 .. Len(frames)
        PROVE  /\ Genuine(frames[k])
               /\ [at |-> origin[frames[k].at + 1] - 1, size |-> frames[k].size] = frames[k]
               /\ frames[k].at + frames[k].size <= sent
    <3> DEFINE a == frames[k].at
               n == frames[k].size
    <3>1. /\ frames[k] = [at |-> a, size |-> n] /\ a \in Nat /\ n \in Nat /\ n > 6
          /\ a + n <= sent
      BY <2>2, <2>3, FrameTaken
    <3> HIDE DEF a, n
    <3>2. a + 1 \in 1 .. sent /\ a + n \in 1 .. sent
      BY <2>3, <3>1
    <3>3. origin[a + 1] = a + 1 /\ origin[a + n] = a + n
      BY <2>3, <3>2
    <3>4. origin[a + 1] - 1 = a
      BY <3>1, <3>3
    <3>5. Unbroken(a + 1, a + n)
      BY <3>3, Zenon DEF Unbroken
    <3>6. [at |-> origin[a + 1] - 1, size |-> n] = frames[k]
      BY <3>1, <3>4
    <3>7. QED BY <2>4, <3>1, <3>5, <3>6 DEF Genuine, a, n
  <2>7. Returned \subseteq {f \in Frames : f.at + f.size <= sent}
    BY <2>4, <2>5, <2>6 DEF Returned
  <2>8. ASSUME NEW f \in Frames, f.at + f.size <= sent
        PROVE  f \in Returned
    <3>1. f.at \in Nat /\ f.size \in Nat /\ f.size > 6 /\ f = [at |-> f.at, size |-> f.size]
      BY <2>2, StreamFacts
    <3>2. ~(Consumed <= f.at)
      <4>1. SUFFICES ASSUME Consumed <= f.at PROVE FALSE
        OBVIOUS
      <4> DEFINE n == 2 * FrameWords[fed[(Consumed + 1) + 4]]
      <4>2. Len(fed) - Consumed > 6
        BY <2>3, <2>8, <3>1, <4>1
      <4>3. HeaderAt(fed, Consumed + 1) /\ n \in FrameSizes /\ n > sent - Consumed
        BY <2>1, <2>2, <2>3, <4>2, HeaderLeftBehind
      <4>4. Consumed + 6 <= sent
        BY <2>3, <4>2
      <4>5. \A g \in Frames : Consumed <= g.at \/ g.at + g.size <= Consumed
        BY <2>4
      <4>6. PICK g \in Frames : g.at = Consumed /\ g.size = n
        BY <2>1, <2>2, <2>3, <4>3, <4>4, <4>5, HeaderIsFrame
      <4>7. n \in Nat
        BY <4>3, FrameSizeIs
      <4> HIDE DEF n
      <4>8. f # g
        BY <2>3, <2>8, <3>1, <4>1, <4>3, <4>6, <4>7
      <4>9. Disjoint(f, g)
        BY <2>2, <4>8, StreamFacts
      <4>10. f.at + f.size <= Consumed \/ Consumed + n <= f.at
        BY <4>6, <4>9 DEF Disjoint
      <4>11. QED BY <2>3, <2>8, <3>1, <4>1, <4>3, <4>7, <4>10
    <3>3. TakenAt(f.at + 1, f)
      BY <2>4, <3>2
    <3>4. PICK k \in 1 .. Len(frames) : frames[k] = [at |-> (f.at + 1) - 1, size |-> f.size]
      BY <3>3 DEF TakenAt
    <3>5. (f.at + 1) - 1 = f.at
      BY <3>1
    <3>6. frames[k] = f
      BY <3>1, <3>4, <3>5
    <3>7. f = [at |-> origin[frames[k].at + 1] - 1, size |-> frames[k].size] /\ k \in DOMAIN frames
      BY <2>5, <2>6, <3>6
    <3>8. QED BY <3>7 DEF Returned
  <2>9. QED BY <2>5, <2>6, <2>7, <2>8
<1>2. QED BY <1>1, StreamInductive, PTL

(* A frame that is none of the stream has a gap in it. *)
LEMMA WrongFrameHasGap ==
  ASSUME StreamInv, Unambiguous, NEW k \in 1 .. Len(frames), ~Genuine(frames[k])
  PROVE  \E g \in Gaps : frames[k].at + 1 <= g /\ g < frames[k].at + frames[k].size
<1> DEFINE a == frames[k].at
           n == frames[k].size
           q == a + 1
           z == a + n
<1>1. IInv /\ StreamTypeOK /\ Carried
  BY DEF StreamInv
<1>2. /\ a \in Nat /\ n \in Nat /\ n > 6 /\ a + n <= Len(fed)
      /\ HeaderAt(fed, a + 1) /\ n = 2 * FrameWords[fed[a + 5]]
  BY <1>1, FrameTaken
<1>3. ~Unbroken(q, z) \/ [at |-> origin[q] - 1, size |-> n] \notin Frames
  BY DEF Genuine
<1> HIDE DEF a, n
<1>4. /\ q \in 1 .. Len(fed) /\ z \in 1 .. Len(fed) /\ q < z /\ q + 5 <= z
      /\ q + 4 = a + 5 /\ q + 5 \in q .. z /\ q + 5 <= Len(fed) /\ Len(fed) \in Nat
  <2>1. Len(fed) \in Nat
    BY <1>1, FedFacts
  <2>2. a \in Nat /\ n \in Nat /\ n > 6 /\ a + n <= Len(fed)
    BY <1>2
  <2>3. QED BY <2>1, <2>2
<1>5. HeaderAt(fed, q) /\ n = 2 * FrameWords[fed[q + 4]]
  BY <1>2, <1>4
<1> HIDE DEF q, z
<1>6. ~Unbroken(q, z)
  <2>1. SUFFICES ASSUME Unbroken(q, z) PROVE [at |-> origin[q] - 1, size |-> n] \in Frames
    BY <1>3
  <2>2. origin[q + 5] - origin[q] = (q + 5) - q
    BY <1>1, <1>4, <2>1, UnbrokenInside
  <2>3. Unbroken(q, q + 5)
    BY <2>2 DEF Unbroken
  <2>4. /\ HeaderAt(Bytes, origin[q]) /\ fed[q + 4] = Bytes[origin[q] + 4]
        /\ origin[q] \in 1 .. Len(Bytes) - HeaderSize + 1
    BY <1>1, <1>4, <1>5, <2>3, HeaderOfStream
  <2>5. PICK g \in Frames : g.at + 1 = origin[q]
    BY <2>4 DEF Unambiguous
  <2>6. g.at \in Nat /\ g.size = 2 * FrameWords[Bytes[g.at + 5]] /\ g = [at |-> g.at, size |-> g.size]
    BY <1>1, StreamFacts
  <2>7. g.at + 5 = origin[q] + 4 /\ g.at = origin[q] - 1
    <3> DEFINE b == g.at
               o == origin[q]
    <3>1. b \in Nat /\ b + 1 = o
      BY <2>5, <2>6
    <3> HIDE DEF b, o
    <3>2. b + 5 = o + 4 /\ b = o - 1
      BY <3>1
    <3>3. QED BY <3>2 DEF b, o
  <2>8. g.size = n
    BY <1>5, <2>4, <2>6, <2>7
  <2>9. QED BY <2>6, <2>7, <2>8
<1>7. \E g \in Gaps : q <= g /\ g < z
  BY <1>4, <1>6 DEF StreamInv, BrokenAtGaps
<1>8. QED BY <1>7 DEF q, z, a, n

(* However many PES packets are lost, and wherever, each costs the decoder   *)
(* at most one wrong frame, if nothing in the stream looks like a header.    *)
THEOREM OneWrongFramePerLossHolds == StreamSpec => []OneWrongFramePerLoss
<1>1. ASSUME StreamInv PROVE OneWrongFramePerLoss
  <2>1. SUFFICES ASSUME Unambiguous
                 PROVE  Cardinality({i \in DOMAIN frames : ~Genuine(frames[i])}) <= lost
    BY DEF OneWrongFramePerLoss
  <2> DEFINE Wrong == {i \in DOMAIN frames : ~Genuine(frames[i])}
             Within(i, g) == frames[i].at + 1 <= g /\ g < frames[i].at + frames[i].size
             gapIn == [i \in Wrong |-> CHOOSE g \in Gaps : Within(i, g)]
  <2>2. IInv /\ StreamTypeOK
    BY <1>1 DEF StreamInv
  <2>3. DOMAIN frames = 1 .. Len(frames) /\ Len(frames) \in Nat
    BY <2>2, LenProperties DEF IInv, TypeOK
  <2>4. \A i \in Wrong : \E g \in Gaps : Within(i, g)
    BY <1>1, <2>1, <2>3, WrongFrameHasGap
  <2>5. \A i \in Wrong : gapIn[i] \in Gaps /\ Within(i, gapIn[i])
    BY <2>4, Zenon
  <2>6. ASSUME NEW i \in Wrong, NEW j \in Wrong, gapIn[i] = gapIn[j]
        PROVE  i = j
    <3>1. i \in 1 .. Len(frames) /\ j \in 1 .. Len(frames)
      BY <2>3
    <3>2. /\ frames[i].at \in Nat /\ frames[i].size \in Nat
          /\ frames[j].at \in Nat /\ frames[j].size \in Nat
      BY <2>2, <3>1, FrameTaken
    <3>3. PICK g \in Gaps : Within(i, g) /\ Within(j, g)
      BY <2>5, <2>6, Zenon
    <3>4. g \in Nat
      BY DEF Gaps
    <3>5. /\ i < j => frames[i].at + frames[i].size <= frames[j].at
          /\ j < i => frames[j].at + frames[j].size <= frames[i].at
      BY <2>2, <3>1 DEF IInv, FramesAreCut
    <3>6. ~(i < j) /\ ~(j < i)
      BY <3>2, <3>3, <3>4, <3>5
    <3>7. QED BY <3>1, <3>6
  <2> HIDE DEF gapIn
  <2>7. gapIn \in [Wrong -> Gaps]
    BY <2>5 DEF gapIn
  <2> HIDE DEF Wrong, Within
  <2>8. gapIn \in Injection(Wrong, Gaps)
    BY <2>6, <2>7 DEF Injection, IsInjective
  <2>9. IsFiniteSet(Gaps) /\ Cardinality(Gaps) \in Nat
    BY <2>2, GapsAreFinite
  <2>10. IsFiniteSet(Wrong) /\ Cardinality(Wrong) <= Cardinality(Gaps)
    BY <2>8, <2>9, FS_Injection
  <2>11. Cardinality(Wrong) \in Nat
    BY <2>10, FS_CardinalityType
  <2>12. Cardinality(Gaps) <= lost /\ lost \in Nat
    BY <1>1, <2>2, StreamFacts DEF StreamInv, GapsAreLosses
  <2>13. Cardinality(Wrong) <= lost
    BY <2>9, <2>10, <2>11, <2>12
  <2>14. QED BY <2>13 DEF Wrong
<1>2. QED BY <1>1, StreamInductive, PTL

(* After any number of losses the decoder is back in step one frame length   *)
(* behind the last: from there on every frame whose header is in one PES     *)
(* packet is returned.                                                       *)
THEOREM BackInStepHolds == StreamSpec => []BackInStep
<1>1. ASSUME StreamInv PROVE BackInStep
  <2>1. SUFFICES ASSUME Unambiguous, ~draining, NEW f \in Frames, f \notin split,
                        NEW i \in 1 .. Len(fed) - f.size + 1,
                        NEW a, a = IF i > LongestFrame THEN i - LongestFrame ELSE 1,
                        origin[i] = f.at + 1, Unbroken(a, i + f.size - 1)
                 PROVE  f \in Returned
    BY DEF BackInStep
  <2>2. IInv /\ StreamTypeOK /\ Carried
    BY <1>1 DEF StreamInv
  <2>3. /\ f.at \in Nat /\ f.size \in Nat /\ f.size > 6 /\ f = [at |-> f.at, size |-> f.size]
    BY <2>2, StreamFacts
  <2> DEFINE s == f.size
             z == i + s - 1
             longest == LongestFrame
  <2>4. /\ Len(fed) \in Nat /\ Consumed \in Nat /\ Consumed <= Len(fed)
    BY <2>2, FedFacts
  <2>5. longest \in Nat
    BY LongestFrameIs
  <2>6. s \in Nat /\ s > 6 /\ i \in 1 .. Len(fed) - s + 1 /\ Unbroken(a, z)
        /\ a = IF i > longest THEN i - longest ELSE 1
    BY <2>1, <2>3
  <2> HIDE DEF s, longest
  <2>7. /\ i \in 1 .. Len(fed) /\ z \in 1 .. Len(fed) /\ a \in 1 .. Len(fed)
        /\ a <= i /\ i <= z /\ i \in a .. z /\ i \in Nat /\ z \in Nat /\ a \in Nat
    BY <2>4, <2>5, <2>6
  <2>8. Undisturbed(i, f)
    <3>1. ASSUME NEW j \in 1 .. Len(fed), i - longest <= j, j < i + s
          PROVE  origin[j] - origin[i] = j - i
      <4>1. j \in a .. z
        BY <2>4, <2>5, <2>6, <2>7, <3>1
      <4>2. origin[j] - origin[a] = j - a /\ origin[i] - origin[a] = i - a
        BY <2>2, <2>6, <2>7, <4>1, UnbrokenInside
      <4>3. origin[j] \in Nat /\ origin[i] \in Nat /\ origin[a] \in Nat
        BY <2>2, <2>7, FedFacts
      <4> DEFINE oj == origin[j]
                 oi == origin[i]
                 oa == origin[a]
      <4>4. oj \in Nat /\ oi \in Nat /\ oa \in Nat /\ oj - oa = j - a /\ oi - oa = i - a /\ j \in Nat
        BY <2>4, <4>2, <4>3
      <4> HIDE DEF oj, oi, oa
      <4>5. oj - oi = j - i
        BY <2>7, <4>4
      <4>6. QED BY <4>5 DEF oj, oi
    <3>2. QED BY <3>1 DEF Undisturbed, s, longest
  <2>9. Consumed < i \/ TakenAt(i, f)
    BY <1>1, <2>1, <2>7, <2>8, Zenon DEF StreamInv, UndisturbedIsTaken
  <2>10. ~(Consumed < i)
    <3>1. SUFFICES ASSUME Consumed < i PROVE FALSE
      OBVIOUS
    <3> DEFINE c == Consumed
               q == c + 1
               n == 2 * FrameWords[fed[q + 4]]
    <3>2. Len(fed) - c > 6 /\ Len(fed) - c >= s + (i - q) /\ q \in 1 .. i /\ q + 5 <= Len(fed)
      <4>1. c \in Nat /\ c < i /\ c <= Len(fed)
        BY <2>4, <3>1
      <4> HIDE DEF c
      <4>2. QED BY <2>4, <2>6, <2>7, <4>1
    <3>3. HeaderAt(fed, q) /\ n \in FrameSizes /\ n > Len(fed) - c /\ c \in Nat
      BY <2>1, <2>2, <3>2, HeaderLeftBehind
    <3>4. n \in Nat
      BY <3>3, FrameSizeIs
    <3> HIDE DEF n, c
    <3>5. q + n > i
      BY <2>4, <2>6, <2>7, <3>2, <3>3, <3>4
    <3>6. n = 2 * FrameWords[fed[q + 4]]
      BY DEF n
    <3> HIDE DEF q
    <3>7. q = i /\ n = f.size
      BY <2>1, <2>2, <2>7, <2>8, <3>2, <3>3, <3>5, <3>6, UndisturbedHeader
    <3>8. n = s /\ q = i
      BY <3>7 DEF s
    <3>9. QED BY <2>4, <2>6, <2>7, <3>2, <3>3, <3>8
  <2>11. PICK k \in 1 .. Len(frames) : frames[k] = [at |-> i - 1, size |-> f.size]
    BY <2>9, <2>10 DEF TakenAt
  <2>12. k \in DOMAIN frames
    BY <2>2, LenProperties DEF IInv, TypeOK
  <2>13. (i - 1) + 1 = i
    BY <2>7
  <2>14. origin[i] - 1 = f.at
    BY <2>1, <2>3
  <2>15. f = [at |-> origin[frames[k].at + 1] - 1, size |-> frames[k].size]
    BY <2>3, <2>11, <2>13, <2>14
  <2>16. QED BY <2>12, <2>15 DEF Returned
<1>2. QED BY <1>1, StreamInductive, PTL

-----------------------------------------------------------------------------
(* The search as the code computes it.  That a recursion over the indices of *)
(* a buffer has a value at all is shown by giving it; what it is follows by  *)
(* the last index at which it would be another.                              *)

LEMMA GreatestOf ==
  ASSUME NEW n \in Nat, NEW T \in SUBSET (1 .. n), T # {}
  PROVE  \E i \in T : \A j \in T : j <= i
<1> DEFINE Distances == {n - i : i \in T}
<1>1. Distances \in SUBSET Nat /\ Distances # {}
  <2>1. \A i \in T : n - i \in Nat
    OBVIOUS
  <2>2. \A d \in Distances : \E i \in T : d = n - i
    OBVIOUS
  <2>3. \A d \in Distances : d \in Nat
    BY <2>1, <2>2, Zenon
  <2>4. PICK i \in T : TRUE
    OBVIOUS
  <2>5. n - i \in Distances
    OBVIOUS
  <2>6. QED BY <2>3, <2>5, Zenon
<1>2. PICK d \in Distances : \A e \in Distances : d <= e
  <2> HIDE DEF Distances
  <2>1. QED BY <1>1, LeastOf
<1>3. PICK i \in T : d = n - i
  BY <1>2
<1>4. ASSUME NEW j \in T PROVE j <= i
  <2>1. n - j \in Distances
    OBVIOUS
  <2>2. d <= n - j
    BY <1>2, <2>1
  <2>3. i \in 1 .. n /\ j \in 1 .. n
    OBVIOUS
  <2>4. QED BY <1>3, <2>2, <2>3
<1>5. QED BY <1>4

(* The scan that begins at i stops at k. *)
StopsScan(buf, j) == SyncAt(buf, j) \/ j >= Len(buf)

ScanEnds(buf, i, k) ==
  /\ k \in i .. Len(buf) /\ StopsScan(buf, k)
  /\ \A j \in i .. k - 1 : ~StopsScan(buf, j)

IsScan(buf, f) ==
  f = [i \in 1 .. Len(buf) |-> IF StopsScan(buf, i) THEN i ELSE f[i + 1]]

LEMMA ScanEndExists ==
  ASSUME NEW buf \in Seq(Byte), NEW i \in 1 .. Len(buf)
  PROVE  \E k : ScanEnds(buf, i, k)
<1> DEFINE T == {k \in i .. Len(buf) : StopsScan(buf, k)}
<1>1. Len(buf) \in Nat
  BY LenProperties
<1>2. T \in SUBSET Nat /\ Len(buf) \in T
  BY <1>1 DEF StopsScan
<1>3. PICK k \in T : \A j \in T : k <= j
  <2> HIDE DEF T
  <2>1. QED BY <1>2, LeastOf
<1>4. k \in i .. Len(buf) /\ StopsScan(buf, k)
  BY <1>3
<1>5. \A j \in i .. k - 1 : j \in i .. Len(buf) /\ ~(k <= j)
  BY <1>1, <1>4
<1>6. \A j \in i .. k - 1 : ~StopsScan(buf, j)
  BY <1>3, <1>5
<1>7. QED BY <1>4, <1>6 DEF ScanEnds

LEMMA OneScanEnd ==
  ASSUME NEW buf \in Seq(Byte), NEW i \in 1 .. Len(buf),
         NEW k, NEW l, ScanEnds(buf, i, k), ScanEnds(buf, i, l)
  PROVE  k = l
<1>1. Len(buf) \in Nat
  BY LenProperties
<1>2. k \in i .. Len(buf) /\ l \in i .. Len(buf) /\ StopsScan(buf, k) /\ StopsScan(buf, l)
  BY DEF ScanEnds
<1>3. ~(l \in i .. k - 1) /\ ~(k \in i .. l - 1)
  BY <1>2 DEF ScanEnds
<1>4. QED BY <1>1, <1>2, <1>3

(* One step of the scan. *)
LEMMA ScanStep ==
  ASSUME NEW buf \in Seq(Byte), NEW i \in 1 .. Len(buf)
  PROVE  /\ StopsScan(buf, i) => ScanEnds(buf, i, i)
         /\ ~StopsScan(buf, i) =>
              /\ i + 1 \in 1 .. Len(buf)
              /\ \A k : ScanEnds(buf, i + 1, k) => ScanEnds(buf, i, k)
<1>1. Len(buf) \in Nat
  BY LenProperties
<1>2. ASSUME StopsScan(buf, i) PROVE ScanEnds(buf, i, i)
  BY <1>1, <1>2 DEF ScanEnds
<1>3. ASSUME ~StopsScan(buf, i) PROVE i + 1 \in 1 .. Len(buf)
  BY <1>1, <1>3 DEF StopsScan
<1>4. ASSUME ~StopsScan(buf, i), NEW k, ScanEnds(buf, i + 1, k)
      PROVE  ScanEnds(buf, i, k)
  <2>1. /\ k \in i + 1 .. Len(buf) /\ StopsScan(buf, k)
        /\ \A j \in i + 1 .. k - 1 : ~StopsScan(buf, j)
    BY <1>4 DEF ScanEnds
  <2>2. k \in i .. Len(buf) /\ \A j \in i .. k - 1 : j = i \/ j \in i + 1 .. k - 1
    BY <1>1, <2>1
  <2>3. \A j \in i .. k - 1 : ~StopsScan(buf, j)
    BY <1>4, <2>1, <2>2
  <2>4. QED BY <2>1, <2>2, <2>3 DEF ScanEnds
<1>5. QED BY <1>2, <1>3, <1>4

LEMMA ScanFromIsScan ==
  ASSUME NEW buf \in Seq(Byte)
  PROVE  IsScan(buf, ScanFrom(buf))
<1> DEFINE g == [i \in 1 .. Len(buf) |-> CHOOSE k : ScanEnds(buf, i, k)]
<1>1. \A i \in 1 .. Len(buf) : ScanEnds(buf, i, g[i])
  <2>1. ASSUME NEW i \in 1 .. Len(buf) PROVE ScanEnds(buf, i, g[i])
    <3>1. \E k : ScanEnds(buf, i, k)
      BY ScanEndExists
    <3>2. g[i] = CHOOSE k : ScanEnds(buf, i, k)
      OBVIOUS
    <3>3. QED BY <3>1, <3>2, Zenon
  <2>2. QED BY <2>1
<1>2. \A i \in 1 .. Len(buf) : g[i] = IF StopsScan(buf, i) THEN i ELSE g[i + 1]
  <2>1. ASSUME NEW i \in 1 .. Len(buf)
        PROVE  g[i] = IF StopsScan(buf, i) THEN i ELSE g[i + 1]
    <3> HIDE DEF g
    <3>1. CASE StopsScan(buf, i)
      BY <1>1, <3>1, ScanStep, OneScanEnd
    <3>2. CASE ~StopsScan(buf, i)
      <4>1. i + 1 \in 1 .. Len(buf) /\ (ScanEnds(buf, i + 1, g[i + 1]) => ScanEnds(buf, i, g[i + 1]))
        BY <3>2, ScanStep
      <4>2. ScanEnds(buf, i, g[i + 1])
        BY <1>1, <4>1
      <4>3. g[i] = g[i + 1]
        BY <1>1, <4>2, OneScanEnd
      <4>4. QED BY <3>2, <4>3
    <3>3. QED BY <3>1, <3>2
  <2>2. QED BY <2>1
<1>3. IsScan(buf, g)
  <2>1. g = [i \in 1 .. Len(buf) |-> g[i]]
    OBVIOUS
  <2> HIDE DEF g
  <2>2. QED BY <1>2, <2>1, Zenon DEF IsScan
<1>4. ScanFrom(buf) = CHOOSE f : IsScan(buf, f)
  BY DEF ScanFrom, IsScan, StopsScan
<1> HIDE DEF g
<1>5. QED BY <1>3, <1>4, Zenon

LEMMA ScanFromIs ==
  ASSUME NEW buf \in Seq(Byte), NEW i \in 1 .. Len(buf)
  PROVE  ScanEnds(buf, i, ScanFrom(buf)[i])
<1> DEFINE f == ScanFrom(buf)
           Bad == {j \in 1 .. Len(buf) : ~ScanEnds(buf, j, f[j])}
<1>1. Len(buf) \in Nat
  BY LenProperties
<1>2. \A j \in 1 .. Len(buf) : f[j] = IF StopsScan(buf, j) THEN j ELSE f[j + 1]
  <2>1. IsScan(buf, f)
    BY ScanFromIsScan
  <2> HIDE DEF f
  <2>2. QED BY <2>1 DEF IsScan
<1> HIDE DEF f
<1>3. ASSUME Bad # {} PROVE FALSE
  <2>1. PICK j \in Bad : \A l \in Bad : l <= j
    <3>1. Bad \in SUBSET (1 .. Len(buf))
      OBVIOUS
    <3> HIDE DEF Bad
    <3>2. QED BY <1>1, <1>3, <3>1, GreatestOf
  <2>2. j \in 1 .. Len(buf) /\ ~ScanEnds(buf, j, f[j])
    BY <2>1
  <2>3. CASE StopsScan(buf, j)
    BY <1>2, <2>2, <2>3, ScanStep
  <2>4. CASE ~StopsScan(buf, j)
    <3>1. j + 1 \in 1 .. Len(buf) /\ (ScanEnds(buf, j + 1, f[j + 1]) => ScanEnds(buf, j, f[j + 1]))
      BY <2>2, <2>4, ScanStep
    <3>2. ~(j + 1 <= j)
      BY <2>2
    <3>3. ScanEnds(buf, j + 1, f[j + 1])
      BY <2>1, <3>1, <3>2
    <3>4. f[j] = f[j + 1]
      BY <1>2, <2>2, <2>4
    <3>5. QED BY <2>2, <3>1, <3>3, <3>4
  <2>5. QED BY <2>3, <2>4
<1>4. QED BY <1>3 DEF f

(* Where the search that begins at i stops, and what it then answers. *)
FirstStop(buf, i, k) ==
  /\ k \in i .. Len(buf)
  /\ k # Len(buf) => StopsAt(buf, k)
  /\ \A j \in i .. k - 1 : ~StopsAt(buf, j)

AnswerFrom(buf, i) ==
  LET rest == From(buf, CHOOSE k : FirstStop(buf, i, k))
  IN  IF Len(buf) - i + 1 < HeaderSize
      THEN [buffer |-> From(buf, i), status |-> "SYNC_NOT_FOUND"]
      ELSE [buffer |-> rest,
            status |-> IF Len(rest) > HeaderSize THEN "SYNC_FOUND" ELSE "SYNC_INCOMPLETE"]

SearchStep(buf, i, next) ==
  LET stop == ScanFrom(buf)[i]
      rest == From(buf, stop)
  IN  IF Len(buf) - i + 1 < HeaderSize
      THEN [buffer |-> From(buf, i), status |-> "SYNC_NOT_FOUND"]
      ELSE IF Len(rest) <= HeaderSize
      THEN [buffer |-> rest, status |-> "SYNC_INCOMPLETE"]
      ELSE IF LegalHeader(rest, 1)
      THEN [buffer |-> rest, status |-> "SYNC_FOUND"]
      ELSE next[stop + 1]

IsSearch(buf, f) == f = [i \in 1 .. Len(buf) + 1 |-> SearchStep(buf, i, f)]

LEMMA FirstStopExists ==
  ASSUME NEW buf \in Seq(Byte), NEW i \in 1 .. Len(buf)
  PROVE  \E k : FirstStop(buf, i, k)
<1> DEFINE T == {k \in i .. Len(buf) : k # Len(buf) => StopsAt(buf, k)}
<1>1. Len(buf) \in Nat
  BY LenProperties
<1>2. T \in SUBSET Nat /\ Len(buf) \in T
  BY <1>1
<1>3. PICK k \in T : \A j \in T : k <= j
  <2> HIDE DEF T
  <2>1. QED BY <1>2, LeastOf
<1>4. k \in i .. Len(buf) /\ (k # Len(buf) => StopsAt(buf, k))
  BY <1>3
<1>5. \A j \in i .. k - 1 : j \in i .. Len(buf) /\ ~(k <= j)
  BY <1>1, <1>4
<1>6. \A j \in i .. k - 1 : ~StopsAt(buf, j)
  BY <1>3, <1>5
<1>7. QED BY <1>4, <1>6 DEF FirstStop

LEMMA OneFirstStop ==
  ASSUME NEW buf \in Seq(Byte), NEW i \in 1 .. Len(buf),
         NEW k, NEW l, FirstStop(buf, i, k), FirstStop(buf, i, l)
  PROVE  k = l
<1>1. Len(buf) \in Nat
  BY LenProperties
<1>2. /\ k \in i .. Len(buf) /\ l \in i .. Len(buf)
      /\ k # Len(buf) => StopsAt(buf, k)
      /\ l # Len(buf) => StopsAt(buf, l)
  BY DEF FirstStop
<1>3. ASSUME l < k PROVE FALSE
  <2>1. l \in i .. k - 1 /\ l # Len(buf)
    BY <1>1, <1>2, <1>3
  <2>2. QED BY <1>2, <2>1 DEF FirstStop
<1>4. ASSUME k < l PROVE FALSE
  <2>1. k \in i .. l - 1 /\ k # Len(buf)
    BY <1>1, <1>2, <1>4
  <2>2. QED BY <1>2, <2>1 DEF FirstStop
<1>5. QED BY <1>1, <1>2, <1>3, <1>4

LEMMA TheFirstStop ==
  ASSUME NEW buf \in Seq(Byte), NEW i \in 1 .. Len(buf), NEW k, FirstStop(buf, i, k)
  PROVE  (CHOOSE l : FirstStop(buf, i, l)) = k
<1>1. FirstStop(buf, i, CHOOSE l : FirstStop(buf, i, l))
  BY Zenon
<1>2. QED BY <1>1, OneFirstStop

(* The header at the front of what is left is the one in the buffer. *)
LEMMA HeaderInRest ==
  ASSUME NEW buf \in Seq(Byte), NEW k \in 1 .. Len(buf), Len(From(buf, k)) > HeaderSize
  PROVE  LegalHeader(From(buf, k), 1) <=> LegalHeader(buf, k)
<1>1. Len(buf) \in Nat /\ Len(buf) - k + 1 > 6
  BY FromIsSuffix, LenProperties DEF HeaderSize
<1>2. /\ Len(From(buf, k)) = Len(buf) - k + 1
      /\ \A j \in 1 .. Len(buf) - k + 1 : From(buf, k)[j] = buf[Len(buf) - (Len(buf) - k + 1) + j]
  BY FromIsSuffix, <1>1 DEF IsSuffix
<1>3. From(buf, k)[5] = buf[k + 4] /\ From(buf, k)[6] = buf[k + 5]
  <2>1. 5 \in 1 .. Len(buf) - k + 1 /\ 6 \in 1 .. Len(buf) - k + 1
    BY <1>1
  <2>2. Len(buf) - (Len(buf) - k + 1) + 5 = k + 4 /\ Len(buf) - (Len(buf) - k + 1) + 6 = k + 5
    BY <1>1
  <2>3. QED BY <1>2, <2>1, <2>2
<1>4. 1 + 4 = 5 /\ 1 + 5 = 6
  OBVIOUS
<1>5. QED BY <1>3, <1>4 DEF LegalHeader

(* Where the scan stops at a legal header, or too close to the end to tell, *)
(* the search does.                                                          *)
LEMMA ScanIsStop ==
  ASSUME NEW buf \in Seq(Byte), NEW i \in 1 .. Len(buf), NEW k, ScanEnds(buf, i, k),
         Len(buf) - k + 1 > HeaderSize => LegalHeader(buf, k)
  PROVE  FirstStop(buf, i, k)
<1>1. Len(buf) \in Nat
  BY LenProperties
<1>2. k \in i .. Len(buf) /\ StopsScan(buf, k) /\ \A j \in i .. k - 1 : ~StopsScan(buf, j)
  BY DEF ScanEnds
<1>3. k # Len(buf) => StopsAt(buf, k)
  <2>1. k # Len(buf) => ~(k >= Len(buf))
    BY <1>1, <1>2
  <2>2. QED BY <1>2, <2>1 DEF StopsScan, StopsAt
<1>4. \A j \in i .. k - 1 : ~StopsAt(buf, j)
  BY <1>2 DEF StopsScan, StopsAt
<1>5. QED BY <1>2, <1>3, <1>4 DEF FirstStop

(* Where it stops at one that is not legal, the search goes on behind it. *)
LEMMA ScanGoesOn ==
  ASSUME NEW buf \in Seq(Byte), NEW i \in 1 .. Len(buf), NEW k, ScanEnds(buf, i, k),
         Len(buf) - k + 1 > HeaderSize, ~LegalHeader(buf, k)
  PROVE  /\ k + 1 \in i + 1 .. Len(buf) /\ Len(buf) - (k + 1) + 1 >= HeaderSize
         /\ \A l : FirstStop(buf, k + 1, l) => FirstStop(buf, i, l)
<1>1. Len(buf) \in Nat /\ Len(buf) - k + 1 > 6
  BY LenProperties DEF HeaderSize
<1>2. k \in i .. Len(buf) /\ \A j \in i .. k - 1 : ~StopsScan(buf, j)
  BY DEF ScanEnds
<1>3. ~StopsAt(buf, k)
  BY DEF StopsAt
<1>4. ASSUME NEW l, FirstStop(buf, k + 1, l) PROVE FirstStop(buf, i, l)
  <2>1. /\ l \in k + 1 .. Len(buf) /\ (l # Len(buf) => StopsAt(buf, l))
        /\ \A j \in k + 1 .. l - 1 : ~StopsAt(buf, j)
    BY <1>4 DEF FirstStop
  <2>2. \A j \in i .. l - 1 : j \in i .. k - 1 \/ j = k \/ j \in k + 1 .. l - 1
    BY <1>1, <1>2, <2>1
  <2>3. \A j \in i .. k - 1 : ~StopsAt(buf, j)
    BY <1>2 DEF StopsScan, StopsAt
  <2>4. \A j \in i .. l - 1 : ~StopsAt(buf, j)
    BY <1>3, <2>1, <2>2, <2>3
  <2>5. l \in i .. Len(buf)
    BY <1>1, <1>2, <2>1
  <2>6. QED BY <2>1, <2>4, <2>5 DEF FirstStop
<1>5. k + 1 \in i + 1 .. Len(buf) /\ Len(buf) - (k + 1) + 1 >= HeaderSize
  BY <1>1, <1>2 DEF HeaderSize
<1>6. QED BY <1>4, <1>5

(* A step of the search answers, if the steps behind it do. *)
LEMMA SearchStepIs ==
  ASSUME NEW buf \in Seq(Byte), NEW i \in 1 .. Len(buf) + 1, NEW next,
         \A j \in i + 1 .. Len(buf) + 1 : next[j] = AnswerFrom(buf, j)
  PROVE  SearchStep(buf, i, next) = AnswerFrom(buf, i)
<1>1. Len(buf) \in Nat
  BY LenProperties
<1>2. CASE Len(buf) - i + 1 < HeaderSize
  BY <1>2, Zenon DEF SearchStep, AnswerFrom
<1>3. CASE ~(Len(buf) - i + 1 < HeaderSize)
  <2> DEFINE k == ScanFrom(buf)[i]
  <2>1. i \in 1 .. Len(buf) /\ Len(buf) - i + 1 >= 6
    BY <1>1, <1>3 DEF HeaderSize
  <2>2. ScanEnds(buf, i, k)
    BY <2>1, ScanFromIs
  <2>3. k \in i .. Len(buf)
    BY <2>2 DEF ScanEnds
  <2> HIDE DEF k
  <2>4. k \in 1 .. Len(buf) /\ k \in Nat
    BY <2>1, <2>3, <1>1
  <2>5. Len(From(buf, k)) = Len(buf) - k + 1
    BY <1>1, <2>4, FromIsSuffix
  <2>6. ASSUME FirstStop(buf, i, k),
               Len(From(buf, k)) <= HeaderSize \/ LegalHeader(From(buf, k), 1)
        PROVE  SearchStep(buf, i, next) = AnswerFrom(buf, i)
    <3>1. (CHOOSE l : FirstStop(buf, i, l)) = k
      BY <2>1, <2>6, TheFirstStop
    <3>2. (Len(From(buf, k)) > HeaderSize) <=> ~(Len(From(buf, k)) <= HeaderSize)
      BY <1>1, <2>4, <2>5 DEF HeaderSize
    <3>3. AnswerFrom(buf, i) =
            [buffer |-> From(buf, k),
             status |-> IF Len(From(buf, k)) > HeaderSize THEN "SYNC_FOUND" ELSE "SYNC_INCOMPLETE"]
      BY <1>3, <3>1, Zenon DEF AnswerFrom
    <3>4. CASE Len(From(buf, k)) <= HeaderSize
      BY <1>3, <3>2, <3>3, <3>4 DEF SearchStep, k
    <3>5. CASE ~(Len(From(buf, k)) <= HeaderSize)
      BY <1>3, <2>6, <3>2, <3>3, <3>5 DEF SearchStep, k
    <3>6. QED BY <3>4, <3>5
  <2>7. CASE Len(From(buf, k)) <= HeaderSize
    <3>1. ~(Len(buf) - k + 1 > HeaderSize)
      BY <1>1, <2>4, <2>5, <2>7 DEF HeaderSize
    <3>2. FirstStop(buf, i, k)
      BY <2>1, <2>2, <3>1, ScanIsStop
    <3>3. QED BY <2>6, <2>7, <3>2
  <2>8. CASE Len(From(buf, k)) > HeaderSize /\ LegalHeader(From(buf, k), 1)
    <3>1. LegalHeader(buf, k)
      BY <2>4, <2>8, HeaderInRest
    <3>2. FirstStop(buf, i, k)
      BY <2>1, <2>2, <3>1, ScanIsStop
    <3>3. QED BY <2>6, <2>8, <3>2
  <2>9. CASE Len(From(buf, k)) > HeaderSize /\ ~LegalHeader(From(buf, k), 1)
    <3>1. ~LegalHeader(buf, k) /\ Len(buf) - k + 1 > HeaderSize
      BY <2>4, <2>5, <2>9, HeaderInRest
    <3>2. /\ k + 1 \in i + 1 .. Len(buf) /\ Len(buf) - (k + 1) + 1 >= HeaderSize
          /\ \A l : FirstStop(buf, k + 1, l) => FirstStop(buf, i, l)
      BY <2>1, <2>2, <3>1, ScanGoesOn
    <3>3. k + 1 \in 1 .. Len(buf) /\ k + 1 \in i + 1 .. Len(buf) + 1
      BY <1>1, <2>1, <3>2
    <3>4. PICK l : FirstStop(buf, k + 1, l)
      BY <3>3, FirstStopExists
    <3>5. (CHOOSE m : FirstStop(buf, k + 1, m)) = l
      BY <3>3, <3>4, TheFirstStop
    <3>6. (CHOOSE m : FirstStop(buf, i, m)) = l
      BY <2>1, <3>2, <3>4, TheFirstStop
    <3>7. ~(Len(buf) - (k + 1) + 1 < HeaderSize)
      BY <1>1, <2>4, <3>2 DEF HeaderSize
    <3>8. AnswerFrom(buf, k + 1) = AnswerFrom(buf, i)
      BY <1>3, <3>5, <3>6, <3>7, Zenon DEF AnswerFrom
    <3>9. ~(Len(From(buf, k)) <= HeaderSize)
      BY <1>1, <2>4, <2>5, <2>9 DEF HeaderSize
    <3>10. SearchStep(buf, i, next) = next[k + 1]
      BY <1>3, <2>9, <3>9, Zenon DEF SearchStep, k
    <3>11. QED BY <3>3, <3>8, <3>10
  <2>10. QED
    <3>1. Len(From(buf, k)) <= HeaderSize \/ Len(From(buf, k)) > HeaderSize
      BY <1>1, <2>4, <2>5 DEF HeaderSize
    <3>2. QED BY <2>7, <2>8, <2>9, <3>1
<1>4. QED BY <1>2, <1>3

LEMMA SearchIsSearch ==
  ASSUME NEW buf \in Seq(Byte)
  PROVE  \E f : IsSearch(buf, f) /\ Search(buf) = f[1]
<1> DEFINE h == [i \in 1 .. Len(buf) + 1 |-> AnswerFrom(buf, i)]
<1>1. Len(buf) \in Nat
  BY LenProperties
<1>2. \A i \in 1 .. Len(buf) + 1 : h[i] = SearchStep(buf, i, h)
  <2>1. ASSUME NEW i \in 1 .. Len(buf) + 1 PROVE h[i] = SearchStep(buf, i, h)
    <3>1. h[i] = AnswerFrom(buf, i)
      OBVIOUS
    <3>2. \A j \in i + 1 .. Len(buf) + 1 : h[j] = AnswerFrom(buf, j)
      BY <1>1
    <3> HIDE DEF h
    <3>3. SearchStep(buf, i, h) = AnswerFrom(buf, i)
      BY <3>2, SearchStepIs
    <3>4. QED BY <3>1, <3>3
  <2>2. QED BY <2>1
<1>3. IsSearch(buf, h)
  <2>1. h = [i \in 1 .. Len(buf) + 1 |-> h[i]]
    OBVIOUS
  <2> HIDE DEF h
  <2>2. QED BY <1>2, <2>1, Zenon DEF IsSearch
<1> HIDE DEF h
<1>4. IsSearch(buf, CHOOSE f : IsSearch(buf, f))
  BY <1>3, Zenon
<1>5. Search(buf) = (CHOOSE f : IsSearch(buf, f))[1]
  BY DEF Search, IsSearch, SearchStep
<1>6. QED BY <1>4, <1>5, Zenon

LEMMA SearchAnswers ==
  ASSUME NEW buf \in Seq(Byte)
  PROVE  Search(buf) = AnswerFrom(buf, 1)
<1>1. Len(buf) \in Nat
  BY LenProperties
<1>2. PICK f : IsSearch(buf, f) /\ Search(buf) = f[1]
  BY SearchIsSearch
<1>3. \A i \in 1 .. Len(buf) + 1 : f[i] = SearchStep(buf, i, f)
  BY <1>2 DEF IsSearch
<1> DEFINE Bad == {i \in 1 .. Len(buf) + 1 : f[i] # AnswerFrom(buf, i)}
<1>4. ASSUME Bad # {} PROVE FALSE
  <2>1. PICK i \in Bad : \A j \in Bad : j <= i
    <3>1. Bad \in SUBSET (1 .. Len(buf) + 1) /\ Len(buf) + 1 \in Nat
      BY <1>1
    <3> HIDE DEF Bad
    <3>2. QED BY <1>4, <3>1, GreatestOf
  <2>2. i \in 1 .. Len(buf) + 1 /\ f[i] # AnswerFrom(buf, i)
    BY <2>1
  <2>3. \A j \in i + 1 .. Len(buf) + 1 : j \in 1 .. Len(buf) + 1 /\ ~(j <= i)
    BY <1>1, <2>2
  <2>4. \A j \in i + 1 .. Len(buf) + 1 : f[j] = AnswerFrom(buf, j)
    BY <2>1, <2>3
  <2>5. SearchStep(buf, i, f) = AnswerFrom(buf, i)
    BY <2>2, <2>4, SearchStepIs
  <2>6. QED BY <1>3, <2>2, <2>5
<1>5. 1 \in 1 .. Len(buf) + 1
  BY <1>1
<1>6. QED BY <1>2, <1>4, <1>5

LEMMA SearchIs ==
  ASSUME NEW buf \in Seq(Byte)
  PROVE  Search(buf) = FindSyncWord(buf)
<1>1. Len(buf) \in Nat
  BY LenProperties
<1>2. Len(buf) - 1 + 1 = Len(buf)
  BY <1>1
<1>3. CASE Len(buf) < HeaderSize
  <2>1. From(buf, 1) = buf
    BY <1>1, SubSeqProperties DEF From
  <2>2. AnswerFrom(buf, 1) = [buffer |-> From(buf, 1), status |-> "SYNC_NOT_FOUND"]
    BY <1>2, <1>3 DEF AnswerFrom
  <2>3. FindSyncWord(buf) = [buffer |-> buf, status |-> "SYNC_NOT_FOUND"]
    BY <1>3, Zenon DEF FindSyncWord
  <2>4. QED BY <2>1, <2>2, <2>3, SearchAnswers
<1>4. CASE ~(Len(buf) < HeaderSize)
  <2> DEFINE k == SyncPosition(buf)
  <2>1. Len(buf) >= HeaderSize
    BY <1>1, <1>4 DEF HeaderSize
  <2>2. FirstStop(buf, 1, k)
    BY <2>1, SyncPositionIs DEF FirstStop
  <2>3. 1 \in 1 .. Len(buf)
    BY <1>1, <2>1 DEF HeaderSize
  <2> HIDE DEF k
  <2>4. (CHOOSE l : FirstStop(buf, 1, l)) = k
    BY <2>2, <2>3, TheFirstStop
  <2>5. AnswerFrom(buf, 1) =
          [buffer |-> From(buf, k),
           status |-> IF Len(From(buf, k)) > HeaderSize THEN "SYNC_FOUND" ELSE "SYNC_INCOMPLETE"]
    BY <1>2, <1>4, <2>4 DEF AnswerFrom
  <2>6. FindSyncWord(buf) =
          [buffer |-> From(buf, k),
           status |-> IF Len(From(buf, k)) > HeaderSize THEN "SYNC_FOUND" ELSE "SYNC_INCOMPLETE"]
    BY <1>4, Zenon DEF FindSyncWord, k
  <2>7. QED BY <2>5, <2>6, SearchAnswers
<1>5. QED BY <1>3, <1>4

(* For every buffer the decoder can hold, the search as the code computes it *)
(* (scan, check, remove a byte and start again) comes to where FindSyncWord  *)
(* says and answers what it says: it never skips a legal header, and it ends.*)
THEOREM SearchEndsThereHolds == Spec => []SearchEndsThere
<1>1. TypeOK => SearchEndsThere
  BY SearchIs DEF TypeOK, SearchEndsThere
<1>2. QED BY <1>1, TypeCorrect, PTL
=============================================================================
