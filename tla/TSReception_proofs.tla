------------------------- MODULE TSReception_proofs -------------------------
(***************************************************************************)
(* First proofs about TSPacketHandler alone, for every set of transport    *)
(* packets, every queue bound and every clock.  Then what it gives its     *)
(* decoder behind a channel that loses and repeats transport packets, for  *)
(* every layout of the stream, every modulus of the continuity counter,    *)
(* and every pattern of errors with less than a full turn of the counter   *)
(* lost.                                                                   *)
(***************************************************************************)
EXTENDS TSReception, Sums_proofs, FiniteSetTheorems

-----------------------------------------------------------------------------
(* How many bytes AddNewData appends when it is asked for s. *)
Copied(s) == IF s > 0 THEN s ELSE 0

(* AddNewData keeps a PES packet a PES packet and only makes it longer.    *)
LEMMA AddNewDataProperties ==
  ASSUME NEW pes \in PESPacket_t, NEW d \in Seq(Bytes), NEW s \in Int, s <= Len(d)
  PROVE  LET q == AddNewData(pes, d, s)
         IN  /\ q \in PESPacket_t
             /\ q.PTS = pes.PTS
             /\ q.pesPacketLength = pes.pesPacketLength
             /\ q.Started = pes.Started
             /\ q.Complete <=> Len(q.payload) = q.pesPacketLength
             /\ Len(q.payload) = Len(pes.payload) + Copied(s)
             /\ \A i \in 1 .. Len(pes.payload) : q.payload[i] = pes.payload[i]
<1> DEFINE data == pes.payload \o SubSeq(d, 1, s)
<1>1. pes.payload \in Seq(Bytes) /\ pes.pesPacketLength \in Nat \ {0}
  BY DEF PESPacket_t
<1>2. /\ SubSeq(d, 1, s) \in Seq(Bytes) /\ Len(SubSeq(d, 1, s)) = Copied(s)
      /\ Copied(s) \in Nat
  <2>1. \A i \in 1 .. s : d[i] \in Bytes
    <3>1. Len(d) \in Nat /\ \A i \in 1 .. s : i \in 1 .. Len(d)
      BY LenProperties
    <3>2. QED BY <3>1, ElementOfSeq
  <2>2. /\ SubSeq(d, 1, s) \in Seq(Bytes)
        /\ Len(SubSeq(d, 1, s)) = IF 1 <= s THEN s - 1 + 1 ELSE 0
    BY <2>1, SubSeqProperties
  <2>3. QED BY <2>2 DEF Copied
<1>3. /\ data \in Seq(Bytes)
      /\ Len(data) = Len(pes.payload) + Copied(s)
      /\ \A i \in 1 .. Len(pes.payload) : data[i] = pes.payload[i]
  <2> DEFINE t == SubSeq(d, 1, s)
  <2>1. Len(pes.payload) \in Nat
    BY <1>1, LenProperties
  <2> HIDE DEF t
  <2>2. t \in Seq(Bytes) /\ Len(t) = Copied(s) /\ Copied(s) \in Nat
    BY <1>2 DEF t
  <2>3. /\ pes.payload \o t \in Seq(Bytes)
        /\ Len(pes.payload \o t) = Len(pes.payload) + Len(t)
        /\ \A i \in 1 .. Len(pes.payload) + Len(t) :
             (pes.payload \o t)[i] =
               IF i <= Len(pes.payload) THEN pes.payload[i] ELSE t[i - Len(pes.payload)]
    BY <1>1, <2>2, ConcatProperties
  <2>4. data = pes.payload \o t
    BY DEF t
  <2> HIDE DEF data
  <2>5. \A i \in 1 .. Len(pes.payload) : i \in 1 .. Len(pes.payload) + Len(t)
    BY <2>1, <2>2
  <2>6. QED BY <2>1, <2>2, <2>3, <2>4, <2>5
<1>4. (Len(data) = pes.pesPacketLength) \in BOOLEAN
  OBVIOUS
<1> HIDE DEF data
<1>5. QED BY <1>1, <1>3, <1>4 DEF AddNewData, PESPacket_t, data

(* What a transport packet of the model is. *)
LEMMA PacketFacts ==
  ASSUME NEW ts \in TSPackets
  PROVE  /\ ts.payload \in Seq(Bytes)
         /\ ts.payloadSize \in Int /\ Len(ts.payload) = Copied(ts.payloadSize)
         /\ Len(ts.payload) \in Nat /\ ts.payloadSize <= Len(ts.payload)
         /\ ts.cc \in Nat /\ ts.pts \in 0 .. PtsMax /\ ts.pesSize \in Nat \ {0}
<1>1. ts \in TransportPacket /\ Len(ts.payload) = Copied(ts.payloadSize)
  BY PacketAssumption DEF Copied
<1>2. /\ ts.payload \in Seq(Bytes) /\ ts.payloadSize \in Int
      /\ ts.cc \in 0 .. CCModulus - 1 /\ ts.pts \in 0 .. PtsMax /\ ts.pesSize \in Nat \ {0}
  BY <1>1 DEF TransportPacket
<1>3. Len(ts.payload) \in Nat /\ ts.payloadSize <= Len(ts.payload)
  BY <1>1, <1>2 DEF Copied
<1>4. QED BY <1>1, <1>2, <1>3, CCAssumption

(* What is appended to a PES packet that is begun and has room left.  *)
LEMMA AddedProperties ==
  ASSUME NEW ts \in TSPackets, NEW pes \in PESPacket_t,
         pes.Started, Len(pes.payload) \in 0 .. pes.pesPacketLength
  PROVE  LET s == CopySize(pes, ts)
             q == AddNewData(pes, ts.payload, s)
         IN  /\ q \in PESPacket_t /\ WellFormed(q) /\ q.Started
             /\ q.PTS = pes.PTS /\ q.pesPacketLength = pes.pesPacketLength
             /\ s \in Int /\ s <= ts.payloadSize
             /\ s = ts.payloadSize \/ s = pes.pesPacketLength - Len(pes.payload)
             /\ Len(q.payload) = Len(pes.payload) + Copied(s)
             /\ \A i \in 1 .. Len(pes.payload) : q.payload[i] = pes.payload[i]
<1> DEFINE s == CopySize(pes, ts)
           q == AddNewData(pes, ts.payload, s)
<1>1. pes.pesPacketLength \in Nat \ {0} /\ Len(pes.payload) \in Nat
  BY DEF PESPacket_t
<1>2. /\ s \in Int /\ s <= ts.payloadSize /\ s <= Len(ts.payload)
      /\ s = ts.payloadSize \/ s = pes.pesPacketLength - Len(pes.payload)
      /\ Len(pes.payload) + Copied(s) \in 0 .. pes.pesPacketLength
  BY <1>1, PacketFacts DEF CopySize, Smaller, Copied
<1> HIDE DEF s
<1>3. /\ q \in PESPacket_t
      /\ q.PTS = pes.PTS
      /\ q.pesPacketLength = pes.pesPacketLength
      /\ q.Started = pes.Started
      /\ q.Complete <=> Len(q.payload) = q.pesPacketLength
      /\ Len(q.payload) = Len(pes.payload) + Copied(s)
      /\ \A i \in 1 .. Len(pes.payload) : q.payload[i] = pes.payload[i]
  BY <1>2, PacketFacts, AddNewDataProperties
<1> HIDE DEF q
<1>4. WellFormed(q) /\ q.Started
  BY <1>2, <1>3 DEF WellFormed
<1>5. QED BY <1>2, <1>3, <1>4 DEF s, q

(* A header of this stream starts a PES packet; its data are the payload, or *)
(* as much of it as the header announced.                                    *)
LEMMA NewPESPacketProperties ==
  ASSUME NEW ts \in TSPackets
  PROVE  LET pes == NewPESPacket(ts)
         IN  /\ pes \in PESPacket_t /\ WellFormed(pes) /\ pes.Started
             /\ ts.payloadSize \in 0 .. ts.pesSize => Len(pes.payload) = ts.payloadSize
<1> DEFINE empty == [PTS |-> ts.pts, pesPacketLength |-> ts.pesSize, payload |-> <<>>,
                     Started |-> TRUE, Complete |-> FALSE]
           s == CopySize(empty, ts)
           q == AddNewData(empty, ts.payload, s)
<1>1. /\ empty \in PESPacket_t /\ empty.Started
      /\ Len(empty.payload) = 0 /\ empty.pesPacketLength = ts.pesSize
      /\ Len(empty.payload) \in 0 .. empty.pesPacketLength
      /\ ts.payloadSize \in Int /\ ts.pesSize \in Nat
  BY PacketFacts DEF PESPacket_t
<1>2. ts.payloadSize \in 0 .. ts.pesSize => s = ts.payloadSize /\ Copied(s) = ts.payloadSize
  BY <1>1 DEF CopySize, Smaller, Copied
<1>3. NewPESPacket(ts) = q
  BY DEF NewPESPacket
<1> HIDE DEF empty
<1>4. q \in PESPacket_t /\ WellFormed(q) /\ q.Started /\ Len(q.payload) = Len(empty.payload) + Copied(s)
  BY <1>1, AddedProperties
<1> HIDE DEF q, s
<1>5. ts.payloadSize \in 0 .. ts.pesSize => Len(q.payload) = ts.payloadSize
  BY <1>1, <1>2, <1>4
<1>6. QED BY <1>3, <1>4, <1>5

(* Continuing a PES packet that waits for data extends it, up to its length. *)
LEMMA ContinuedPESPacketProperties ==
  ASSUME NEW ts \in TSPackets, NEW pes \in PESPacket_t, WellFormed(pes), pes.Started
  PROVE  LET q == ContinuedPESPacket(pes, ts)
         IN  /\ q \in PESPacket_t /\ WellFormed(q) /\ q.Started
             /\ Fifo!Extends(q, pes)
             /\ CopySize(pes, ts) \in Int
             /\ ts.payloadSize >= 0 =>
                  /\ CopySize(pes, ts) \in Nat
                  /\ Len(q.payload) = Len(pes.payload) + CopySize(pes, ts)
<1> DEFINE s == CopySize(pes, ts)
           q == AddNewData(pes, ts.payload, s)
<1>1. /\ pes.pesPacketLength \in Nat \ {0}
      /\ Len(pes.payload) \in 0 .. pes.pesPacketLength /\ pes.Started
      /\ ts.payloadSize \in Int
  BY PacketFacts DEF WellFormed, Void, PESPacket_t
<1>2. /\ q \in PESPacket_t /\ WellFormed(q) /\ q.Started
      /\ q.PTS = pes.PTS /\ q.pesPacketLength = pes.pesPacketLength
      /\ s \in Int
      /\ s = ts.payloadSize \/ s = pes.pesPacketLength - Len(pes.payload)
      /\ Len(q.payload) = Len(pes.payload) + Copied(s)
      /\ \A i \in 1 .. Len(pes.payload) : q.payload[i] = pes.payload[i]
  BY <1>1, AddedProperties
<1> HIDE DEF q, s
<1>3. ts.payloadSize >= 0 => s \in Nat /\ Copied(s) = s
  BY <1>1, <1>2 DEF Copied
<1>4. Len(pes.payload) <= Len(q.payload)
  <2> DEFINE n == Len(pes.payload)
             m == Len(q.payload)
  <2>1. n \in Nat /\ Copied(s) \in Nat /\ m = n + Copied(s)
    BY <1>1, <1>2 DEF Copied
  <2> HIDE DEF n, m
  <2>2. n <= m
    BY <2>1
  <2>3. QED BY <2>2 DEF n, m
<1>5. Fifo!Extends(q, pes)
  BY <1>2, <1>4 DEF Fifo!Extends
<1>6. QED BY <1>2, <1>3, <1>5 DEF ContinuedPESPacket, q, s

-----------------------------------------------------------------------------
(* What the four ways of changing the queue do to its discipline.          *)

(* Nothing will be added to the packet any more. *)
Settled(pes) == pes.Complete \/ Void(pes)

Queue(q) == q \in Seq(PESPacket_t) /\ WellQueued(q)

LEMMA EmptyQueue ==
  /\ Queue(<<>>) /\ ~Assembling(<<>>)
  /\ Ready(<<>>) = <<>> /\ Partial(<<>>) = NoPES
<1>1. <<>> \in Seq(PESPacket_t) /\ Len(<<>>) = 0
  BY EmptySeq
<1>2. QED BY <1>1 DEF Queue, WellQueued, Assembling, Ready, Partial

LEMMA LastOfQueue ==
  ASSUME NEW q, Queue(q), q # <<>>
  PROVE  /\ Len(q) \in Nat \ {0}
         /\ Last(q) \in PESPacket_t /\ WellFormed(Last(q))
         /\ Head(q) \in PESPacket_t /\ WellFormed(Head(q))
<1>1. q \in Seq(PESPacket_t) /\ Len(q) \in Nat \ {0}
  BY EmptySeq DEF Queue
<1>2. Len(q) \in 1 .. Len(q) /\ 1 \in 1 .. Len(q)
  BY <1>1
<1>3. q[Len(q)] \in PESPacket_t /\ q[1] \in PESPacket_t
  BY <1>1, <1>2, ElementOfSeq
<1>4. WellFormed(q[Len(q)]) /\ WellFormed(q[1])
  BY <1>2 DEF Queue, WellQueued
<1>5. Head(q) = q[1] /\ Last(q) = q[Len(q)]
  BY <1>1 DEF Last
<1>6. QED BY <1>1, <1>3, <1>4, <1>5

LEMMA AppendToQueue ==
  ASSUME NEW q, Queue(q), ~Assembling(q),
         NEW pes \in PESPacket_t, WellFormed(pes)
  PROVE  /\ Queue(Append(q, pes))
         /\ Append(q, pes) # <<>>
         /\ Last(Append(q, pes)) = pes
         /\ Front(Append(q, pes)) = q
<1> DEFINE r == Append(q, pes)
<1>1. q \in Seq(PESPacket_t) /\ Len(q) \in Nat
  BY LenProperties DEF Queue
<1>2. /\ r \in Seq(PESPacket_t) /\ r # <<>>
      /\ Len(r) = Len(q) + 1
      /\ \A i \in 1 .. Len(q) : r[i] = q[i]
      /\ r[Len(q) + 1] = pes
  BY <1>1, AppendProperties
<1> HIDE DEF r
<1>3. \A i \in 1 .. Len(r) : WellFormed(r[i])
  BY <1>1, <1>2 DEF Queue, WellQueued
<1>4. \A i \in 1 .. Len(r) - 1 : Settled(r[i])
  <2>1. SUFFICES ASSUME NEW i \in 1 .. Len(q) PROVE Settled(q[i])
    BY <1>1, <1>2
  <2>2. CASE i = Len(q)
    <3>1. q # <<>> /\ WellFormed(q[i])
      BY <2>2, <1>1, EmptySeq DEF Queue, WellQueued
    <3>2. QED BY <2>2, <3>1 DEF Assembling, Last, WellFormed, Settled
  <2>3. CASE i # Len(q)
    BY <2>3, <1>1 DEF Queue, WellQueued, Settled
  <2>4. QED BY <2>2, <2>3
<1>5. Last(r) = pes
  BY <1>1, <1>2 DEF Last
<1>6. Front(r) = q
  <2>1. Len(r) - 1 = Len(q)
    BY <1>1, <1>2
  <2>2. \A i \in 1 .. Len(q) : r[i] \in PESPacket_t
    BY <1>1, <1>2, ElementOfSeq
  <2>3. /\ SubSeq(r, 1, Len(q)) \in Seq(PESPacket_t)
        /\ Len(SubSeq(r, 1, Len(q))) = Len(q)
        /\ \A i \in 1 .. Len(q) : SubSeq(r, 1, Len(q))[i] = r[i]
    <3>1. /\ SubSeq(r, 1, Len(q)) \in Seq(PESPacket_t)
          /\ Len(SubSeq(r, 1, Len(q))) = IF 1 <= Len(q) THEN Len(q) - 1 + 1 ELSE 0
          /\ \A i \in 1 .. Len(q) - 1 + 1 : SubSeq(r, 1, Len(q))[i] = r[1 + i - 1]
      BY <1>1, <2>2, SubSeqProperties
    <3>2. \A i \in 1 .. Len(q) : 1 + i - 1 = i
      BY <1>1
    <3> DEFINE t == SubSeq(r, 1, Len(q))
    <3> HIDE DEF t
    <3>3. /\ t \in Seq(PESPacket_t) /\ Len(t) = Len(q)
          /\ \A i \in 1 .. Len(q) : t[i] = r[i]
      BY <3>1, <3>2, <1>1 DEF t
    <3>4. QED BY <3>3 DEF t
  <2> DEFINE t == SubSeq(r, 1, Len(q))
  <2> HIDE DEF t
  <2>4. /\ t \in Seq(PESPacket_t) /\ Len(t) = Len(q)
        /\ \A i \in 1 .. Len(q) : t[i] = q[i]
    BY <2>3, <1>2 DEF t
  <2>5. t = q
    BY <2>4, <1>1, SeqEqual
  <2>6. QED BY <2>5, <2>1 DEF Front, t
<1>7. QED BY <1>2, <1>3, <1>4, <1>5, <1>6 DEF Queue, WellQueued, Settled, r

LEMMA FrontOfQueue ==
  ASSUME NEW q, Queue(q), q # <<>>
  PROVE  /\ Queue(Front(q))
         /\ ~Assembling(Front(q))
         /\ Len(Front(q)) = Len(q) - 1
         /\ \A i \in 1 .. Len(q) - 1 : Front(q)[i] = q[i]
<1> DEFINE r == SubSeq(q, 1, Len(q) - 1)
<1>1. q \in Seq(PESPacket_t) /\ Len(q) \in Nat \ {0}
  BY LastOfQueue DEF Queue
<1>2. \A i \in 1 .. Len(q) - 1 : q[i] \in PESPacket_t
  BY <1>1, ElementOfSeq
<1>3. PICK m \in Nat : m = Len(q) - 1
  BY <1>1
<1>4. /\ r \in Seq(PESPacket_t) /\ Len(r) = Len(q) - 1
      /\ \A i \in 1 .. Len(q) - 1 : r[i] = q[i]
  <2>1. /\ SubSeq(q, 1, m) \in Seq(PESPacket_t)
        /\ Len(SubSeq(q, 1, m)) = IF 1 <= m THEN m - 1 + 1 ELSE 0
        /\ \A i \in 1 .. m - 1 + 1 : SubSeq(q, 1, m)[i] = q[1 + i - 1]
    BY <1>2, <1>3, SubSeqProperties
  <2> DEFINE t == SubSeq(q, 1, m)
  <2> HIDE DEF t
  <2>2. /\ t \in Seq(PESPacket_t) /\ Len(t) = m
        /\ \A i \in 1 .. m : t[i] = q[i]
    BY <2>1, <1>3 DEF t
  <2>3. t = r
    BY <1>3 DEF t
  <2> HIDE DEF r
  <2>4. QED BY <2>2, <2>3, <1>3
<1> HIDE DEF r
<1>5. WellQueued(r)
  BY <1>1, <1>4 DEF Queue, WellQueued
<1>6. r # <<>> => Settled(r[Len(r)])
  <2>1. ASSUME r # <<>> PROVE Len(r) \in 1 .. Len(q) - 1
    BY <2>1, <1>1, <1>4, EmptySeq
  <2>2. QED BY <2>1, <1>4 DEF Queue, WellQueued, Settled
<1>7. QED BY <1>4, <1>5, <1>6 DEF Queue, Assembling, Settled, Void, Last, Front, r

(* The last packet is replaced by one that is well formed. *)
LEMMA ReplaceLastOfQueue ==
  ASSUME NEW q, Queue(q), q # <<>>,
         NEW pes \in PESPacket_t, WellFormed(pes)
  PROVE  LET r == [q EXCEPT ![Len(q)] = pes]
         IN  Queue(r) /\ r # <<>> /\ Last(r) = pes /\ Front(r) = Front(q)
<1> DEFINE r == [q EXCEPT ![Len(q)] = pes]
<1>1. q \in Seq(PESPacket_t) /\ Len(q) \in Nat \ {0}
  BY LastOfQueue DEF Queue
<1>2. /\ r \in Seq(PESPacket_t) /\ Len(r) = Len(q)
      /\ \A j \in 1 .. Len(q) : r[j] = IF j = Len(q) THEN pes ELSE q[j]
  <2>1. Len(q) \in 1 .. Len(q)
    BY <1>1
  <2>2. QED BY <1>1, <2>1, ExceptSeq
<1> HIDE DEF r
<1>3. r # <<>> /\ r[Len(r)] = pes
  BY <1>1, <1>2, EmptySeq
<1>4. WellQueued(r)
  <2>1. \A i \in 1 .. Len(r) : WellFormed(r[i])
    BY <1>1, <1>2 DEF Queue, WellQueued
  <2>2. \A i \in 1 .. Len(r) - 1 : Settled(r[i])
    <3>1. \A i \in 1 .. Len(r) - 1 : r[i] = q[i]
      BY <1>1, <1>2
    <3>2. QED BY <1>2, <3>1 DEF Queue, WellQueued, Settled
  <2>3. QED BY <2>1, <2>2 DEF WellQueued, Settled
<1>5. Queue(r)
  BY <1>2, <1>4 DEF Queue
<1>6. Front(r) = Front(q)
  <2>1. /\ Queue(Front(r)) /\ Len(Front(r)) = Len(q) - 1
        /\ \A i \in 1 .. Len(q) - 1 : Front(r)[i] = r[i]
    BY <1>2, <1>3, <1>5, FrontOfQueue
  <2>2. /\ Queue(Front(q)) /\ Len(Front(q)) = Len(q) - 1
        /\ \A i \in 1 .. Len(q) - 1 : Front(q)[i] = q[i]
    BY FrontOfQueue
  <2>3. \A i \in 1 .. Len(q) - 1 : r[i] = q[i]
    BY <1>1, <1>2
  <2> DEFINE f == Front(r)
             g == Front(q)
  <2> HIDE DEF f, g
  <2>4. /\ f \in Seq(PESPacket_t) /\ g \in Seq(PESPacket_t) /\ Len(f) = Len(g)
        /\ \A i \in 1 .. Len(f) : f[i] = g[i]
    BY <2>1, <2>2, <2>3 DEF Queue, f, g
  <2>5. f = g
    BY <2>4, SeqEqual
  <2>6. QED BY <2>5 DEF f, g
<1>7. QED BY <1>3, <1>5, <1>6 DEF Last, r

(* A packet at the front that waits for nothing leaves. *)
LEMMA TailOfQueue ==
  ASSUME NEW q, Queue(q), q # <<>>, Settled(Head(q))
  PROVE  /\ Queue(Tail(q))
         /\ Ready(q) # <<>>
         /\ Head(Ready(q)) = Head(q)
         /\ Tail(Ready(q)) = Ready(Tail(q))
         /\ Partial(Tail(q)) = Partial(q)
         /\ Assembling(Tail(q)) <=> Assembling(q)
<1> DEFINE r == Tail(q)
           f == Front(q)
<1>1. q \in Seq(PESPacket_t) /\ Len(q) \in Nat \ {0} /\ Head(q) = q[1]
  BY LastOfQueue DEF Queue
<1>2. /\ r \in Seq(PESPacket_t) /\ Len(r) = Len(q) - 1
      /\ \A i \in 1 .. Len(r) : r[i] = q[i + 1]
  BY <1>1, HeadTailProperties
<1> HIDE DEF r
<1>3. Queue(r)
  <2>1. \A i \in 1 .. Len(r) : WellFormed(r[i])
    BY <1>1, <1>2 DEF Queue, WellQueued
  <2>2. \A i \in 1 .. Len(r) - 1 : Settled(r[i])
    <3>1. \A i \in 1 .. Len(r) - 1 : i \in 1 .. Len(r) /\ i + 1 \in 1 .. Len(q) - 1
      BY <1>1, <1>2
    <3>2. QED BY <1>2, <3>1 DEF Queue, WellQueued, Settled
  <2>3. QED BY <1>2, <2>1, <2>2 DEF Queue, WellQueued, Settled
<1>4. (Assembling(r) <=> Assembling(q)) /\ (Assembling(q) => r # <<>> /\ Last(r) = Last(q))
  <2>1. CASE Len(q) = 1
    <3>1. r = <<>>
      BY <2>1, <1>2, EmptySeq
    <3>2. Last(q) = Head(q)
      BY <2>1, <1>1 DEF Last
    <3>3. QED BY <3>1, <3>2 DEF Assembling, Settled, Void
  <2>2. CASE Len(q) # 1
    <3>1. Len(r) \in 1 .. Len(r) /\ Len(r) + 1 = Len(q) /\ r # <<>>
      BY <2>2, <1>1, <1>2, EmptySeq
    <3>2. r[Len(r)] = q[Len(q)]
      BY <3>1, <1>2
    <3>3. QED BY <3>1, <3>2 DEF Assembling, Last
  <2>3. QED BY <2>1, <2>2
<1>5. CASE ~Assembling(q)
  <2>1. Ready(q) = q /\ Ready(r) = r /\ Partial(r) = NoPES /\ Partial(q) = NoPES
    BY <1>4, <1>5 DEF Ready, Partial
  <2>2. QED BY <1>3, <1>4, <2>1 DEF r
<1>6. CASE Assembling(q)
  <2>1. /\ Ready(q) = f /\ Ready(r) = Front(r)
        /\ Partial(r) = Partial(q) /\ r # <<>>
    BY <1>4, <1>6 DEF Ready, Partial
  <2>2. /\ f \in Seq(PESPacket_t) /\ Len(f) = Len(q) - 1
        /\ \A i \in 1 .. Len(q) - 1 : f[i] = q[i]
    BY FrontOfQueue DEF Queue
  <2>3. /\ Front(r) \in Seq(PESPacket_t) /\ Len(Front(r)) = Len(r) - 1
        /\ \A i \in 1 .. Len(r) - 1 : Front(r)[i] = r[i]
    BY <1>3, <2>1, FrontOfQueue DEF Queue
  <2> HIDE DEF f
  <2>4. Len(r) \in Nat \ {0} /\ Len(f) = Len(r)
    BY <1>3, <2>1, LastOfQueue, <1>2, <2>2
  <2>5. f # <<>> /\ Head(f) = q[1]
    BY <2>2, <2>4, EmptySeq
  <2>6. /\ Tail(f) \in Seq(PESPacket_t) /\ Len(Tail(f)) = Len(f) - 1
        /\ \A i \in 1 .. Len(Tail(f)) : Tail(f)[i] = f[i + 1]
    BY <2>2, <2>5, HeadTailProperties
  <2> DEFINE t == Tail(f)
             u == Front(r)
  <2> HIDE DEF t, u
  <2>7. Len(t) = Len(u) /\ t \in Seq(PESPacket_t) /\ u \in Seq(PESPacket_t)
    BY <2>3, <2>4, <2>6 DEF t, u
  <2>8. \A i \in 1 .. Len(t) : t[i] = u[i]
    <3>1. SUFFICES ASSUME NEW i \in 1 .. Len(t) PROVE t[i] = u[i]
      OBVIOUS
    <3>2. /\ i \in 1 .. Len(r) - 1 /\ i \in 1 .. Len(r) /\ i + 1 \in 1 .. Len(q) - 1
      BY <2>4, <2>6, <1>1, <1>2 DEF t
    <3>3. t[i] = f[i + 1] /\ u[i] = r[i] /\ r[i] = q[i + 1] /\ f[i + 1] = q[i + 1]
      BY <3>2, <2>2, <2>3, <2>6, <1>2 DEF t, u
    <3>4. QED BY <3>3
  <2>9. t = u
    BY <2>7, <2>8, SeqEqual
  <2>10. QED BY <1>1, <1>3, <1>4, <2>1, <2>5, <2>9 DEF r, f, t, u
<1>7. QED BY <1>5, <1>6

-----------------------------------------------------------------------------
(* The inductive invariant, and what each branch of NextPacket does to it   *)
(* and to the queue the decoder sees.                                       *)

IInv == TypeOK /\ QueueDiscipline /\ DecodesComplete

LEMMA LevelInRange ==
  ASSUME NEW n \in Int
  PROVE  Level(n) \in 0 .. LevelModulus - 1
BY LevelAssumption DEF Level

(* The part of the invariant that the queue's branches have to restore.     *)
QueueInv ==
  /\ Queue(PESdata)
  /\ BufferLevel \in 0 .. LevelModulus - 1
  /\ CurrentState \in {WaitForPesStart, WaitForPESData}
  /\ status \in {"live", "crashed", "destroyed"}
  /\ status = "live" => (CurrentState = WaitForPESData <=> Assembling(PESdata))

LEMMA QueueInvFromIInv == IInv => QueueInv
BY DEF IInv, TypeOK, QueueDiscipline, QueueInv, Queue

(* The queue the decoder sees is the one PESFifo's step leaves. *)
FifoStep ==
  \/ Fifo!Begin \/ Fifo!BeginWhole \/ Fifo!Extend \/ Fifo!Finish
  \/ Fifo!Abandon \/ Fifo!AbandonInPlace \/ Fifo!Vacate

LEMMA StartPESStep ==
  ASSUME QueueInv, status = "live", CurrentState = WaitForPesStart,
         stream_id \in StreamIds, NEW ts \in TSPackets, StartPES(ts)
  PROVE  QueueInv' /\ FifoStep /\ status' = "live"
<1> DEFINE pes == NewPESPacket(ts)
<1>1. pes \in PESPacket_t /\ WellFormed(pes) /\ pes.Started
  BY NewPESPacketProperties
<1>2. /\ PESdata' = Append(PESdata, pes) /\ status' = status
      /\ BufferLevel' = Level(BufferLevel + ts.payloadSize)
      /\ CurrentState' = StateAfter(pes)
  BY DEF StartPES
<1>3. Queue(PESdata) /\ ~Assembling(PESdata)
  BY DEF QueueInv, WaitForPesStart, WaitForPESData
<1> HIDE DEF pes
<1>4. Queue(PESdata') /\ PESdata' # <<>> /\ Last(PESdata') = pes /\ Front(PESdata') = PESdata
  BY <1>1, <1>2, <1>3, AppendToQueue
<1>5. /\ CurrentState' \in {WaitForPesStart, WaitForPESData}
      /\ CurrentState' = WaitForPESData <=> Assembling(PESdata')
  BY <1>1, <1>2, <1>4
     DEF StateAfter, Assembling, WaitForPesStart, WaitForPESData
<1>6. BufferLevel' \in 0 .. LevelModulus - 1
  <2>1. BufferLevel + ts.payloadSize \in Int
    BY PacketFacts, LevelAssumption DEF QueueInv
  <2>2. QED BY <1>2, <2>1, LevelInRange
<1>7. QueueInv'
  BY <1>2, <1>4, <1>5, <1>6 DEF QueueInv
<1>8. Ready(PESdata) = PESdata /\ Partial(PESdata) = NoPES
  BY <1>3 DEF Ready, Partial
<1>9. CASE pes.Complete
  <2>1. ~Assembling(PESdata')
    BY <1>4, <1>9 DEF Assembling
  <2>2. Ready(PESdata') = Append(PESdata, pes) /\ Partial(PESdata') = NoPES
    BY <1>2, <2>1 DEF Ready, Partial
  <2>3. /\ Len(PESdata) \in Nat
        /\ Len(Append(PESdata, pes)) = Len(PESdata) + 1
        /\ \A i \in 1 .. Len(PESdata) : Append(PESdata, pes)[i] = PESdata[i]
        /\ Append(PESdata, pes)[Len(PESdata) + 1] = pes
    BY <1>1, <1>3, AppendProperties, LenProperties DEF Queue
  <2>4. Fifo!BeginWhole
    BY <1>1, <1>8, <1>9, <2>2, <2>3
       DEF Fifo!BeginWhole, Fifo!OneMoreReady, Fifo!OneMore, Fifo!Whole, Fifo!Free
  <2>5. QED BY <1>2, <1>7, <2>4 DEF FifoStep
<1>10. CASE ~pes.Complete
  <2>1. Assembling(PESdata')
    BY <1>1, <1>4, <1>10 DEF Assembling
  <2>2. Ready(PESdata') = PESdata /\ Partial(PESdata') = pes
    BY <1>4, <2>1 DEF Ready, Partial
  <2>3. Fifo!Begin
    BY <1>1, <1>8, <1>10, <2>2 DEF Fifo!Begin, Fifo!Incomplete, Fifo!Free
  <2>4. QED BY <1>2, <1>7, <2>3 DEF FifoStep
<1>11. QED BY <1>9, <1>10

(* The packet at the back of the queue is dropped while it is incomplete: it *)
(* was being assembled, or it is void.                                       *)
LEMMA DropLastStep ==
  ASSUME QueueInv, PESdata # <<>>, ~Last(PESdata).Complete,
         PESdata' = Front(PESdata),
         BufferLevel' = Level(BufferLevel - Len(Last(PESdata).payload))
  PROVE  /\ Queue(PESdata') /\ ~Assembling(PESdata')
         /\ BufferLevel' \in 0 .. LevelModulus - 1
         /\ IF Assembling(PESdata) THEN Fifo!Abandon ELSE Fifo!Vacate
<1> DEFINE last == Last(PESdata)
<1>1. Queue(PESdata)
  BY DEF QueueInv
<1>2. Queue(PESdata') /\ ~Assembling(PESdata')
  BY <1>1, FrontOfQueue
<1>3. last \in PESPacket_t /\ WellFormed(last)
  BY <1>1, LastOfQueue
<1>4. BufferLevel' \in 0 .. LevelModulus - 1
  <2>1. Len(last.payload) \in Nat
    BY <1>3, LenProperties DEF PESPacket_t
  <2>2. BufferLevel - Len(last.payload) \in Int
    BY <2>1, LevelAssumption DEF QueueInv
  <2>3. QED BY <2>2, LevelInRange
<1>5. Ready(PESdata') = Front(PESdata) /\ Partial(PESdata') = NoPES
  BY <1>2 DEF Ready, Partial
<1>6. CASE Assembling(PESdata)
  <2>1. Ready(PESdata) = Front(PESdata) /\ Partial(PESdata) = last
    BY <1>6 DEF Ready, Partial
  <2>2. Fifo!Abandon
    BY <1>3, <1>5, <2>1, StreamAssumption DEF Fifo!Abandon
  <2>3. QED BY <1>2, <1>4, <1>6, <2>2
<1>7. CASE ~Assembling(PESdata)
  <2>1. Ready(PESdata) = PESdata /\ Partial(PESdata) = NoPES
    BY <1>7 DEF Ready, Partial
  <2>2. Void(last)
    BY <1>3, <1>7 DEF Assembling, WellFormed
  <2>3. Fifo!Vacate
    <3>1. Fifo!Last(PESdata) = last /\ Fifo!Front(PESdata) = Front(PESdata)
      BY DEF Fifo!Last, Fifo!Front, Last, Front
    <3>2. QED BY <1>3, <1>5, <2>1, <2>2, <3>1 DEF Fifo!Vacate, Fifo!VoidUnit, Void
  <2>4. QED BY <1>2, <1>4, <1>7, <2>3
<1>8. QED BY <1>6, <1>7

(* The packet that waits for data is replaced: the decoder sees it replaced, *)
(* or one more packet that nothing will be added to.                         *)
LEMMA ReplaceStep ==
  ASSUME QueueInv, Assembling(PESdata), NEW pes \in PESPacket_t, WellFormed(pes),
         PESdata' = WithLast(pes)
  PROVE  /\ Queue(PESdata') /\ PESdata' # <<>> /\ Last(PESdata') = pes
         /\ Ready(PESdata) = Front(PESdata)
         /\ Partial(PESdata) = Last(PESdata) /\ Last(PESdata) # NoPES
         /\ Assembling(PESdata') <=> (pes.Started /\ ~pes.Complete)
         /\ IF Assembling(PESdata')
            THEN Ready(PESdata') = Ready(PESdata) /\ Partial(PESdata') = pes
            ELSE /\ Partial(PESdata') = NoPES
                 /\ Fifo!OneMore /\ Ready(PESdata')[Len(Ready(PESdata'))] = pes
<1>1. PESdata # <<>> /\ Queue(PESdata)
  BY DEF QueueInv, Assembling
<1>2. Last(PESdata) \in PESPacket_t
  BY <1>1, LastOfQueue
<1>3. PESdata' = [PESdata EXCEPT ![Len(PESdata)] = pes]
  BY DEF WithLast
<1>4. /\ Queue(PESdata') /\ PESdata' # <<>> /\ Last(PESdata') = pes
      /\ Front(PESdata') = Front(PESdata)
  BY <1>1, <1>3, ReplaceLastOfQueue
<1>5. /\ Ready(PESdata) = Front(PESdata) /\ Partial(PESdata) = Last(PESdata)
      /\ Last(PESdata) # NoPES
  BY <1>2, StreamAssumption DEF Ready, Partial
<1>6. Assembling(PESdata') <=> (pes.Started /\ ~pes.Complete)
  BY <1>4 DEF Assembling
<1>7. CASE Assembling(PESdata')
  <2>1. Ready(PESdata') = Front(PESdata) /\ Partial(PESdata') = pes
    BY <1>4, <1>7 DEF Ready, Partial
  <2>2. QED BY <1>4, <1>5, <1>6, <1>7, <2>1
<1>8. CASE ~Assembling(PESdata')
  <2>1. Ready(PESdata') = PESdata' /\ Partial(PESdata') = NoPES
    BY <1>8 DEF Ready, Partial
  <2>2. /\ Len(PESdata) \in Nat \ {0}
        /\ Len(Front(PESdata)) = Len(PESdata) - 1
        /\ \A i \in 1 .. Len(PESdata) - 1 : Front(PESdata)[i] = PESdata[i]
    BY <1>1, LastOfQueue, FrontOfQueue
  <2>3. /\ Len(PESdata') = Len(PESdata)
        /\ \A i \in 1 .. Len(PESdata) : PESdata'[i] = IF i = Len(PESdata) THEN pes ELSE PESdata[i]
    <3>1. PESdata \in Seq(PESPacket_t) /\ Len(PESdata) \in 1 .. Len(PESdata)
      BY <1>1, <2>2 DEF Queue
    <3>2. QED BY <1>3, <3>1, ExceptSeq
  <2>4. /\ Len(PESdata') = Len(Front(PESdata)) + 1
        /\ \A i \in 1 .. Len(Front(PESdata)) : PESdata'[i] = Front(PESdata)[i]
        /\ PESdata'[Len(PESdata')] = pes
    BY <2>2, <2>3
  <2>5. Fifo!OneMore /\ Ready(PESdata')[Len(Ready(PESdata'))] = pes
    BY <1>5, <2>1, <2>4 DEF Fifo!OneMore
  <2>6. QED BY <1>4, <1>5, <1>6, <1>8, <2>1, <2>5
<1>9. QED BY <1>7, <1>8

(* The packet another stream's header leaves behind. *)
LEMMA LeftBehind ==
  ASSUME NEW pes \in PESPacket_t
  PROVE  LET left == [pes EXCEPT !.Started = FALSE, !.Complete = FALSE]
         IN  /\ left \in PESPacket_t /\ left.payload = pes.payload
             /\ ~left.Started /\ ~left.Complete
BY DEF PESPacket_t

(* A payload unit starts while the packet at the back has no data: the new   *)
(* packet takes its place, or nothing does.                                  *)
LEMMA OverwriteStep ==
  ASSUME QueueInv, status = "live", CurrentState = WaitForPESData,
         NEW ts \in TSPackets, RestartPES(ts), Last(PESdata).payload = <<>>
  PROVE  QueueInv' /\ FifoStep /\ status' = "live"
<1> DEFINE last == Last(PESdata)
           left == [last EXCEPT !.Started = FALSE, !.Complete = FALSE]
           pes == IF HeaderFound(ts) THEN NewPESPacket(ts) ELSE left
           added == IF HeaderFound(ts) THEN ts.payloadSize ELSE 0
<1>1. Assembling(PESdata) /\ PESdata # <<>> /\ Queue(PESdata)
  BY DEF QueueInv, Assembling
<1>2. last \in PESPacket_t
  BY <1>1, LastOfQueue
<1>3. left \in PESPacket_t /\ Void(left)
  <2>1. left \in PESPacket_t /\ left.payload = last.payload /\ ~left.Started /\ ~left.Complete
    BY <1>2, LeftBehind
  <2>2. QED BY <2>1 DEF Void
<1>4. /\ pes \in PESPacket_t /\ WellFormed(pes)
      /\ HeaderFound(ts) => pes.Started
      /\ ~HeaderFound(ts) => Void(pes)
  BY <1>3, NewPESPacketProperties DEF WellFormed
<1>5. /\ PESdata' = WithLast(pes) /\ status' = status
      /\ BufferLevel' = Level(BufferLevel + added)
      /\ CurrentState' = StateAfter(pes)
  BY DEF RestartPES
<1> HIDE DEF pes, added, left
<1>6. /\ Queue(PESdata') /\ PESdata' # <<>> /\ Last(PESdata') = pes
      /\ Partial(PESdata) = last /\ last # NoPES
      /\ Assembling(PESdata') <=> (pes.Started /\ ~pes.Complete)
      /\ IF Assembling(PESdata')
         THEN Ready(PESdata') = Ready(PESdata) /\ Partial(PESdata') = pes
         ELSE /\ Partial(PESdata') = NoPES
              /\ Fifo!OneMore /\ Ready(PESdata')[Len(Ready(PESdata'))] = pes
  BY <1>1, <1>4, <1>5, ReplaceStep
<1>7. /\ CurrentState' \in {WaitForPesStart, WaitForPESData}
      /\ CurrentState' = WaitForPESData <=> Assembling(PESdata')
  BY <1>5, <1>6 DEF StateAfter, WaitForPesStart, WaitForPESData
<1>8. BufferLevel' \in 0 .. LevelModulus - 1
  <2>1. added \in Int
    BY PacketFacts DEF added
  <2>2. BufferLevel + added \in Int
    BY <2>1, LevelAssumption DEF QueueInv
  <2>3. QED BY <1>5, <2>2, LevelInRange
<1>9. QueueInv'
  BY <1>5, <1>6, <1>7, <1>8 DEF QueueInv
<1>10. CASE Assembling(PESdata')
  <2>1. Fifo!Begin
    BY <1>4, <1>6, <1>10 DEF Fifo!Begin, Fifo!Free, Fifo!Incomplete
  <2>2. QED BY <1>5, <1>9, <2>1 DEF FifoStep
<1>11. CASE ~Assembling(PESdata') /\ HeaderFound(ts)
  <2>1. pes.Complete
    BY <1>4, <1>6, <1>11
  <2>2. Fifo!BeginWhole
    BY <1>4, <1>6, <1>11, <2>1 DEF Fifo!BeginWhole, Fifo!Free, Fifo!OneMoreReady, Fifo!Whole
  <2>3. QED BY <1>5, <1>9, <2>2 DEF FifoStep
<1>12. CASE ~Assembling(PESdata') /\ ~HeaderFound(ts)
  <2>1. Fifo!AbandonInPlace
    BY <1>4, <1>6, <1>12 DEF Fifo!AbandonInPlace, Fifo!VoidUnit, Void
  <2>2. QED BY <1>5, <1>9, <2>1 DEF FifoStep
<1>13. QED BY <1>10, <1>11, <1>12

LEMMA RestartPESStep ==
  ASSUME QueueInv, status = "live", CurrentState = WaitForPESData,
         NEW ts \in TSPackets, RestartPES(ts)
  PROVE  QueueInv' /\ FifoStep /\ status' \in {"live", "crashed"}
<1>1. CASE Last(PESdata).payload = <<>>
  BY <1>1, OverwriteStep
<1>2. CASE Last(PESdata).payload # <<>>
  <2>1. /\ PESdata' = Front(PESdata) /\ status' = "crashed"
        /\ BufferLevel' = Level(BufferLevel - Len(Last(PESdata).payload))
        /\ CurrentState' = CurrentState
    BY <1>2 DEF RestartPES
  <2>2. Assembling(PESdata) /\ PESdata # <<>> /\ ~Last(PESdata).Complete
    BY DEF QueueInv, Assembling
  <2>3. QED BY <2>1, <2>2, DropLastStep DEF QueueInv, FifoStep
<1>3. QED BY <1>1, <1>2

LEMMA DropIncompleteStep ==
  ASSUME QueueInv, status = "live", DropIncomplete
  PROVE  QueueInv' /\ status' = "live"
         /\ (FifoStep \/ UNCHANGED <<Ready(PESdata), Partial(PESdata)>>)
<1>1. CurrentState' = WaitForPesStart /\ status' = status
  BY DEF DropIncomplete
<1>2. CASE PESdata # <<>> /\ ~Last(PESdata).Complete
  <2>1. /\ PESdata' = Front(PESdata)
        /\ BufferLevel' = Level(BufferLevel - Len(Last(PESdata).payload))
    BY <1>2 DEF DropIncomplete
  <2>2. /\ Queue(PESdata') /\ ~Assembling(PESdata')
        /\ BufferLevel' \in 0 .. LevelModulus - 1
        /\ FifoStep
    BY <1>2, <2>1, DropLastStep DEF FifoStep
  <2>3. QED BY <1>1, <2>2 DEF QueueInv, WaitForPesStart, WaitForPESData
<1>3. CASE ~(PESdata # <<>> /\ ~Last(PESdata).Complete)
  <2>1. PESdata' = PESdata /\ BufferLevel' = BufferLevel /\ ~Assembling(PESdata)
    BY <1>3 DEF DropIncomplete, Assembling
  <2>2. Ready(PESdata') = Ready(PESdata) /\ Partial(PESdata') = Partial(PESdata)
    BY <2>1
  <2>3. QED BY <1>1, <2>1, <2>2 DEF QueueInv, WaitForPesStart, WaitForPESData
<1>4. QED BY <1>2, <1>3

LEMMA ContinueStep ==
  ASSUME QueueInv, status = "live", CurrentState = WaitForPESData,
         NEW ts \in TSPackets, ContinueLastPESPacket(ts)
  PROVE  QueueInv' /\ FifoStep /\ status' = "live"
<1> DEFINE last == Last(PESdata)
           pes == ContinuedPESPacket(last, ts)
<1>1. Assembling(PESdata) /\ PESdata # <<>> /\ Queue(PESdata) /\ last.Started
  BY DEF QueueInv, Assembling
<1>2. last \in PESPacket_t /\ WellFormed(last)
  BY <1>1, LastOfQueue
<1> HIDE DEF last
<1>3. /\ pes \in PESPacket_t /\ WellFormed(pes) /\ pes.Started
      /\ Fifo!Extends(pes, last) /\ CopySize(last, ts) \in Int
  BY <1>1, <1>2, ContinuedPESPacketProperties
<1>4. /\ PESdata' = WithLast(pes) /\ status' = status
      /\ BufferLevel' = Level(BufferLevel + CopySize(last, ts))
      /\ CurrentState' = StateAfter(pes)
  BY DEF ContinueLastPESPacket, last
<1> HIDE DEF pes
<1>5. /\ Queue(PESdata') /\ PESdata' # <<>> /\ Last(PESdata') = pes
      /\ Partial(PESdata) = last /\ last # NoPES
      /\ Assembling(PESdata') <=> ~pes.Complete
      /\ IF Assembling(PESdata')
         THEN Ready(PESdata') = Ready(PESdata) /\ Partial(PESdata') = pes
         ELSE /\ Partial(PESdata') = NoPES
              /\ Fifo!OneMore /\ Ready(PESdata')[Len(Ready(PESdata'))] = pes
  BY <1>1, <1>3, <1>4, ReplaceStep DEF last
<1>6. /\ CurrentState' \in {WaitForPesStart, WaitForPESData}
      /\ CurrentState' = WaitForPESData <=> Assembling(PESdata')
  BY <1>3, <1>4, <1>5 DEF StateAfter, WaitForPesStart, WaitForPESData
<1>7. BufferLevel' \in 0 .. LevelModulus - 1
  <2>1. BufferLevel + CopySize(last, ts) \in Int
    BY <1>3, LevelAssumption DEF QueueInv
  <2>2. QED BY <1>4, <2>1, LevelInRange
<1>8. QueueInv'
  BY <1>4, <1>5, <1>6, <1>7 DEF QueueInv
<1>9. CASE pes.Complete
  <2>1. Fifo!Finish
    BY <1>3, <1>5, <1>9 DEF Fifo!Finish, Fifo!OneMoreReady, Fifo!Whole
  <2>2. QED BY <1>4, <1>8, <2>1 DEF FifoStep
<1>10. CASE ~pes.Complete
  <2>1. Fifo!Extend
    BY <1>3, <1>5, <1>10 DEF Fifo!Extend, Fifo!Incomplete
  <2>2. QED BY <1>4, <1>8, <2>1 DEF FifoStep
<1>11. QED BY <1>9, <1>10

-----------------------------------------------------------------------------
(* The actions.                                                            *)

LEMMA IInvFromQueueInv ==
  ASSUME IInv, QueueInv',
         stream_id' \in StreamIds, ContinuityCount' \in Nat, doubleCC' \in BOOLEAN,
         decoding' = NoPES \/ (decoding' \in PESPacket_t /\ decoding'.Complete)
  PROVE  IInv'
BY DEF IInv, TypeOK, QueueDiscipline, DecodesComplete, QueueInv, Queue

LEMMA NextPacketStep ==
  ASSUME IInv, NEW ts \in TSPackets, NextPacket(ts)
  PROVE  IInv' /\ Fifo!Next
<1>1. /\ QueueInv /\ status = "live" /\ decoding' = NoPES
      /\ stream_id' = stream_id /\ stream_id \in StreamIds
  BY QueueInvFromIInv DEF NextPacket, IInv, TypeOK
<1>2. ASSUME QueueInv', status' \in {"live", "crashed"},
             FifoStep \/ UNCHANGED <<Ready(PESdata), Partial(PESdata)>>
      PROVE  Fifo!Next
  BY <1>1, <1>2 DEF Fifo!Next, Fifo!Assemble, Fifo!Rest, FifoStep
<1>3. CASE ~ts.payloadPresent
  <2>1. UNCHANGED <<CurrentState, PESdata, BufferLevel, ContinuityCount, doubleCC, status>>
    BY <1>3 DEF NextPacket
  <2>2. QueueInv'
    BY <1>1, <2>1 DEF QueueInv
  <2>3. UNCHANGED <<Ready(PESdata), Partial(PESdata)>>
    BY <2>1
  <2>4. ContinuityCount' \in Nat /\ doubleCC' \in BOOLEAN
    BY <2>1 DEF IInv, TypeOK
  <2>5. QED BY <1>1, <1>2, <2>1, <2>2, <2>3, <2>4, IInvFromQueueInv
<1>4. CASE ts.payloadPresent
  <2>1. ContinuityCount' \in Nat /\ doubleCC' \in BOOLEAN
    <3>1. ContinuityCount' = ts.cc /\ doubleCC' = (doubleCC \/ CCMismatch(ts))
      BY <1>4 DEF NextPacket
    <3>2. doubleCC' \in BOOLEAN
      BY <3>1 DEF IInv, TypeOK, CCMismatch
    <3>3. QED BY <3>1, <3>2, PacketFacts
  <2> DEFINE state == IF CheckCCError(ts) THEN CCError ELSE CurrentState
  <2>2. \/ state = WaitForPesStart /\ StartPES(ts)
        \/ state = WaitForPesStart /\ SkipPayload(ts)
        \/ state = WaitForPESData /\ RestartPES(ts)
        \/ state = WaitForPESData /\ ContinueLastPESPacket(ts)
        \/ state = CCError /\ DropIncomplete
    BY <1>4 DEF NextPacket
  <2>3. state # CCError => state = CurrentState
    OBVIOUS
  <2>4. ASSUME QueueInv', status' \in {"live", "crashed"},
               FifoStep \/ UNCHANGED <<Ready(PESdata), Partial(PESdata)>>
        PROVE  IInv' /\ Fifo!Next
    BY <1>1, <1>2, <2>1, <2>4, IInvFromQueueInv
  <2> HIDE DEF state
  <2>5. CASE state = WaitForPesStart /\ StartPES(ts)
    <3>1. CurrentState = WaitForPesStart
      BY <2>3, <2>5 DEF WaitForPesStart, CCError
    <3>2. QED BY <1>1, <2>4, <2>5, <3>1, StartPESStep
  <2>6. CASE state = WaitForPesStart /\ SkipPayload(ts)
    <3>1. CurrentState = WaitForPesStart
      BY <2>3, <2>6 DEF WaitForPesStart, CCError
    <3>2. /\ CurrentState' = CurrentState /\ status' = status
          /\ PESdata' = PESdata /\ BufferLevel' = BufferLevel
      BY <2>6, <3>1 DEF SkipPayload
    <3>3. QueueInv' /\ status' = "live"
      BY <1>1, <3>2 DEF QueueInv
    <3>4. UNCHANGED <<Ready(PESdata), Partial(PESdata)>>
      BY <3>2
    <3>5. QED BY <2>4, <3>3, <3>4
  <2>7. CASE state = WaitForPESData /\ RestartPES(ts)
    <3>1. CurrentState = WaitForPESData
      BY <2>3, <2>7 DEF WaitForPESData, CCError
    <3>2. QueueInv' /\ FifoStep /\ status' \in {"live", "crashed"}
      BY <1>1, <2>7, <3>1, RestartPESStep
    <3>3. QED BY <2>4, <3>2
  <2>8. CASE state = WaitForPESData /\ ContinueLastPESPacket(ts)
    <3>1. CurrentState = WaitForPESData
      BY <2>3, <2>8 DEF WaitForPESData, CCError
    <3>2. QED BY <1>1, <2>4, <2>8, <3>1, ContinueStep
  <2>9. CASE state = CCError /\ DropIncomplete
    <3>1. /\ QueueInv' /\ status' = "live"
          /\ FifoStep \/ UNCHANGED <<Ready(PESdata), Partial(PESdata)>>
      BY <1>1, <2>9, DropIncompleteStep
    <3>2. QED BY <2>4, <3>1
  <2>10. QED BY <2>2, <2>5, <2>6, <2>7, <2>8, <2>9
<1>5. QED BY <1>3, <1>4

LEMMA PCRTickStep ==
  ASSUME IInv, NEW PCR \in PCRs, PCRTick(PCR)
  PROVE  IInv' /\ Fifo!Next
<1>1. /\ QueueInv /\ Queue(PESdata) /\ status = "live"
      /\ status' = status /\ CurrentState' = CurrentState
      /\ stream_id' \in StreamIds /\ ContinuityCount' \in Nat /\ doubleCC' \in BOOLEAN
  BY QueueInvFromIInv DEF PCRTick, IInv, TypeOK, QueueInv
<1>2. ASSUME PESdata' = PESdata, BufferLevel' = BufferLevel, decoding' = NoPES
      PROVE  IInv' /\ Fifo!Next
  <2>1. QueueInv'
    BY <1>1, <1>2 DEF QueueInv
  <2>2. Ready(PESdata') = Ready(PESdata) /\ Partial(PESdata') = Partial(PESdata)
    BY <1>2
  <2>3. Fifo!Rest
    BY <1>1, <1>2, <2>2 DEF Fifo!Rest
  <2>4. QED BY <1>1, <1>2, <2>1, <2>3, IInvFromQueueInv DEF Fifo!Next
<1>3. CASE PESdata = <<>>
  BY <1>2, <1>3 DEF PCRTick
<1>4. CASE PESdata # <<>>
  <2> DEFINE front == Head(PESdata)
             control == TickControl(front, PCR)
  <2>1. /\ decoding' = IF control = "PlayPacket" THEN front ELSE NoPES
        /\ PESdata' = IF control # "Wait" \/ ~(front.Started \/ front.Complete)
                      THEN Tail(PESdata) ELSE PESdata
        /\ BufferLevel' = IF control # "Wait"
                          THEN Level(BufferLevel - Len(front.payload))
                          ELSE BufferLevel
    BY <1>4 DEF PCRTick
  <2>2. front \in PESPacket_t /\ WellFormed(front)
    BY <1>1, <1>4, LastOfQueue
  <2>3. control # "Wait" => front.Complete
    BY DEF TickControl
  <2> HIDE DEF front, control
  <2>4. CASE control = "Wait" /\ (front.Started \/ front.Complete)
    BY <1>2, <2>1, <2>4
  <2>5. CASE control # "Wait" \/ ~(front.Started \/ front.Complete)
    <3>1. PESdata' = Tail(PESdata) /\ Settled(front)
      BY <2>1, <2>2, <2>3, <2>5 DEF WellFormed, Settled
    <3>2. /\ Queue(PESdata')
          /\ Ready(PESdata) # <<>> /\ Head(Ready(PESdata)) = front
          /\ Tail(Ready(PESdata)) = Ready(PESdata')
          /\ Partial(PESdata') = Partial(PESdata)
          /\ Assembling(PESdata') <=> Assembling(PESdata)
      BY <1>1, <1>4, <3>1, TailOfQueue DEF front
    <3>3. BufferLevel' \in 0 .. LevelModulus - 1
      <4>1. Len(front.payload) \in Nat
        BY <2>2, LenProperties DEF PESPacket_t
      <4>2. BufferLevel - Len(front.payload) \in Int
        BY <1>1, <4>1, LevelAssumption DEF QueueInv
      <4>3. Level(BufferLevel - Len(front.payload)) \in 0 .. LevelModulus - 1
        BY <4>2, LevelInRange
      <4>4. QED BY <1>1, <2>1, <4>3 DEF QueueInv
    <3>4. QueueInv'
      BY <1>1, <3>2, <3>3 DEF QueueInv
    <3>5. decoding' = NoPES \/ (decoding' = front /\ front.Complete)
      BY <2>1, <2>3
    <3>6. Fifo!Take
      BY <1>1, <2>2, <3>1, <3>2, <3>5 DEF Fifo!Take, Fifo!Whole
    <3>7. decoding' = NoPES \/ (decoding' \in PESPacket_t /\ decoding'.Complete)
      BY <2>2, <3>5
    <3>8. QED BY <1>1, <3>4, <3>6, <3>7, IInvFromQueueInv DEF Fifo!Next
  <2>6. QED BY <2>4, <2>5
<1>5. QED BY <1>3, <1>4

LEMMA SetStreamIDStep ==
  ASSUME IInv, NEW id \in StreamIds, SetStreamID(id)
  PROVE  IInv' /\ Fifo!Next
<1>1. /\ QueueInv /\ status = "live" /\ decoding' = NoPES /\ stream_id' \in StreamIds
      /\ UNCHANGED <<CurrentState, PESdata, BufferLevel, ContinuityCount, doubleCC, status>>
  BY QueueInvFromIInv DEF SetStreamID
<1>2. QueueInv' /\ ContinuityCount' \in Nat /\ doubleCC' \in BOOLEAN
  BY <1>1 DEF QueueInv, IInv, TypeOK
<1>3. Ready(PESdata') = Ready(PESdata) /\ Partial(PESdata') = Partial(PESdata)
  BY <1>1
<1>4. Fifo!Rest
  BY <1>1, <1>3 DEF Fifo!Rest
<1>5. QED BY <1>1, <1>2, <1>4, IInvFromQueueInv DEF Fifo!Next

LEMMA DestroyStep ==
  ASSUME IInv, Destroy
  PROVE  IInv' /\ Fifo!Next
<1>1. /\ QueueInv /\ status = "live" /\ status' = "destroyed" /\ decoding' = NoPES
      /\ PESdata' = <<>> /\ BufferLevel' = 0
      /\ UNCHANGED <<CurrentState, stream_id, ContinuityCount, doubleCC>>
  BY QueueInvFromIInv DEF Destroy
<1>2. QueueInv'
  BY <1>1, EmptyQueue, LevelAssumption DEF QueueInv
<1>3. stream_id' \in StreamIds /\ ContinuityCount' \in Nat /\ doubleCC' \in BOOLEAN
  BY <1>1 DEF IInv, TypeOK
<1>4. Fifo!Close
  BY <1>1, EmptyQueue DEF Fifo!Close
<1>5. QED BY <1>1, <1>2, <1>3, <1>4, IInvFromQueueInv DEF Fifo!Next

-----------------------------------------------------------------------------
(* The theorems.                                                           *)

LEMMA InitEstablishes == Init => IInv /\ Fifo!Init
<1> SUFFICES ASSUME Init PROVE IInv /\ Fifo!Init
  OBVIOUS
<1>1. TypeOK
  <2>1. PESdata \in Seq(PESPacket_t)
    BY EmptySeq DEF Init
  <2>2. BufferLevel \in 0 .. LevelModulus - 1
    BY LevelAssumption DEF Init
  <2>3. CurrentState \in {WaitForPesStart, WaitForPESData} /\ stream_id \in StreamIds
    BY DEF Init
  <2>4. ContinuityCount \in Nat
    BY DEF Init
  <2>5. doubleCC \in BOOLEAN
    BY DEF Init
  <2>6. decoding \in PESPacket_t \cup {NoPES} /\ status \in {"live", "crashed", "destroyed"}
    BY DEF Init
  <2>7. QED BY <2>1, <2>2, <2>3, <2>4, <2>5, <2>6 DEF TypeOK
<1>2. QueueDiscipline /\ DecodesComplete
  BY EmptyQueue DEF Init, QueueDiscipline, DecodesComplete, Queue, WaitForPesStart, WaitForPESData
<1>3. Fifo!Init
  BY EmptyQueue DEF Init, Fifo!Init
<1>4. QED BY <1>1, <1>2, <1>3 DEF IInv

LEMMA StepPreserves == IInv /\ [Next]_vars => IInv' /\ [Fifo!Next]_(Fifo!vars)
<1> SUFFICES ASSUME IInv, [Next]_vars PROVE IInv' /\ [Fifo!Next]_(Fifo!vars)
  OBVIOUS
<1>1. ASSUME NEW ts \in TSPackets, NextPacket(ts) PROVE IInv' /\ Fifo!Next
  BY <1>1, NextPacketStep
<1>2. ASSUME NEW PCR \in PCRs, PCRTick(PCR) PROVE IInv' /\ Fifo!Next
  BY <1>2, PCRTickStep
<1>3. ASSUME NEW id \in StreamIds, SetStreamID(id) PROVE IInv' /\ Fifo!Next
  BY <1>3, SetStreamIDStep
<1>4. ASSUME Destroy PROVE IInv' /\ Fifo!Next
  BY <1>4, DestroyStep
<1>5. CASE UNCHANGED vars
  <2>1. IInv'
    BY <1>5 DEF vars, IInv, TypeOK, QueueDiscipline, DecodesComplete
  <2>2. PESdata' = PESdata /\ decoding' = decoding /\ status' = status
    BY <1>5 DEF vars
  <2>3. UNCHANGED Fifo!vars
    BY <2>2 DEF Fifo!vars
  <2>4. QED BY <2>1, <2>3
<1>6. QED BY <1>1, <1>2, <1>3, <1>4, <1>5 DEF Next

(* The handler's variables keep their types. *)
THEOREM TypeCorrect == Spec => []TypeOK
<1>1. Init => IInv
  BY InitEstablishes
<1>2. IInv /\ [Next]_vars => IInv'
  BY StepPreserves
<1>3. IInv => TypeOK
  BY DEF IInv
<1>4. QED BY <1>1, <1>2, <1>3, PTL DEF Spec

(* However NextPacket and PCRTick interleave, the handler waits for data     *)
(* exactly while the packet at the back of the queue is begun and            *)
(* incomplete, every other packet is complete or void, and none holds more   *)
(* data than its header announced: NextPacket's PESdata.back() always finds  *)
(* the packet it is assembling.                                              *)
THEOREM QueueDisciplineHolds == Spec => []QueueDiscipline
<1>1. Init => IInv
  BY InitEstablishes
<1>2. IInv /\ [Next]_vars => IInv'
  BY StepPreserves
<1>3. IInv => QueueDiscipline
  BY DEF IInv
<1>4. QED BY <1>1, <1>2, <1>3, PTL DEF Spec

(* PESDecode is only ever given a PES packet that has all its data. *)
THEOREM DecodesCompleteHolds == Spec => []DecodesComplete
<1>1. Init => IInv
  BY InitEstablishes
<1>2. IInv /\ [Next]_vars => IInv'
  BY StepPreserves
<1>3. IInv => DecodesComplete
  BY DEF IInv
<1>4. QED BY <1>1, <1>2, <1>3, PTL DEF Spec

(* The handler implements the first-in first-out reassembler PESFifo: what   *)
(* it gives to the decoder leaves the queue complete, unchanged and in       *)
(* order, whatever sizes and headers the transport packets claim.            *)
THEOREM ImplementsFifo == Spec => FifoSpec
<1>1. Init => IInv /\ Fifo!Init
  BY InitEstablishes
<1>2. IInv /\ [Next]_vars => IInv' /\ [Fifo!Next]_(Fifo!vars)
  BY StepPreserves
<1>3. QED BY <1>1, <1>2, PTL DEF Spec, FifoSpec, Fifo!Spec

(* PCRTick's branch for a clock that has wrapped is never taken: a packet    *)
(* whose PTS is above PtsHigh is not below a clock that is below PcrLow.     *)
(* So PacketControl only ever compares the two numbers.                      *)
THEOREM WrapBranchIsDead ==
  ASSUME PcrLow <= PtsHigh, NEW PTS \in 0 .. PtsMax, NEW PCR \in PCRs, PCR # 0
  PROVE  PacketControl(PTS, PCR) =
           IF PTS < PCR THEN "DiscardPacket"
           ELSE IF PTS - PCR < DueWindow THEN "PlayPacket" ELSE "Wait"
<1>1. PCR \in Nat /\ PTS \in Nat
  BY ClockAssumption
<1>2. ~(PTS < PCR /\ PTS > PtsHigh /\ PCR < PcrLow)
  BY <1>1, ClockAssumption
<1>3. CASE PTS < PCR
  BY <1>1, <1>2, <1>3 DEF PacketControl
<1>4. CASE PTS >= PCR
  BY <1>1, <1>4 DEF PacketControl
<1>5. QED BY <1>1, <1>3, <1>4

-----------------------------------------------------------------------------
(* The bytes in the queue: what is added to the queue or taken from it is    *)
(* added to the sum or taken from it.                                        *)
Lengths(q) == [i \in DOMAIN q |-> Len(q[i].payload)]

LEMMA LengthsAre ==
  ASSUME NEW q \in Seq(PESPacket_t)
  PROVE  /\ Lengths(q) \in Seq(Nat) /\ Len(Lengths(q)) = Len(q) /\ Len(q) \in Nat
         /\ \A i \in 1 .. Len(q) : Lengths(q)[i] = Len(q[i].payload)
         /\ BytesUpTo(q) = PartialSums(Lengths(q))
<1>1. \A i \in 1 .. Len(q) : Len(q[i].payload) \in Nat
  <2>1. \A i \in 1 .. Len(q) : q[i].payload \in Seq(Bytes)
    <3>1. \A i \in 1 .. Len(q) : q[i] \in PESPacket_t  BY ElementOfSeq
    <3>2. QED BY <3>1 DEF PESPacket_t
  <2>2. QED BY <2>1, LenProperties
<1>2. DOMAIN q = 1 .. Len(q) /\ Len(q) \in Nat
  BY LenProperties
<1>3. Lengths(q) = [i \in 1 .. Len(q) |-> Len(q[i].payload)]
  BY <1>2 DEF Lengths
<1>4. BytesUpTo(q) = PartialSums(Lengths(q))
  BY DEF BytesUpTo, Lengths
<1>5. QED BY <1>1, <1>2, <1>3, <1>4

ByteSums(q, k, s) ==
  /\ s \in [0 .. k -> Nat]
  /\ s[0] = 0
  /\ \A i \in 1 .. k : s[i] = s[i - 1] + Len(q[i].payload)

LEMMA BytesUpToSums ==
  ASSUME NEW q \in Seq(PESPacket_t)
  PROVE  ByteSums(q, Len(q), BytesUpTo(q))
<1>1. SumsOf(Lengths(q), Len(q), BytesUpTo(q))
  BY LengthsAre, PartialSumsAre
<1>2. QED BY <1>1, LengthsAre DEF SumsOf, ByteSums

(* Queues that begin alike hold the same bytes there. *)
LEMMA SameBytes ==
  ASSUME NEW q \in Seq(PESPacket_t), NEW r \in Seq(PESPacket_t),
         NEW k \in 0 .. Len(q), k <= Len(r), \A i \in 1 .. k : r[i] = q[i]
  PROVE  BytesUpTo(r)[k] = BytesUpTo(q)[k]
<1>1. /\ Lengths(q) \in Seq(Nat) /\ Len(Lengths(q)) = Len(q) /\ Len(q) \in Nat
      /\ \A i \in 1 .. Len(q) : Lengths(q)[i] = Len(q[i].payload)
      /\ Lengths(r) \in Seq(Nat) /\ Len(Lengths(r)) = Len(r) /\ Len(r) \in Nat
      /\ \A i \in 1 .. Len(r) : Lengths(r)[i] = Len(r[i].payload)
  BY LengthsAre
<1>2. \A i \in 1 .. k : i \in 1 .. Len(q) /\ i \in 1 .. Len(r)
  BY <1>1
<1>3. \A i \in 1 .. k : Lengths(r)[i] = Lengths(q)[i]
  BY <1>1, <1>2
<1>4. PartialSums(Lengths(r))[k] = PartialSums(Lengths(q))[k]
  BY <1>1, <1>3, SameSums
<1>5. QED BY <1>4, LengthsAre

LEMMA TailBytes ==
  ASSUME NEW q \in Seq(PESPacket_t), q # <<>>
  PROVE  BytesUpTo(Tail(q))[Len(Tail(q))] = BytesUpTo(q)[Len(q)] - Len(Head(q).payload)
<1> DEFINE r == Tail(q)
           s == BytesUpTo(q)
           t == BytesUpTo(r)
           k == Len(r)
           first == Len(Head(q).payload)
           Bad == {n \in 0 .. k : s[n + 1] # t[n] + first}
<1>1. /\ r \in Seq(PESPacket_t) /\ Len(r) = Len(q) - 1
      /\ \A i \in 1 .. Len(r) : r[i] = q[i + 1]
  BY HeadTailProperties
<1>2. k \in Nat /\ Len(q) \in Nat /\ Len(q) = k + 1 /\ Head(q) = q[1]
  BY <1>1, LenProperties
<1>3. ByteSums(q, Len(q), s) /\ ByteSums(r, k, t)
  BY <1>1, BytesUpToSums
<1>4. first \in Nat
  <2>1. Head(q) \in PESPacket_t  BY HeadTailProperties
  <2>2. QED BY <2>1, LenProperties DEF PESPacket_t
<1> HIDE DEF r, s, t, k
<1>5. ASSUME Bad # {} PROVE FALSE
  <2>1. PICK n \in Bad : \A m \in Bad : n <= m
    <3>1. Bad \in SUBSET Nat  BY <1>2
    <3> HIDE DEF Bad
    <3>2. QED BY <1>5, <3>1, LeastOf
  <2>2. CASE n = 0
    <3>1. 1 \in 1 .. Len(q)  BY <1>2
    <3>2. s[1] = s[1 - 1] + Len(q[1].payload)  BY <1>3, <3>1, Zenon DEF ByteSums
    <3>3. s[0] = 0 /\ t[0] = 0 /\ 1 - 1 = 0  BY <1>3 DEF ByteSums
    <3>4. s[1] = 0 + first  BY <1>2, <3>2, <3>3
    <3>5. QED BY <2>1, <2>2, <3>3, <3>4
  <2>3. CASE n # 0
    <3>1. /\ n - 1 \in 0 .. k /\ n - 1 \notin Bad /\ n \in 1 .. k
          /\ n + 1 \in 1 .. Len(q) /\ (n + 1) - 1 = n /\ (n - 1) + 1 = n /\ n \in 0 .. Len(q)
      BY <1>2, <2>1, <2>3
    <3>2. /\ s[n + 1] = s[n] + Len(q[n + 1].payload)
          /\ t[n] = t[n - 1] + Len(r[n].payload)
      <4>1. s[n + 1] = s[(n + 1) - 1] + Len(q[n + 1].payload)  BY <1>3, <3>1, Zenon DEF ByteSums
      <4>2. t[n] = t[n - 1] + Len(r[n].payload)  BY <1>3, <3>1, Zenon DEF ByteSums
      <4>3. QED BY <3>1, <4>1, <4>2
    <3>3. s[n] = t[n - 1] + first
      BY <3>1
    <3>4. r[n] = q[n + 1]
      BY <1>1, <3>1 DEF k
    <3> DEFINE l == Len(r[n].payload)
    <3>5. l \in Nat /\ t[n - 1] \in Nat
      <4>1. r[n] \in PESPacket_t  BY <1>1, <3>1, ElementOfSeq DEF k
      <4>2. l \in Nat  BY <4>1, LenProperties DEF PESPacket_t
      <4>3. QED BY <1>3, <3>1, <4>2 DEF ByteSums
    <3> HIDE DEF l, first
    <3>6. s[n + 1] = (t[n - 1] + first) + l /\ t[n] = t[n - 1] + l
      BY <3>2, <3>3, <3>4 DEF l
    <3>7. s[n + 1] = t[n] + first
      BY <1>4, <3>5, <3>6
    <3>8. QED BY <2>1, <3>7
  <2>4. QED BY <2>2, <2>3
<1>6. k \in 0 .. k /\ t[k] \in Nat
  BY <1>2, <1>3 DEF ByteSums
<1>7. s[k + 1] = t[k] + first
  BY <1>5, <1>6
<1> HIDE DEF first
<1>8. t[k] = s[Len(q)] - first
  BY <1>2, <1>4, <1>6, <1>7
<1>9. QED BY <1>8 DEF r, s, t, k, first

Held(q) == BytesUpTo(q)[Len(q)]

LEMMA HeldType ==
  ASSUME NEW q \in Seq(PESPacket_t)
  PROVE  Held(q) \in Nat
<1>1. Len(q) \in 0 .. Len(q)  OBVIOUS
<1>2. QED BY <1>1, BytesUpToSums DEF ByteSums, Held

LEMMA HeldByLast ==
  ASSUME NEW q \in Seq(PESPacket_t), q # <<>>
  PROVE  /\ Held(q) = BytesUpTo(q)[Len(q) - 1] + Len(Last(q).payload)
         /\ BytesUpTo(q)[Len(q) - 1] \in Nat
<1>1. Len(q) \in 1 .. Len(q) /\ Len(q) - 1 \in 0 .. Len(q)
  BY EmptySeq, LenProperties
<1>2. QED BY <1>1, BytesUpToSums DEF ByteSums, Held, Last

LEMMA HeldAfterAppend ==
  ASSUME NEW q \in Seq(PESPacket_t), NEW pes \in PESPacket_t
  PROVE  Held(Append(q, pes)) = Held(q) + Len(pes.payload)
<1> DEFINE r == Append(q, pes)
<1>1. /\ r \in Seq(PESPacket_t) /\ r # <<>> /\ Len(r) = Len(q) + 1
      /\ \A i \in 1 .. Len(q) : r[i] = q[i]
      /\ r[Len(q) + 1] = pes
  BY AppendProperties
<1> HIDE DEF r
<1>2. Last(r) = pes /\ Len(q) \in Nat /\ Len(r) - 1 = Len(q) /\ Len(q) \in 0 .. Len(q) /\ Len(q) <= Len(r)
  BY <1>1, LenProperties DEF Last
<1>3. Held(r) = BytesUpTo(r)[Len(q)] + Len(pes.payload)
  BY <1>1, <1>2, HeldByLast
<1>4. BytesUpTo(r)[Len(q)] = BytesUpTo(q)[Len(q)]
  BY <1>1, <1>2, SameBytes
<1>5. QED BY <1>3, <1>4 DEF Held, r

LEMMA HeldAfterFront ==
  ASSUME NEW q \in Seq(PESPacket_t), q # <<>>
  PROVE  Held(Front(q)) = Held(q) - Len(Last(q).payload)
<1> DEFINE r == Front(q)
<1>1. Len(q) \in Nat \ {0}
  BY EmptySeq, LenProperties
<1>2. r = [i \in 1 .. Len(q) - 1 |-> q[i]]
  BY <1>1 DEF Front
<1>3. /\ r \in Seq(PESPacket_t) /\ Len(r) = Len(q) - 1
      /\ \A i \in 1 .. Len(q) - 1 : r[i] = q[i]
  BY <1>1, <1>2
<1> HIDE DEF r
<1>4. Len(r) \in 0 .. Len(q) /\ Len(r) <= Len(r)
  BY <1>1, <1>3
<1>5. BytesUpTo(r)[Len(r)] = BytesUpTo(q)[Len(r)]
  BY <1>3, <1>4, SameBytes
<1>6. Held(q) = BytesUpTo(q)[Len(r)] + Len(Last(q).payload) /\ BytesUpTo(q)[Len(r)] \in Nat
  BY <1>3, HeldByLast
<1>7. Len(Last(q).payload) \in Nat
  <2>1. Last(q) \in PESPacket_t  BY <1>1, ElementOfSeq DEF Last
  <2>2. QED BY <2>1, LenProperties DEF PESPacket_t
<1> DEFINE b == BytesUpTo(q)[Len(r)]
           l == Len(Last(q).payload)
<1>8. b \in Nat /\ l \in Nat /\ Held(q) = b + l /\ Held(r) = b
  BY <1>5, <1>6, <1>7 DEF Held
<1> HIDE DEF b, l
<1>9. Held(r) = Held(q) - l
  BY <1>8
<1>10. QED BY <1>9 DEF r, l

LEMMA HeldAfterReplace ==
  ASSUME NEW q \in Seq(PESPacket_t), q # <<>>, NEW pes \in PESPacket_t, NEW c \in Nat,
         Len(pes.payload) = Len(Last(q).payload) + c
  PROVE  Held([q EXCEPT ![Len(q)] = pes]) = Held(q) + c
<1> DEFINE r == [q EXCEPT ![Len(q)] = pes]
           n == Len(q)
<1>1. n \in Nat \ {0} /\ q \in [1 .. n -> PESPacket_t]
  BY EmptySeq, LenProperties
<1>2. r \in [1 .. n -> PESPacket_t] /\ r[n] = pes /\ \A i \in 1 .. n - 1 : r[i] = q[i]
  <2> HIDE DEF n
  <2>1. r = [q EXCEPT ![n] = pes]  BY DEF n
  <2>2. n \in 1 .. n /\ \A i \in 1 .. n - 1 : i \in 1 .. n /\ i # n  BY <1>1
  <2> HIDE DEF r
  <2>3. \A i \in 1 .. n : r[i] = IF i = n THEN pes ELSE q[i]  BY <1>1, <2>1, Zenon
  <2>4. r \in [1 .. n -> PESPacket_t]  BY <1>1, <2>1, Zenon
  <2>5. QED BY <2>2, <2>3, <2>4
<1>3. r \in Seq(PESPacket_t) /\ Len(r) = n /\ r # <<>>
  <2> HIDE DEF r
  <2>1. r \in Seq(PESPacket_t) /\ Len(r) = n  BY <1>1, <1>2
  <2>2. QED BY <1>1, <2>1, EmptySeq
<1> HIDE DEF r
<1>4. BytesUpTo(r)[n - 1] = BytesUpTo(q)[n - 1]
  <2>1. n - 1 \in 0 .. Len(q) /\ n - 1 <= Len(r)  BY <1>1, <1>3
  <2>2. QED BY <1>2, <1>3, <2>1, SameBytes
<1>5. /\ Held(q) = BytesUpTo(q)[n - 1] + Len(Last(q).payload)
      /\ Held(r) = BytesUpTo(r)[n - 1] + Len(Last(r).payload)
      /\ BytesUpTo(q)[n - 1] \in Nat
  BY <1>3, HeldByLast
<1>6. Last(r) = pes /\ Len(Last(q).payload) \in Nat
  <2>1. Last(q) \in PESPacket_t  BY <1>1, ElementOfSeq DEF Last
  <2>2. QED BY <1>2, <1>3, <2>1, LenProperties DEF PESPacket_t, Last
<1> DEFINE b == BytesUpTo(q)[n - 1]
           l == Len(Last(q).payload)
<1>7. b \in Nat /\ l \in Nat /\ Held(q) = b + l /\ Held(r) = b + (l + c)
  BY <1>4, <1>5, <1>6
<1> HIDE DEF b, l
<1>8. Held(r) = Held(q) + c
  BY <1>7
<1>9. QED BY <1>8 DEF r

-----------------------------------------------------------------------------
(* BufferLevel counts with a wrap; its error is counted so, too.             *)
LEMMA MultipleVanishes ==
  ASSUME NEW M \in Nat \ {0}, NEW p \in Int, NEW k \in Int
  PROVE  (M * p + k) % M = k % M
<1> DEFINE q == k \div M
           r == k % M
           n == M * p + k
<1>1. k = M * q + r /\ q \in Int /\ r \in 0 .. M - 1
  BY SMT
<1>2. M * (p + q) = M * p + M * q
  BY <1>1, SMT
<1>3. n = M * (p + q) + r /\ n \in Int
  <2> DEFINE a == M * p
             b == M * q
             c == M * (p + q)
  <2>1. a \in Int /\ b \in Int /\ c = a + b /\ r \in Int /\ k = b + r  BY <1>1, <1>2
  <2>2. n = a + k  OBVIOUS
  <2> HIDE DEF a, b, c, n, r
  <2>3. n = c + r  BY <2>1, <2>2
  <2>4. n \in Int  BY <2>1, <2>2
  <2>5. QED  BY <2>3, <2>4 DEF c
<1> HIDE DEF q, r, n
<1>4. n % M = r
  <2>1. p + q \in Int  BY <1>1
  <2>2. QED  BY <1>1, <1>3, <2>1, SMT
<1>5. QED  BY <1>4 DEF n, r

LEMMA AddedToRemainder ==
  ASSUME NEW M \in Nat \ {0}, NEW x \in Int, NEW d \in Int
  PROVE  ((x % M) + d) % M = (x + d) % M
<1> DEFINE p == x \div M
           r == x % M
           a == M * p
           k == r + d
<1>1. x = M * p + r /\ p \in Int /\ r \in 0 .. M - 1
  BY SMT
<1> HIDE DEF p, r
<1>2. a \in Int /\ x = a + r /\ k \in Int /\ x + d = a + k
  <2>1. a \in Int /\ x = a + r /\ r \in Int  BY <1>1
  <2> HIDE DEF a
  <2>2. QED BY <2>1
<1> HIDE DEF k
<1>3. (M * p + k) % M = k % M
  BY <1>1, <1>2, MultipleVanishes
<1>4. QED  BY <1>2, <1>3 DEF r, k, a

LEMMA ErrorIsKept ==
  ASSUME NEW level \in Int, NEW held \in Int, NEW c \in Int
  PROVE  Level(Level(level + c) - (held + c)) = Level(level - held)
<1> DEFINE x == level + c
           d == -(held + c)
<1>1. x \in Int /\ d \in Int /\ x + d = level - held
  OBVIOUS
<1>2. x % LevelModulus \in Int
  BY <1>1, LevelAssumption
<1>3. Level(x) - (held + c) = (x % LevelModulus) + d
  BY <1>2 DEF Level
<1> HIDE DEF x, d
<1>4. ((x % LevelModulus) + d) % LevelModulus = (x + d) % LevelModulus
  BY <1>1, LevelAssumption, AddedToRemainder
<1>5. Level(Level(x) - (held + c)) = Level(level - held)
  BY <1>1, <1>3, <1>4 DEF Level
<1>6. QED BY <1>5 DEF x

LEMMA DriftIsKept ==
  ASSUME IInv, NEW c \in Int, BufferLevel' = Level(BufferLevel + c),
         Held(PESdata') = Held(PESdata) + c
  PROVE  Drift' = Drift
<1>1. BufferLevel \in Int /\ Held(PESdata) \in Int
  BY HeldType, LevelAssumption DEF IInv, TypeOK
<1>2. QueuedBytes = Held(PESdata) /\ QueuedBytes' = Held(PESdata')
  BY DEF QueuedBytes, Held
<1>3. Drift' = Level(BufferLevel' - QueuedBytes')
  BY DEF Drift, Level
<1>4. QED BY <1>1, <1>2, <1>3, ErrorIsKept DEF Drift

LEMMA NoDriftWithoutChange ==
  ASSUME BufferLevel' = BufferLevel, PESdata' = PESdata
  PROVE  Drift' = Drift
BY DEF Drift, QueuedBytes, BytesUpTo, Level

LEMMA DropLastKeepsDrift ==
  ASSUME IInv, PESdata # <<>>, PESdata' = Front(PESdata),
         BufferLevel' = Level(BufferLevel - Len(Last(PESdata).payload))
  PROVE  Drift' = Drift
<1>1. PESdata \in Seq(PESPacket_t) /\ BufferLevel \in Int
  BY LevelAssumption DEF IInv, TypeOK
<1>2. Held(PESdata') = Held(PESdata) - Len(Last(PESdata).payload) /\ Held(PESdata) \in Nat
  BY <1>1, HeldAfterFront, HeldType
<1>3. Len(Last(PESdata).payload) \in Nat
  <2>1. Last(PESdata) \in PESPacket_t
    BY <1>1, EmptySeq, ElementOfSeq, LenProperties DEF Last
  <2>2. QED BY <2>1, LenProperties DEF PESPacket_t
<1> DEFINE c == -Len(Last(PESdata).payload)
<1>4. /\ c \in Int
      /\ BufferLevel - Len(Last(PESdata).payload) = BufferLevel + c
      /\ Held(PESdata) - Len(Last(PESdata).payload) = Held(PESdata) + c
  BY <1>1, <1>2, <1>3
<1> HIDE DEF c
<1>5. QED BY <1>2, <1>4, DriftIsKept

(* The two ways in which a transport packet puts the level out of step. *)
PutsOut(ts) ==
  \/ ts.payloadSize < 0
  \/ ts.pusi /\ HeaderFound(ts) /\ ts.payloadSize > ts.pesSize

(* A header whose payload fits into its PES packet: all of it went there. *)
LEMMA StartedHoldsPayload ==
  ASSUME NEW ts \in TSPackets, ts.pusi, HeaderFound(ts), ~PutsOut(ts)
  PROVE  /\ ts.payloadSize \in Nat
         /\ NewPESPacket(ts) \in PESPacket_t
         /\ Len(NewPESPacket(ts).payload) = ts.payloadSize
<1>1. ts.payloadSize \in 0 .. ts.pesSize /\ ts.pesSize \in Nat
  BY PacketFacts DEF PutsOut
<1>2. QED BY <1>1, NewPESPacketProperties

LEMMA StartKeepsDrift ==
  ASSUME IInv, NEW ts \in TSPackets, StartPES(ts), ~PutsOut(ts)
  PROVE  Drift' = Drift
<1> DEFINE pes == NewPESPacket(ts)
<1>1. /\ ts.payloadSize \in Nat /\ pes \in PESPacket_t
      /\ Len(pes.payload) = ts.payloadSize
  BY StartedHoldsPayload DEF StartPES
<1>2. PESdata' = Append(PESdata, pes) /\ BufferLevel' = Level(BufferLevel + ts.payloadSize)
  BY DEF StartPES
<1> HIDE DEF pes
<1>3. Held(PESdata') = Held(PESdata) + ts.payloadSize
  BY <1>1, <1>2, HeldAfterAppend DEF IInv, TypeOK
<1>4. QED BY <1>1, <1>2, <1>3, DriftIsKept

LEMMA ReplaceKeepsDrift ==
  ASSUME IInv, PESdata # <<>>, NEW pes \in PESPacket_t, NEW c \in Nat,
         Len(pes.payload) = Len(Last(PESdata).payload) + c,
         PESdata' = WithLast(pes), BufferLevel' = Level(BufferLevel + c)
  PROVE  Drift' = Drift
<1>1. PESdata \in Seq(PESPacket_t) /\ PESdata' = [PESdata EXCEPT ![Len(PESdata)] = pes]
  BY DEF IInv, TypeOK, WithLast
<1>2. Held(PESdata') = Held(PESdata) + c
  BY <1>1, HeldAfterReplace
<1>3. c \in Int  OBVIOUS
<1>4. QED BY <1>2, <1>3, DriftIsKept

LEMMA RestartKeepsDrift ==
  ASSUME IInv, PESdata # <<>>, NEW ts \in TSPackets, RestartPES(ts), ~PutsOut(ts)
  PROVE  Drift' = Drift
<1> DEFINE last == Last(PESdata)
<1>1. CASE last.payload # <<>>
  BY <1>1, DropLastKeepsDrift DEF RestartPES
<1>2. CASE last.payload = <<>>
  <2>1. last \in PESPacket_t /\ Len(last.payload) = 0
    <3>1. PESdata \in Seq(PESPacket_t) /\ Len(PESdata) \in 1 .. Len(PESdata)
      BY EmptySeq, LenProperties DEF IInv, TypeOK
    <3>2. QED BY <1>2, <3>1, ElementOfSeq, EmptySeq DEF Last
  <2>2. CASE HeaderFound(ts)
    <3>1. /\ ts.payloadSize \in Nat
          /\ NewPESPacket(ts) \in PESPacket_t
          /\ Len(NewPESPacket(ts).payload) = Len(last.payload) + ts.payloadSize
      BY <2>1, <2>2, StartedHoldsPayload DEF RestartPES
    <3>2. /\ PESdata' = WithLast(NewPESPacket(ts))
          /\ BufferLevel' = Level(BufferLevel + ts.payloadSize)
      BY <1>2, <2>2 DEF RestartPES
    <3> HIDE DEF last
    <3>3. QED BY <3>1, <3>2, ReplaceKeepsDrift DEF last
  <2>3. CASE ~HeaderFound(ts)
    <3> DEFINE pes == [last EXCEPT !.Started = FALSE, !.Complete = FALSE]
    <3>1. pes \in PESPacket_t /\ Len(pes.payload) = Len(last.payload) + 0
      <4>1. pes \in PESPacket_t /\ pes.payload = last.payload
        BY <2>1, LeftBehind
      <4>2. QED BY <2>1, <4>1
    <3>2. PESdata' = WithLast(pes) /\ BufferLevel' = Level(BufferLevel + 0)
      BY <1>2, <2>3 DEF RestartPES
    <3> HIDE DEF last, pes
    <3>3. QED BY <3>1, <3>2, ReplaceKeepsDrift DEF last
  <2>4. QED BY <2>2, <2>3
<1>3. QED BY <1>1, <1>2

LEMMA ContinueKeepsDrift ==
  ASSUME IInv, Assembling(PESdata),
         NEW ts \in TSPackets, ContinueLastPESPacket(ts), ~PutsOut(ts)
  PROVE  Drift' = Drift
<1> DEFINE last == Last(PESdata)
           pes == ContinuedPESPacket(last, ts)
           s == CopySize(last, ts)
<1>1. PESdata # <<>> /\ Queue(PESdata) /\ last.Started
  BY QueueInvFromIInv DEF QueueInv, Assembling
<1>2. last \in PESPacket_t /\ WellFormed(last)
  BY <1>1, LastOfQueue
<1>3. ts.payloadSize >= 0
  BY PacketFacts DEF PutsOut
<1>4. PESdata' = WithLast(pes) /\ BufferLevel' = Level(BufferLevel + s)
  BY DEF ContinueLastPESPacket
<1> HIDE DEF last
<1>5. pes \in PESPacket_t /\ s \in Nat /\ Len(pes.payload) = Len(last.payload) + s
  BY <1>1, <1>2, <1>3, ContinuedPESPacketProperties
<1> HIDE DEF pes, s
<1>6. QED BY <1>1, <1>4, <1>5, ReplaceKeepsDrift DEF last

LEMMA NextPacketDrift ==
  ASSUME IInv, NEW ts \in TSPackets, NextPacket(ts), ~PutsOut(ts) \/ CheckCCError(ts)
  PROVE  Drift' = Drift
<1>1. QueueInv /\ status = "live" /\ Queue(PESdata)
  BY QueueInvFromIInv DEF NextPacket, QueueInv
<1>2. CASE ~ts.payloadPresent
  BY <1>2, NoDriftWithoutChange DEF NextPacket
<1>3. CASE ts.payloadPresent
  <2> DEFINE state == IF CheckCCError(ts) THEN CCError ELSE CurrentState
  <2>1. \/ state = WaitForPesStart /\ StartPES(ts)
        \/ state = WaitForPesStart /\ SkipPayload(ts)
        \/ state = WaitForPESData /\ RestartPES(ts)
        \/ state = WaitForPESData /\ ContinueLastPESPacket(ts)
        \/ state = CCError /\ DropIncomplete
    BY <1>3 DEF NextPacket
  <2>2. state = WaitForPESData => Assembling(PESdata) /\ PESdata # <<>>
    BY <1>1 DEF QueueInv, Assembling, WaitForPESData, CCError
  <2>3. state \in {WaitForPesStart, WaitForPESData} => ~PutsOut(ts)
    BY DEF WaitForPesStart, WaitForPESData, CCError
  <2> HIDE DEF state
  <2>4. CASE state = WaitForPesStart /\ StartPES(ts)
    BY <2>4, <2>3, StartKeepsDrift
  <2>5. CASE SkipPayload(ts)
    BY <2>5, NoDriftWithoutChange DEF SkipPayload
  <2>6. CASE state = WaitForPESData /\ RestartPES(ts)
    BY <2>2, <2>6, <2>3, RestartKeepsDrift
  <2>7. CASE state = WaitForPESData /\ ContinueLastPESPacket(ts)
    BY <2>2, <2>7, <2>3, ContinueKeepsDrift
  <2>8. CASE DropIncomplete
    <3>1. CASE PESdata # <<>> /\ ~Last(PESdata).Complete
      BY <2>8, <3>1, DropLastKeepsDrift DEF DropIncomplete
    <3>2. CASE ~(PESdata # <<>> /\ ~Last(PESdata).Complete)
      BY <2>8, <3>2, NoDriftWithoutChange DEF DropIncomplete
    <3>3. QED BY <3>1, <3>2
  <2>9. QED BY <2>1, <2>4, <2>5, <2>6, <2>7, <2>8
<1>4. QED BY <1>2, <1>3

LEMMA PCRTickDrift ==
  ASSUME IInv, NEW PCR \in PCRs, PCRTick(PCR)
  PROVE  Drift' = Drift
<1>1. /\ QueueInv /\ Queue(PESdata) /\ PESdata \in Seq(PESPacket_t)
      /\ BufferLevel \in Int /\ BufferLevel \in 0 .. LevelModulus - 1
  BY QueueInvFromIInv, LevelAssumption DEF QueueInv, IInv, TypeOK
<1>2. CASE PESdata = <<>>
  BY <1>2, NoDriftWithoutChange DEF PCRTick
<1>3. CASE PESdata # <<>>
  <2> DEFINE front == Head(PESdata)
             control == TickControl(front, PCR)
             gone == ~(front.Started \/ front.Complete)
  <2>1. /\ PESdata' = IF control # "Wait" \/ gone THEN Tail(PESdata) ELSE PESdata
        /\ BufferLevel' = IF control # "Wait"
                          THEN Level(BufferLevel - Len(front.payload))
                          ELSE BufferLevel
    BY <1>3 DEF PCRTick
  <2>2. front \in PESPacket_t /\ WellFormed(front)
    BY <1>1, <1>3, LastOfQueue
  <2>3. Len(front.payload) \in Nat /\ Held(PESdata) \in Nat
    BY <1>1, <2>2, LenProperties, HeldType DEF PESPacket_t
  <2>4. gone => Len(front.payload) = 0
    BY <2>2, EmptySeq DEF WellFormed, Void
  <2> DEFINE c == -Len(front.payload)
  <2> HIDE DEF control, gone
  <2>5. CASE control = "Wait" /\ ~gone
    BY <2>1, <2>5, NoDriftWithoutChange
  <2>6. CASE control # "Wait" \/ gone
    <3>1. /\ c \in Int
          /\ BufferLevel - Len(front.payload) = BufferLevel + c
          /\ Held(PESdata) - Len(front.payload) = Held(PESdata) + c
      <4> HIDE DEF front
      <4>1. QED BY <1>1, <2>3
    <3>2. PESdata' = Tail(PESdata)
      BY <2>1, <2>6
    <3>3. BufferLevel' = Level(BufferLevel + c)
      <4>1. CASE control # "Wait"
        BY <2>1, <3>1, <4>1
      <4>2. CASE control = "Wait"
        <5>1. BufferLevel + c = BufferLevel
          BY <1>1, <2>4, <2>6, <4>2
        <5>2. Level(BufferLevel) = BufferLevel
          BY <1>1, LevelAssumption DEF Level
        <5>3. QED BY <2>1, <4>2, <5>1, <5>2
      <4>3. QED BY <4>1, <4>2
    <3>4. Held(PESdata') = Held(PESdata) - Len(front.payload)
      BY <1>1, <1>3, <3>2, TailBytes DEF Held
    <3> HIDE DEF c, front
    <3>5. QED BY <3>1, <3>3, <3>4, DriftIsKept
  <2>7. QED BY <2>5, <2>6
<1>4. QED BY <1>2, <1>3

(* DriftHasCauses: of the five places that adjust BufferLevel only the two   *)
(* that add a payload's size without copying so many bytes put it out of     *)
(* step with the bytes in the queue, with a transport packet that is taken   *)
(* and whose payload size is negative or longer than the PES packet that it  *)
(* begins.                                                                   *)
THEOREM DriftHasCausesHolds == Spec => DriftHasCauses
<1> DEFINE Caused == Drift' # Drift /\ status' # "destroyed" =>
                       \E ts \in TSPackets :
                         /\ NextPacket(ts) /\ ~CheckCCError(ts)
                         /\ \/ ts.payloadSize < 0
                            \/ ts.pusi /\ HeaderFound(ts) /\ ts.payloadSize > ts.pesSize
<1>1. Init => IInv
  BY InitEstablishes
<1>2. IInv /\ [Next]_vars => IInv'
  BY StepPreserves
<1>3. IInv /\ [Next]_vars => [Caused]_vars
  <2> SUFFICES ASSUME IInv, Next PROVE Caused
    OBVIOUS
  <2>1. ASSUME NEW ts \in TSPackets, NextPacket(ts) PROVE Caused
    BY <2>1, NextPacketDrift DEF PutsOut
  <2>2. ASSUME NEW PCR \in PCRs, PCRTick(PCR) PROVE Caused
    BY <2>2, PCRTickDrift
  <2>3. ASSUME NEW id \in StreamIds, SetStreamID(id) PROVE Caused
    BY <2>3, NoDriftWithoutChange DEF SetStreamID
  <2>4. CASE Destroy
    BY <2>4 DEF Destroy
  <2>5. QED BY <2>1, <2>2, <2>3, <2>4 DEF Next
<1>4. QED BY <1>1, <1>2, <1>3, PTL DEF Spec, DriftHasCauses

-----------------------------------------------------------------------------
(* The inductive invariant.                                                *)

(* A payload consists of the first j units of PES k. *)
FirstUnits(payload, k, j) ==
  Len(payload) = j /\ \A m \in 1 .. j : payload[m] = <<k, m>>

(* A payload is its PES packet from the first unit on, without a gap. *)
Straight(payload) == FirstUnits(payload, Origin(payload), Len(payload))

(* What was decoded and what is queued, in one sequence of payloads. *)
PassingOf(d, q) ==
  [i \in 1 .. Len(d) + Len(q) |-> IF i <= Len(d) THEN d[i] ELSE q[i - Len(d)].payload]

Passing == PassingOf(decoded, PESdata)

InOrder(v) == \A i, j \in 1 .. Len(v) : i < j => Origin(v[i]) <= Origin(v[j])

(* The i-th payload is spliced, or its PES packet passed before. *)
Flawed(v, i) ==
  ~Straight(v[i]) \/ \E j \in 1 .. i - 1 : Origin(v[j]) = Origin(v[i])

NoFlaw(v) == \A i \in 1 .. Len(v) : ~Flawed(v, i)
OneFlaw(v) == \A i, j \in 1 .. Len(v) : Flawed(v, i) /\ Flawed(v, j) => i = j

ChannelTypeOK ==
  /\ ccBase \in 0 .. CCModulus - 1
  /\ sent \in 0 .. Len(Units)
  /\ lost \in 0 .. MaxLost
  /\ clock \in 0 .. MaxClock
  /\ arrived \in Seq(Nat \X Nat)
  /\ decoded \in Seq(Seq(Bytes))
  /\ stream_id = StreamId

(* The handler's counter is that of the last arrival, behind which only lost *)
(* packets were sent.                                                        *)
LastArrival(n) ==
  /\ Last(arrived) = Units[n]
  /\ sent - n <= lost
  /\ ContinuityCount = (ccBase + n - 1) % CCModulus

InTouch ==
  IF arrived = <<>>
  THEN PESdata = <<>> /\ decoded = <<>> /\ ~doubleCC
  ELSE \E n \in 1 .. sent : LastArrival(n)

(* Payloads of PES packets of the stream, up to PES k. *)
Begun(v, k) ==
  \A i \in 1 .. Len(v) : v[i] # <<>> /\ Origin(v[i]) \in PES /\ Origin(v[i]) <= k

(* A PES packet is queued under the length of the one it began with, *)
Measured(q) == \A i \in 1 .. Len(q) : q[i].pesPacketLength = Chunks[Origin(q[i].payload)]

(* and decoded with that length. *)
Full(d) == \A i \in 1 .. Len(d) : Len(d[i]) = Chunks[Origin(d[i])]

PassingInOrder ==
  /\ Begun(Passing, Last(arrived)[1])
  /\ Full(decoded) /\ Measured(PESdata)
  /\ InOrder(Passing)

(* There is no flaw before the mismatch that is tolerated, and one after it *)
(* at most.                                                                 *)
OneFault == OneFlaw(Passing) /\ (~doubleCC => NoFlaw(Passing))

(* What is being assembled without a gap ends with the last arrival. *)
InStep ==
  Assembling(PESdata) /\ Straight(Last(PESdata).payload) =>
    Last(arrived) = Last(Last(PESdata).payload)

(* The last arrivals are the first j units of PES k, right behind the unit   *)
(* before.                                                                   *)
EndsCleanly(k, j) ==
  LET i == Len(arrived) - j + 1
  IN  /\ i >= 1
      /\ \A m \in 1 .. j : arrived[i + m - 1] = <<k, m>>
      /\ IF k = 1 THEN i = 1 ELSE i > 1 /\ arrived[i - 1] = <<k - 1, Chunks[k - 1]>>

(* Then they are what is being assembled. *)
CleanIsAssembled ==
  status = "live" =>
    \A k \in PES : \A j \in 1 .. Chunks[k] - 1 :
      EndsCleanly(k, j) =>
        /\ Assembling(PESdata)
        /\ FirstUnits(Last(PESdata).payload, k, j)

Kept(k) == (\E i \in 1 .. Len(Passing) : Passing[i] = Source(k)) \/ k \in stale

CleanIsKept == status = "live" => \A k \in PES : ArrivedCleanly(k) => Kept(k)

ReceptionInv ==
  /\ IInv /\ ChannelTypeOK /\ InTouch /\ PassingInOrder
  /\ OneFault /\ InStep /\ CleanIsAssembled /\ CleanIsKept

-----------------------------------------------------------------------------
(* The layout of the stream.                                               *)

LEMMA PESFacts ==
  /\ PES = 1 .. Len(Chunks) /\ Len(Chunks) \in Nat
  /\ \A k \in PES : Chunks[k] \in Nat \ {0} /\ Stamps[k] \in 0 .. PtsMax
  /\ DOMAIN Units = 1 .. Len(Units) /\ Len(Units) \in Nat
<1>1. Chunks \in Seq(Nat \ {0}) /\ Stamps \in Seq(0 .. PtsMax) /\ Len(Stamps) = Len(Chunks)
  BY LayoutAssumption
<1>2. PES = 1 .. Len(Chunks) /\ Len(Chunks) \in Nat
  BY <1>1, LenProperties DEF PES
<1>3. \A k \in 1 .. Len(Chunks) : Chunks[k] \in Nat \ {0} /\ Stamps[k] \in 0 .. PtsMax
  BY <1>1, ElementOfSeq
<1>4. DOMAIN Units = 1 .. Len(Units) /\ Len(Units) \in Nat
  BY UnitsAssumption, LenProperties
<1>5. QED BY <1>2, <1>3, <1>4

LEMMA UnitFacts ==
  ASSUME NEW n \in 1 .. Len(Units)
  PROVE  /\ Units[n] \in Nat \X Nat
         /\ Units[n] = <<Units[n][1], Units[n][2]>>
         /\ Units[n][1] \in PES /\ Units[n][1] \in Nat
         /\ Units[n][2] \in 1 .. Chunks[Units[n][1]] /\ Units[n][2] \in Nat
<1>1. Units[n] \in Nat \X Nat
  BY UnitsAssumption, ElementOfSeq
<1>2. Units[n][1] \in PES /\ Units[n][2] \in 1 .. Chunks[Units[n][1]]
  BY UnitsAssumption, PESFacts
<1>3. QED BY <1>1, <1>2

LEMMA UnitsAreOrdered ==
  ASSUME NEW m \in 1 .. Len(Units), NEW n \in 1 .. Len(Units)
  PROVE  /\ m < n => Before(Units[m], Units[n])
         /\ Units[m] = Units[n] => m = n
<1>1. /\ m < n => Before(Units[m], Units[n])
      /\ n < m => Before(Units[n], Units[m])
  BY PESFacts, UnitsAssumption
<1>2. ~Before(Units[m], Units[m])
  BY UnitFacts DEF Before
<1>3. QED BY <1>1, <1>2

(* The unit after one of PES k that is not its last is the next of PES k,    *)
(* and after its last comes the first of the next.                           *)
LEMMA NextUnit ==
  ASSUME NEW n \in 1 .. Len(Units), NEW p \in 1 .. Len(Units),
         LET k == Units[n][1]
             j == Units[n][2]
         IN  \/ Units[p] = <<k, j + 1>>
             \/ j = Chunks[k] /\ Units[p] = <<k + 1, 1>>
  PROVE  p = n + 1
<1> DEFINE k == Units[n][1]
           j == Units[n][2]
<1>1. /\ k \in Nat /\ j \in Nat /\ j <= Chunks[k] /\ Chunks[k] \in Nat
      /\ Units[p][1] \in Nat /\ Units[p][2] \in Nat
      /\ n \in Nat /\ p \in Nat
  BY UnitFacts, PESFacts
<1>2. Before(Units[n], Units[p])
  BY <1>1 DEF Before
<1>3. n < p
  <2>1. ~Before(Units[p], Units[n]) /\ Units[n] # Units[p]
    BY <1>1, <1>2 DEF Before
  <2>2. QED BY <1>1, <2>1, UnitsAreOrdered
<1>4. ASSUME n + 1 < p PROVE FALSE
  <2>1. n + 1 \in 1 .. Len(Units)
    BY <1>1, <1>4, PESFacts
  <2>2. Before(Units[n], Units[n + 1]) /\ Before(Units[n + 1], Units[p])
    BY <1>1, <1>4, <2>1, UnitsAreOrdered
  <2>3. /\ Units[n + 1][1] \in Nat /\ Units[n + 1][2] \in Nat
        /\ 1 <= Units[n + 1][2] /\ Units[n + 1][2] <= Chunks[Units[n + 1][1]]
    BY <2>1, UnitFacts, PESFacts
  <2>4. Units[n + 1][1] = k => Units[n + 1][2] <= Chunks[k]
    BY <2>3
  <2>5. QED BY <1>1, <2>2, <2>3, <2>4, SMTT(40) DEF Before
<1>5. QED BY <1>1, <1>3, <1>4

LEMMA SourceFacts ==
  ASSUME NEW k \in PES
  PROVE  /\ Source(k) \in Seq(Nat \X Nat) /\ Len(Source(k)) = Chunks[k]
         /\ \A j \in 1 .. Chunks[k] : Source(k)[j] = <<k, j>>
<1>1. k \in Nat /\ Chunks[k] \in Nat
  BY PESFacts
<1>2. \A j \in 1 .. Chunks[k] : <<k, j>> \in Nat \X Nat
  BY <1>1
<1> DEFINE s == [j \in 1 .. Chunks[k] |-> <<k, j>>]
<1>3. s \in Seq(Nat \X Nat) /\ Len(s) = Chunks[k]
  BY <1>1, <1>2
<1>4. QED BY <1>3 DEF Source

(* The transport packets of the stream. *)
LEMMA PacketIsOfStream ==
  ASSUME NEW n \in 1 .. Len(Units), ccBase \in 0 .. CCModulus - 1
  PROVE  /\ Packet(n) \in TSPackets
         /\ Packet(n).payloadPresent
         /\ Packet(n).payload = <<Units[n]>> /\ Units[n] \in Bytes
         /\ Packet(n).payloadSize = 1
         /\ Packet(n).cc = (ccBase + n - 1) % CCModulus
         /\ Packet(n).pusi <=> Units[n][2] = 1
         /\ Packet(n).pusi => Packet(n).sid = StreamId
         /\ Packet(n).pusi => Packet(n).pesSize = Chunks[Units[n][1]]
<1>1. (ccBase + n - 1) % CCModulus \in 0 .. CCModulus - 1
  <2>1. ccBase + n - 1 \in Int /\ CCModulus \in Nat \ {0}
    BY CCAssumption
  <2>2. QED BY <2>1
<1>2. Packet(n) \in TSPackets
  BY <1>1, StreamPacketAssumption, PESFacts DEF Packet
<1>3. Packet(n).payload \in Seq(Bytes)
  BY <1>2, PacketFacts
<1>4. Packet(n).payload = <<Units[n]>>
  BY DEF Packet, StreamPacket
<1>5. Units[n] \in Bytes
  BY <1>3, <1>4
<1>6. QED BY <1>2, <1>4, <1>5 DEF Packet, StreamPacket

-----------------------------------------------------------------------------
(* Continuity counters.                                                    *)

(* Counters that differ by less than a turn agree only when they are equal. *)
LEMMA TurnOfCounter ==
  ASSUME NEW m \in Nat \ {0}, NEW x \in Nat, NEW d \in 0 .. m - 1
  PROVE  /\ (x + d) % m = x % m => d = 0
         /\ ((x % m) + 1) % m = (x + 1) % m
<1> DEFINE q == x \div m
           r == x % m
<1>1. x = m * q + r /\ q \in Int /\ r \in 0 .. m - 1
  BY SMT
<1> HIDE DEF q, r
<1>2. (m * q + (r + d)) % m = (r + d) % m /\ (m * q + (r + 1)) % m = (r + 1) % m
  BY <1>1, SMT
<1>3. (r + d) % m = IF r + d < m THEN r + d ELSE r + d - m
  BY <1>1, SMT
<1>4. x + d = m * q + (r + d) /\ x + 1 = m * q + (r + 1)
  BY <1>1
<1>5. (x + d) % m = (r + d) % m /\ (x + 1) % m = (r + 1) % m
  BY <1>2, <1>4
<1>6. QED BY <1>1, <1>3, <1>5 DEF r

(* A transport packet that is sent matches the handler's counter exactly     *)
(* when the one sent before it was the last to arrive.                       *)
LEMMA CounterOfNext ==
  ASSUME ChannelTypeOK, sent < Len(Units), NEW n \in 1 .. sent, LastArrival(n)
  PROVE  CCMismatch(Packet(sent + 1)) <=> n # sent
<1> DEFINE x == ccBase + n
           d == sent - n
<1>1. /\ CCModulus \in Nat \ {0} /\ sent \in Nat /\ ccBase \in Nat /\ n \in Nat
      /\ n <= sent /\ sent - n <= lost /\ lost <= MaxLost /\ lost \in Nat /\ MaxLost < CCModulus
      /\ MaxLost \in Nat
  BY CCAssumption, ChannelAssumption, PESFacts DEF ChannelTypeOK, LastArrival
<1>2. x \in Nat /\ x - 1 \in Nat /\ d \in 0 .. CCModulus - 1
  BY <1>1
<1>3. sent + 1 \in 1 .. Len(Units)
  BY <1>1, PESFacts
<1>4. Packet(sent + 1).cc = (x + d) % CCModulus
  <2>1. ccBase + (sent + 1) - 1 = x + d
    BY <1>1
  <2>2. Packet(sent + 1).cc = (ccBase + (sent + 1) - 1) % CCModulus
    BY <1>3, PacketIsOfStream DEF ChannelTypeOK
  <2>3. QED BY <2>1, <2>2
<1>5. (ContinuityCount + 1) % CCModulus = x % CCModulus
  <2>1. ContinuityCount = (x - 1) % CCModulus
    BY <1>1 DEF LastArrival
  <2>2. 0 \in 0 .. CCModulus - 1
    BY <1>1
  <2>3. (((x - 1) % CCModulus) + 1) % CCModulus = ((x - 1) + 1) % CCModulus
    BY <1>1, <1>2, <2>2, TurnOfCounter
  <2>4. (x - 1) + 1 = x
    BY <1>2
  <2>5. QED BY <2>1, <2>3, <2>4
<1>6. (x + d) % CCModulus = x % CCModulus <=> d = 0
  <2>1. (x + d) % CCModulus = x % CCModulus => d = 0
    BY <1>1, <1>2, TurnOfCounter
  <2>2. d = 0 => x + d = x
    BY <1>2
  <2>3. QED BY <2>1, <2>2
<1>7. d = 0 <=> n = sent
  BY <1>1
<1> HIDE DEF x, d
<1>8. QED BY <1>4, <1>5, <1>6, <1>7 DEF CCMismatch

(* A transport packet that arrives a second time never matches. *)
LEMMA CounterOfRepeat ==
  ASSUME ChannelTypeOK, NEW n \in 1 .. sent, LastArrival(n), Last(arrived) = Units[sent]
  PROVE  n = sent /\ CCMismatch(Packet(sent))
<1> DEFINE x == ccBase + sent - 1
<1>1. /\ CCModulus \in Nat \ {0} /\ CCModulus > 1 /\ sent \in Nat \ {0} /\ ccBase \in Nat
      /\ n \in 1 .. Len(Units) /\ sent \in 1 .. Len(Units)
  BY CCAssumption, ChannelAssumption, PESFacts DEF ChannelTypeOK
<1>2. n = sent
  BY <1>1, UnitsAreOrdered DEF LastArrival
<1>3. Packet(sent).cc = x % CCModulus /\ ContinuityCount = x % CCModulus
  BY <1>1, <1>2, PacketIsOfStream DEF ChannelTypeOK, LastArrival
<1>4. x \in Nat /\ 1 \in 0 .. CCModulus - 1
  BY <1>1
<1> HIDE DEF x
<1>5. ((x % CCModulus) + 1) % CCModulus = (x + 1) % CCModulus /\ (x + 1) % CCModulus # x % CCModulus
  <2>1. /\ (x + 1) % CCModulus = x % CCModulus => 1 = 0
        /\ ((x % CCModulus) + 1) % CCModulus = (x + 1) % CCModulus
    BY <1>1, <1>4, TurnOfCounter
  <2>2. QED BY <2>1
<1>6. QED BY <1>2, <1>3, <1>5 DEF CCMismatch

-----------------------------------------------------------------------------
(* What the handler does with a transport packet of the stream.            *)

(* It starts a PES packet, *)
Starts(n) ==
  /\ ~CheckCCError(Packet(n)) /\ Units[n][2] = 1 /\ ~Assembling(PESdata)
  /\ status' = "live"
  /\ \E pes \in PESPacket_t :
       /\ pes.payload = <<Units[n]>> /\ pes.pesPacketLength = Chunks[Units[n][1]]
       /\ PESdata' = Append(PESdata, pes)

(* or continues one, *)
Continues(n) ==
  /\ ~CheckCCError(Packet(n)) /\ Units[n][2] # 1 /\ Assembling(PESdata)
  /\ status' = "live"
  /\ \E pes \in PESPacket_t :
       /\ pes.payload = Append(Last(PESdata).payload, Units[n])
       /\ pes.pesPacketLength = Last(PESdata).pesPacketLength
       /\ PESdata' = WithLast(pes)

(* or skips the payload between PES packets, *)
Skips(n) ==
  /\ ~CheckCCError(Packet(n)) /\ Units[n][2] # 1 /\ ~Assembling(PESdata)
  /\ status' = "live" /\ PESdata' = PESdata

(* or crashes, *)
Crashes(n) ==
  /\ ~CheckCCError(Packet(n)) /\ Units[n][2] = 1 /\ Assembling(PESdata)
  /\ status' = "crashed" /\ PESdata' = Front(PESdata)

(* or drops what it is assembling. *)
Drops(n) ==
  /\ CheckCCError(Packet(n))
  /\ status' = "live"
  /\ PESdata' = IF Assembling(PESdata) THEN Front(PESdata) ELSE PESdata

LEMMA OneUnit ==
  ASSUME NEW u \in Bytes, NEW p \in Seq(Bytes)
  PROVE  /\ SubSeq(<<u>>, 1, 1) = <<u>> /\ Len(<<u>>) = 1
         /\ p \o <<u>> = Append(p, u) /\ <<>> \o <<u>> = <<u>>
<1> DEFINE s == <<u>>
<1>1. s \in Seq(Bytes) /\ Len(s) = 1
  OBVIOUS
<1>2. p \o <<u>> = Append(p, u)
  BY AppendIsConcat
<1> HIDE DEF s
<1>3. SubSeq(s, 1, Len(s)) = s
  BY <1>1, SubSeqFull
<1>4. <<>> \o s = s
  BY <1>1, ConcatEmptySeq
<1>5. QED BY <1>1, <1>2, <1>3, <1>4 DEF s

(* All PES packets of the queue hold data. *)
Laden(q) == \A i \in 1 .. Len(q) : q[i].payload # <<>>

LEMMA LadenIsBegun ==
  ASSUME NEW pes \in PESPacket_t, WellFormed(pes), pes.payload # <<>>
  PROVE  /\ pes.Started
         /\ Len(pes.payload) \in 1 .. pes.pesPacketLength
         /\ pes.Complete <=> Len(pes.payload) = pes.pesPacketLength
<1>1. pes.Started /\ Len(pes.payload) \in 0 .. pes.pesPacketLength
  BY DEF WellFormed, Void
<1>2. Len(pes.payload) # 0
  BY EmptySeq DEF PESPacket_t
<1>3. pes.pesPacketLength \in Nat /\ Len(pes.payload) \in Nat
  BY <1>1 DEF PESPacket_t
<1>4. QED BY <1>1, <1>2, <1>3 DEF WellFormed, Void

LEMMA LadenQueue ==
  ASSUME NEW q, Queue(q), Laden(q), q # <<>>
  PROVE  /\ Last(q).payload # <<>> /\ Head(q).payload # <<>>
         /\ Last(q).Started /\ Head(q).Started
<1>1. /\ Len(q) \in Nat \ {0} /\ q \in Seq(PESPacket_t)
      /\ Last(q) \in PESPacket_t /\ WellFormed(Last(q))
      /\ Head(q) \in PESPacket_t /\ WellFormed(Head(q))
  BY LastOfQueue DEF Queue
<1>2. Len(q) \in 1 .. Len(q) /\ 1 \in 1 .. Len(q)
  BY <1>1
<1>3. Last(q) = q[Len(q)] /\ Head(q) = q[1]
  BY <1>1 DEF Last
<1>4. Last(q).payload # <<>> /\ Head(q).payload # <<>>
  BY <1>2, <1>3 DEF Laden
<1>5. QED BY <1>1, <1>4, LadenIsBegun

LEMMA HandlerStep ==
  ASSUME IInv, ChannelTypeOK, Laden(PESdata), NEW n \in 1 .. Len(Units), NextPacket(Packet(n))
  PROVE  /\ IInv' /\ status = "live" /\ stream_id' = stream_id
         /\ doubleCC' = (doubleCC \/ CCMismatch(Packet(n)))
         /\ ContinuityCount' = (ccBase + n - 1) % CCModulus
         /\ Starts(n) \/ Continues(n) \/ Skips(n) \/ Crashes(n) \/ Drops(n)
<1> DEFINE ts == Packet(n)
           u == Units[n]
           state == IF CheckCCError(ts) THEN CCError ELSE CurrentState
<1>1. /\ ts \in TSPackets /\ ts.payloadPresent
      /\ ts.payload = <<u>> /\ u \in Bytes /\ ts.payloadSize = 1
      /\ ts.cc = (ccBase + n - 1) % CCModulus
      /\ ts.pusi <=> u[2] = 1
      /\ ts.pusi => ts.sid = StreamId /\ ts.pesSize = Chunks[u[1]]
  BY PacketIsOfStream DEF ChannelTypeOK
<1>2. /\ status = "live" /\ stream_id' = stream_id
      /\ doubleCC' = (doubleCC \/ CCMismatch(ts)) /\ ContinuityCount' = ts.cc
      /\ \/ state = WaitForPesStart /\ StartPES(ts)
         \/ state = WaitForPesStart /\ SkipPayload(ts)
         \/ state = WaitForPESData /\ RestartPES(ts)
         \/ state = WaitForPESData /\ ContinueLastPESPacket(ts)
         \/ state = CCError /\ DropIncomplete
  BY <1>1 DEF NextPacket
<1>3. IInv'
  BY <1>1, NextPacketStep
<1>4. /\ Queue(PESdata) /\ (CurrentState = WaitForPESData <=> Assembling(PESdata))
      /\ CurrentState \in {WaitForPesStart, WaitForPESData}
  BY <1>2 DEF IInv, TypeOK, QueueDiscipline, Queue
<1>5. /\ state # CCError => ~CheckCCError(ts) /\ state = CurrentState
      /\ state = CCError => CheckCCError(ts)
  BY <1>4 DEF WaitForPesStart, WaitForPESData, CCError
<1>6. WaitForPesStart # WaitForPESData /\ WaitForPesStart # CCError /\ WaitForPESData # CCError
  BY DEF WaitForPesStart, WaitForPESData, CCError
<1>7. ts.pusi => HeaderFound(ts)
  BY <1>1 DEF HeaderFound, ChannelTypeOK
<1> HIDE DEF ts, state, u
<1>8. CASE state = WaitForPesStart /\ StartPES(ts)
  <2> DEFINE empty == [PTS |-> ts.pts, pesPacketLength |-> ts.pesSize, payload |-> <<>>,
                       Started |-> TRUE, Complete |-> FALSE]
             pes == NewPESPacket(ts)
  <2>1. ts.pusi /\ PESdata' = Append(PESdata, pes) /\ status' = status
    BY <1>8 DEF StartPES
  <2>2. ts.pesSize \in Nat \ {0}
    BY <1>1, PacketFacts
  <2>3. CopySize(empty, ts) = 1
    <3>1. Len(empty.payload) = 0 /\ ts.payloadSize = 1
      BY <1>1
    <3>2. QED BY <2>2, <3>1 DEF CopySize, Smaller
  <2>4. pes = AddNewData(empty, <<u>>, 1)
    BY <1>1, <2>3 DEF NewPESPacket
  <2>5. pes.payload = <<u>> /\ pes.pesPacketLength = ts.pesSize
    <3>1. SubSeq(<<u>>, 1, 1) = <<u>> /\ <<>> \o <<u>> = <<u>>
      BY <1>1, EmptySeq, OneUnit
    <3>2. QED BY <2>4, <3>1 DEF AddNewData
  <2>6. pes \in PESPacket_t
    BY <1>1, <2>2, NewPESPacketProperties
  <2> HIDE DEF pes
  <2>7. Starts(n)
    BY <1>1, <1>2, <1>4, <1>5, <1>6, <1>8, <2>1, <2>5, <2>6 DEF Starts, ts, u
  <2>8. QED BY <1>1, <1>2, <1>3, <2>7 DEF ts
<1>9. CASE state = WaitForPesStart /\ SkipPayload(ts)
  <2>1. ~ts.pusi /\ PESdata' = PESdata /\ status' = status
    BY <1>7, <1>9 DEF SkipPayload
  <2>2. Skips(n)
    BY <1>1, <1>2, <1>4, <1>5, <1>6, <1>9, <2>1 DEF Skips, ts, u
  <2>3. QED BY <1>1, <1>2, <1>3, <2>2 DEF ts
<1>10. CASE state = WaitForPESData /\ RestartPES(ts)
  <2>1. PESdata # <<>> /\ Assembling(PESdata)
    BY <1>4, <1>5, <1>6, <1>10 DEF Assembling
  <2>2. Last(PESdata).payload # <<>>
    BY <1>4, <2>1, LadenQueue
  <2>3. ts.pusi /\ PESdata' = Front(PESdata) /\ status' = "crashed"
    BY <1>10, <2>2 DEF RestartPES
  <2>4. Crashes(n)
    BY <1>1, <1>5, <1>6, <1>10, <2>1, <2>3 DEF Crashes, ts, u
  <2>5. QED BY <1>1, <1>2, <1>3, <2>4 DEF ts
<1>11. CASE state = WaitForPESData /\ ContinueLastPESPacket(ts)
  <2> DEFINE last == Last(PESdata)
             pes == ContinuedPESPacket(last, ts)
  <2>1. PESdata # <<>> /\ Assembling(PESdata) /\ last.Started /\ ~last.Complete
    BY <1>4, <1>5, <1>6, <1>11 DEF Assembling
  <2>2. last \in PESPacket_t /\ WellFormed(last)
    BY <1>4, <2>1, LastOfQueue
  <2>3. ~ts.pusi /\ PESdata' = WithLast(pes) /\ status' = status
    BY <1>11 DEF ContinueLastPESPacket
  <2> HIDE DEF last
  <2>4. CopySize(last, ts) = 1
    <3>1. /\ Len(last.payload) \in Nat /\ last.pesPacketLength \in Nat
          /\ Len(last.payload) < last.pesPacketLength
      BY <2>1, <2>2 DEF WellFormed, Void, PESPacket_t
    <3>2. QED BY <1>1, <3>1 DEF CopySize, Smaller
  <2>5. pes = AddNewData(last, <<u>>, 1)
    BY <1>1, <2>4 DEF ContinuedPESPacket
  <2>6. pes.payload = Append(last.payload, u) /\ pes.pesPacketLength = last.pesPacketLength
    <3>1. last.payload \in Seq(Bytes)
      BY <2>2 DEF PESPacket_t
    <3>2. last.payload \o SubSeq(<<u>>, 1, 1) = Append(last.payload, u)
      BY <1>1, <3>1, OneUnit
    <3>3. QED BY <2>2, <2>5, <3>2 DEF AddNewData, PESPacket_t
  <2>7. pes \in PESPacket_t
    BY <1>1, <2>1, <2>2, ContinuedPESPacketProperties
  <2> HIDE DEF pes
  <2>8. Continues(n)
    BY <1>1, <1>2, <1>5, <1>6, <1>11, <2>1, <2>3, <2>6, <2>7 DEF Continues, ts, u, last
  <2>9. QED BY <1>1, <1>2, <1>3, <2>8 DEF ts
<1>12. CASE state = CCError /\ DropIncomplete
  <2>1. PESdata # <<>> => Last(PESdata).Started
    BY <1>4, LadenQueue
  <2>2. status' = status /\ PESdata' = IF Assembling(PESdata) THEN Front(PESdata) ELSE PESdata
    BY <1>12, <2>1 DEF DropIncomplete, Assembling
  <2>3. Drops(n)
    BY <1>2, <1>5, <1>12, <2>2 DEF Drops, ts
  <2>4. QED BY <1>1, <1>2, <1>3, <2>3 DEF ts
<1>13. QED BY <1>2, <1>8, <1>9, <1>10, <1>11, <1>12

-----------------------------------------------------------------------------
(* Sequences of payloads, and what changing their end does to flaws.       *)

Payloads == Seq(Seq(Bytes))

LEMMA PassingOfProperties ==
  ASSUME NEW d \in Payloads, NEW q \in Seq(PESPacket_t)
  PROVE  /\ PassingOf(d, q) \in Payloads
         /\ Len(d) \in Nat /\ Len(q) \in Nat
         /\ Len(PassingOf(d, q)) = Len(d) + Len(q)
         /\ \A i \in 1 .. Len(d) : PassingOf(d, q)[i] = d[i]
         /\ \A i \in 1 .. Len(q) : PassingOf(d, q)[Len(d) + i] = q[i].payload
<1> DEFINE n == Len(d) + Len(q)
           p == [i \in 1 .. n |-> IF i <= Len(d) THEN d[i] ELSE q[i - Len(d)].payload]
<1>1. Len(d) \in Nat /\ Len(q) \in Nat /\ n \in Nat
  BY LenProperties DEF Payloads
<1>2. \A i \in 1 .. Len(d) : d[i] \in Seq(Bytes)
  BY ElementOfSeq DEF Payloads
<1>3. \A i \in 1 .. Len(q) : q[i].payload \in Seq(Bytes)
  <2>1. \A i \in 1 .. Len(q) : q[i] \in PESPacket_t
    BY ElementOfSeq
  <2>2. QED BY <2>1 DEF PESPacket_t
<1>4. \A i \in 1 .. n : p[i] \in Seq(Bytes)
  <2>1. SUFFICES ASSUME NEW i \in 1 .. n PROVE p[i] \in Seq(Bytes)
    OBVIOUS
  <2>2. CASE i <= Len(d)
    BY <1>1, <1>2, <2>2
  <2>3. CASE ~(i <= Len(d))
    <3>1. i - Len(d) \in 1 .. Len(q)
      BY <1>1, <2>3
    <3>2. QED BY <1>3, <2>3, <3>1
  <2>4. QED BY <2>2, <2>3
<1>5. /\ \A i \in 1 .. Len(d) : p[i] = d[i]
      /\ \A i \in 1 .. Len(q) : p[Len(d) + i] = q[i].payload
  <2>1. \A i \in 1 .. Len(d) : i \in 1 .. n /\ i <= Len(d)
    BY <1>1
  <2>2. \A i \in 1 .. Len(q) : /\ Len(d) + i \in 1 .. n /\ ~(Len(d) + i <= Len(d))
                               /\ (Len(d) + i) - Len(d) = i
    BY <1>1
  <2>3. QED BY <2>1, <2>2
<1>6. DOMAIN p = 1 .. n
  OBVIOUS
<1>7. p = PassingOf(d, q)
  BY DEF PassingOf
<1> HIDE DEF p, n
<1>8. p \in [1 .. n -> Seq(Bytes)]
  <2>1. p = [i \in 1 .. n |-> p[i]]
    BY DEF p
  <2>2. QED BY <1>4, <2>1
<1>9. p \in Payloads /\ Len(p) = n
  BY <1>1, <1>8 DEF Payloads
<1>10. QED BY <1>1, <1>5, <1>7, <1>9 DEF n

(* w is v with payload p added at the end, *)
Grown(w, v, p) ==
  /\ Len(w) = Len(v) + 1
  /\ \A i \in 1 .. Len(v) : w[i] = v[i]
  /\ w[Len(v) + 1] = p

(* with its last payload replaced by p, *)
Changed(w, v, p) ==
  /\ v # <<>> /\ Len(w) = Len(v)
  /\ \A i \in 1 .. Len(v) - 1 : w[i] = v[i]
  /\ w[Len(v)] = p

(* or with its p-th payload taken out. *)
Without(w, v, p) ==
  /\ p \in 1 .. Len(v) /\ Len(w) = Len(v) - 1
  /\ \A i \in 1 .. Len(w) : w[i] = v[IF i < p THEN i ELSE i + 1]

Numbered(v) == \A i \in 1 .. Len(v) : Origin(v[i]) \in Nat

LEMMA GrownKeeps ==
  ASSUME NEW v \in Payloads, NEW w \in Payloads, NEW p, Grown(w, v, p),
         Numbered(v), Origin(p) \in Nat, InOrder(v),
         \A i \in 1 .. Len(v) : Origin(v[i]) <= Origin(p)
  PROVE  /\ InOrder(w)
         /\ NoFlaw(v) => OneFlaw(w)
         /\ Straight(p) /\ (\A i \in 1 .. Len(v) : Origin(v[i]) < Origin(p)) =>
              /\ OneFlaw(v) => OneFlaw(w)
              /\ NoFlaw(v) => NoFlaw(w)
<1>1. Len(v) \in Nat /\ Len(w) = Len(v) + 1
  BY LenProperties DEF Grown, Payloads
<1>2. \A i \in 1 .. Len(w) : (i \in 1 .. Len(v) /\ w[i] = v[i]) \/ (i = Len(v) + 1 /\ w[i] = p)
  BY <1>1 DEF Grown
<1>3. InOrder(w)
  <2>1. SUFFICES ASSUME NEW i \in 1 .. Len(w), NEW j \in 1 .. Len(w), i < j
                 PROVE  Origin(w[i]) <= Origin(w[j])
    BY DEF InOrder
  <2>2. i \in 1 .. Len(v) /\ w[i] = v[i]
    BY <1>1, <1>2, <2>1
  <2>3. CASE j \in 1 .. Len(v) /\ w[j] = v[j]
    BY <2>1, <2>2, <2>3 DEF InOrder
  <2>4. CASE j = Len(v) + 1 /\ w[j] = p
    BY <2>2, <2>4
  <2>5. QED BY <1>2, <2>3, <2>4
<1>4. \A i \in 1 .. Len(v) : Flawed(w, i) => Flawed(v, i)
  <2>1. SUFFICES ASSUME NEW i \in 1 .. Len(v), Flawed(w, i) PROVE Flawed(v, i)
    OBVIOUS
  <2>2. w[i] = v[i] /\ \A j \in 1 .. i - 1 : w[j] = v[j]
    <3>1. \A j \in 1 .. i - 1 : j \in 1 .. Len(v)
      BY <1>1
    <3>2. QED BY <3>1 DEF Grown
  <2>3. QED BY <2>1, <2>2 DEF Flawed
<1>5. NoFlaw(v) => OneFlaw(w)
  <2>1. ASSUME NoFlaw(v), NEW i \in 1 .. Len(w), Flawed(w, i) PROVE i = Len(v) + 1
    BY <1>2, <1>4, <2>1 DEF NoFlaw
  <2>2. QED BY <2>1 DEF OneFlaw
<1>6. ASSUME Straight(p), \A i \in 1 .. Len(v) : Origin(v[i]) < Origin(p)
      PROVE  ~Flawed(w, Len(v) + 1)
  <2>1. w[Len(v) + 1] = p
    BY DEF Grown
  <2>2. \A j \in 1 .. Len(v) + 1 - 1 : j \in 1 .. Len(v) /\ w[j] = v[j]
    BY <1>1 DEF Grown
  <2>3. \A j \in 1 .. Len(v) : Origin(v[j]) # Origin(p)
    BY <1>6 DEF Numbered
  <2>4. QED BY <1>6, <2>1, <2>2, <2>3 DEF Flawed
<1>7. ASSUME Straight(p), \A i \in 1 .. Len(v) : Origin(v[i]) < Origin(p)
      PROVE  /\ OneFlaw(v) => OneFlaw(w)
             /\ NoFlaw(v) => NoFlaw(w)
  <2>1. \A i \in 1 .. Len(w) : Flawed(w, i) => i \in 1 .. Len(v) /\ Flawed(v, i)
    BY <1>2, <1>4, <1>6, <1>7
  <2>2. QED BY <2>1 DEF OneFlaw, NoFlaw
<1>8. QED BY <1>3, <1>5, <1>7

LEMMA ChangedKeeps ==
  ASSUME NEW v \in Payloads, NEW w \in Payloads, NEW p, Changed(w, v, p),
         Origin(p) = Origin(v[Len(v)])
  PROVE  /\ InOrder(v) => InOrder(w)
         /\ NoFlaw(v) => OneFlaw(w)
         /\ (Straight(v[Len(v)]) => Straight(p)) =>
              /\ OneFlaw(v) => OneFlaw(w)
              /\ NoFlaw(v) => NoFlaw(w)
<1>1. Len(v) \in Nat \ {0} /\ Len(w) = Len(v)
  BY EmptySeq DEF Changed, Payloads
<1>2. \A i \in 1 .. Len(v) : Origin(w[i]) = Origin(v[i])
  <2>1. \A i \in 1 .. Len(v) : i \in 1 .. Len(v) - 1 \/ i = Len(v)
    BY <1>1
  <2>2. QED BY <2>1 DEF Changed
<1>3. InOrder(v) => InOrder(w)
  BY <1>1, <1>2 DEF InOrder
<1>4. ASSUME NEW i \in 1 .. Len(v), Straight(v[i]) => Straight(w[i])
      PROVE  Flawed(w, i) => Flawed(v, i)
  <2>1. \A j \in 1 .. i - 1 : j \in 1 .. Len(v)
    BY <1>1
  <2>2. QED BY <1>2, <1>4, <2>1 DEF Flawed
<1>5. \A i \in 1 .. Len(v) - 1 : Flawed(w, i) => Flawed(v, i)
  <2>1. \A i \in 1 .. Len(v) - 1 : i \in 1 .. Len(v) /\ w[i] = v[i]
    BY <1>1 DEF Changed
  <2>2. QED BY <1>4, <2>1
<1>6. NoFlaw(v) => OneFlaw(w)
  <2>1. ASSUME NoFlaw(v), NEW i \in 1 .. Len(w), Flawed(w, i) PROVE i = Len(v)
    <3>1. i \in 1 .. Len(v) /\ (i \in 1 .. Len(v) - 1 \/ i = Len(v))
      BY <1>1
    <3>2. QED BY <1>5, <2>1, <3>1 DEF NoFlaw
  <2>2. QED BY <2>1 DEF OneFlaw
<1>7. ASSUME Straight(v[Len(v)]) => Straight(p)
      PROVE  /\ OneFlaw(v) => OneFlaw(w)
             /\ NoFlaw(v) => NoFlaw(w)
  <2>1. Flawed(w, Len(v)) => Flawed(v, Len(v))
    <3>1. w[Len(v)] = p /\ Len(v) \in 1 .. Len(v)
      BY <1>1 DEF Changed
    <3>2. QED BY <1>4, <1>7, <3>1
  <2>2. \A i \in 1 .. Len(w) : i \in 1 .. Len(v) /\ (Flawed(w, i) => Flawed(v, i))
    <3>1. \A i \in 1 .. Len(w) : i \in 1 .. Len(v) /\ (i \in 1 .. Len(v) - 1 \/ i = Len(v))
      BY <1>1
    <3>2. QED BY <1>5, <2>1, <3>1
  <2>3. QED BY <2>2 DEF OneFlaw, NoFlaw
<1>8. QED BY <1>3, <1>6, <1>7

LEMMA WithoutKeeps ==
  ASSUME NEW v \in Payloads, NEW w \in Payloads, NEW p, Without(w, v, p)
  PROVE  /\ InOrder(v) => InOrder(w)
         /\ OneFlaw(v) => OneFlaw(w)
         /\ NoFlaw(v) => NoFlaw(w)
<1> DEFINE at(i) == IF i < p THEN i ELSE i + 1
<1>1. Len(v) \in Nat /\ p \in 1 .. Len(v) /\ Len(w) = Len(v) - 1
  BY LenProperties DEF Without, Payloads
<1>2. \A i \in 1 .. Len(w) : at(i) \in 1 .. Len(v) /\ w[i] = v[at(i)]
  BY <1>1 DEF Without
<1>3. \A i, j \in 1 .. Len(w) : (i < j => at(i) < at(j)) /\ (at(i) = at(j) => i = j)
  BY <1>1
<1>4. \A i \in 1 .. Len(w) : \A j \in 1 .. i - 1 : j \in 1 .. Len(w) /\ at(j) \in 1 .. at(i) - 1
  BY <1>1
<1> HIDE DEF at
<1>5. InOrder(v) => InOrder(w)
  BY <1>2, <1>3 DEF InOrder
<1>6. \A i \in 1 .. Len(w) : Flawed(w, i) => Flawed(v, at(i))
  <2>1. SUFFICES ASSUME NEW i \in 1 .. Len(w), Flawed(w, i) PROVE Flawed(v, at(i))
    OBVIOUS
  <2>2. w[i] = v[at(i)] /\ \A j \in 1 .. i - 1 : at(j) \in 1 .. at(i) - 1 /\ w[j] = v[at(j)]
    BY <1>2, <1>4
  <2>3. QED BY <2>1, <2>2 DEF Flawed
<1>7. OneFlaw(v) => OneFlaw(w)
  BY <1>2, <1>3, <1>6 DEF OneFlaw
<1>8. NoFlaw(v) => NoFlaw(w)
  BY <1>2, <1>6 DEF NoFlaw
<1>9. QED BY <1>5, <1>7, <1>8

(* The four changes of the queue, seen in the sequence of payloads. *)
LEMMA PassingAppended ==
  ASSUME NEW d \in Payloads, NEW q \in Seq(PESPacket_t), NEW pes \in PESPacket_t
  PROVE  Grown(PassingOf(d, Append(q, pes)), PassingOf(d, q), pes.payload)
<1> DEFINE r == Append(q, pes)
           v == PassingOf(d, q)
           w == PassingOf(d, r)
<1>1. /\ r \in Seq(PESPacket_t) /\ Len(r) = Len(q) + 1
      /\ \A i \in 1 .. Len(q) : r[i] = q[i]
      /\ r[Len(q) + 1] = pes
  BY AppendProperties
<1> HIDE DEF r
<1>2. /\ Len(d) \in Nat /\ Len(q) \in Nat /\ Len(v) = Len(d) + Len(q)
      /\ \A i \in 1 .. Len(d) : v[i] = d[i]
      /\ \A i \in 1 .. Len(q) : v[Len(d) + i] = q[i].payload
  BY PassingOfProperties
<1>3. /\ Len(w) = Len(d) + Len(r)
      /\ \A i \in 1 .. Len(d) : w[i] = d[i]
      /\ \A i \in 1 .. Len(r) : w[Len(d) + i] = r[i].payload
  BY <1>1, PassingOfProperties
<1> HIDE DEF v, w
<1>4. \A i \in 1 .. Len(v) : w[i] = v[i]
  <2>1. SUFFICES ASSUME NEW i \in 1 .. Len(v), i \notin 1 .. Len(d) PROVE w[i] = v[i]
    BY <1>2, <1>3
  <2>2. PICK j \in 1 .. Len(q) : i = Len(d) + j
    <3>1. i - Len(d) \in 1 .. Len(q) /\ i = Len(d) + (i - Len(d))
      BY <1>2, <2>1
    <3>2. QED BY <3>1
  <2>3. j \in 1 .. Len(r)
    BY <1>1, <1>2
  <2>4. QED BY <1>1, <1>2, <1>3, <2>2, <2>3
<1>5. Len(r) \in 1 .. Len(r) /\ Len(v) + 1 = Len(d) + Len(r) /\ r[Len(r)] = pes
  BY <1>1, <1>2
<1>6. QED BY <1>1, <1>2, <1>3, <1>4, <1>5 DEF Grown, v, w, r

LEMMA PassingReplaced ==
  ASSUME NEW d \in Payloads, NEW q \in Seq(PESPacket_t), q # <<>>, NEW pes \in PESPacket_t
  PROVE  /\ Changed(PassingOf(d, [q EXCEPT ![Len(q)] = pes]), PassingOf(d, q), pes.payload)
         /\ PassingOf(d, q)[Len(PassingOf(d, q))] = Last(q).payload
<1> DEFINE r == [q EXCEPT ![Len(q)] = pes]
           v == PassingOf(d, q)
           w == PassingOf(d, r)
<1>0. Len(q) \in Nat \ {0} /\ Len(q) \in 1 .. Len(q)
  BY EmptySeq
<1>1. /\ r \in Seq(PESPacket_t) /\ Len(r) = Len(q)
      /\ \A i \in 1 .. Len(q) : r[i] = IF i = Len(q) THEN pes ELSE q[i]
  BY <1>0, ExceptSeq
<1> HIDE DEF r
<1>2. /\ Len(d) \in Nat /\ Len(v) = Len(d) + Len(q) /\ v \in Payloads
      /\ \A i \in 1 .. Len(d) : v[i] = d[i]
      /\ \A i \in 1 .. Len(q) : v[Len(d) + i] = q[i].payload
  BY PassingOfProperties
<1>3. /\ Len(w) = Len(d) + Len(r)
      /\ \A i \in 1 .. Len(d) : w[i] = d[i]
      /\ \A i \in 1 .. Len(r) : w[Len(d) + i] = r[i].payload
  BY <1>1, PassingOfProperties
<1> HIDE DEF v, w
<1>4. \A i \in 1 .. Len(v) - 1 : w[i] = v[i]
  <2>1. SUFFICES ASSUME NEW i \in 1 .. Len(v) - 1, i \notin 1 .. Len(d) PROVE w[i] = v[i]
    BY <1>2, <1>3
  <2>2. PICK j \in 1 .. Len(q) - 1 : i = Len(d) + j
    <3>1. i - Len(d) \in 1 .. Len(q) - 1 /\ i = Len(d) + (i - Len(d))
      BY <1>0, <1>2, <2>1
    <3>2. QED BY <3>1
  <2>3. j \in 1 .. Len(q) /\ j # Len(q)
    BY <1>0
  <2>4. QED BY <1>1, <1>2, <1>3, <2>2, <2>3
<1>5. w[Len(v)] = pes.payload /\ v[Len(v)] = q[Len(q)].payload /\ v # <<>>
  <2>1. v # <<>>
    <3>1. Len(v) # 0
      BY <1>0, <1>2
    <3>2. QED BY <3>1, EmptySeq
  <2>2. QED BY <1>0, <1>1, <1>2, <1>3, <2>1
<1>6. QED BY <1>1, <1>2, <1>3, <1>4, <1>5 DEF Changed, Last, v, w, r

LEMMA PassingDropped ==
  ASSUME NEW d \in Payloads, NEW q, Queue(q), q # <<>>
  PROVE  Without(PassingOf(d, Front(q)), PassingOf(d, q), Len(d) + Len(q))
<1> DEFINE r == Front(q)
           v == PassingOf(d, q)
           w == PassingOf(d, r)
<1>1. /\ q \in Seq(PESPacket_t) /\ Len(q) \in Nat \ {0}
      /\ r \in Seq(PESPacket_t) /\ Len(r) = Len(q) - 1
      /\ \A i \in 1 .. Len(q) - 1 : r[i] = q[i]
  BY LastOfQueue, FrontOfQueue DEF Queue
<1> HIDE DEF r
<1>2. /\ Len(d) \in Nat /\ Len(v) = Len(d) + Len(q)
      /\ \A i \in 1 .. Len(d) : v[i] = d[i]
      /\ \A i \in 1 .. Len(q) : v[Len(d) + i] = q[i].payload
  BY <1>1, PassingOfProperties
<1>3. /\ Len(w) = Len(d) + Len(r)
      /\ \A i \in 1 .. Len(d) : w[i] = d[i]
      /\ \A i \in 1 .. Len(r) : w[Len(d) + i] = r[i].payload
  BY <1>1, PassingOfProperties
<1> HIDE DEF v, w
<1>4. \A i \in 1 .. Len(w) : w[i] = v[i] /\ i < Len(d) + Len(q)
  <2>1. SUFFICES ASSUME NEW i \in 1 .. Len(w), i \notin 1 .. Len(d) PROVE w[i] = v[i]
    BY <1>1, <1>2, <1>3
  <2>2. PICK j \in 1 .. Len(r) : i = Len(d) + j
    <3>1. i - Len(d) \in 1 .. Len(r) /\ i = Len(d) + (i - Len(d))
      BY <1>1, <1>2, <1>3, <2>1
    <3>2. QED BY <3>1
  <2>3. j \in 1 .. Len(q) /\ j \in 1 .. Len(q) - 1
    BY <1>1
  <2>4. QED BY <1>1, <1>2, <1>3, <2>2, <2>3
<1>5. Len(d) + Len(q) \in 1 .. Len(v) /\ Len(w) = Len(v) - 1
  BY <1>1, <1>2, <1>3
<1>6. QED BY <1>4, <1>5 DEF Without, v, w, r

LEMMA PassingTaken ==
  ASSUME NEW d \in Payloads, NEW q \in Seq(PESPacket_t), q # <<>>
  PROVE  /\ Without(PassingOf(d, Tail(q)), PassingOf(d, q), Len(d) + 1)
         /\ PassingOf(d, q)[Len(d) + 1] = Head(q).payload
         /\ PassingOf(Append(d, Head(q).payload), Tail(q)) = PassingOf(d, q)
<1> DEFINE r == Tail(q)
           p == Head(q).payload
           e == Append(d, p)
           v == PassingOf(d, q)
           w == PassingOf(d, r)
           x == PassingOf(e, r)
<1>1. /\ r \in Seq(PESPacket_t) /\ Len(r) = Len(q) - 1 /\ Len(q) \in Nat \ {0}
      /\ \A i \in 1 .. Len(r) : r[i] = q[i + 1]
      /\ Head(q) = q[1] /\ Head(q) \in PESPacket_t
  BY HeadTailProperties, EmptySeq
<1>2. p \in Seq(Bytes) /\ p = q[1].payload
  BY <1>1 DEF PESPacket_t
<1> HIDE DEF r, p
<1>3. /\ e \in Payloads /\ Len(e) = Len(d) + 1
      /\ \A i \in 1 .. Len(d) : e[i] = d[i]
      /\ e[Len(d) + 1] = p
  BY <1>2, AppendProperties DEF Payloads
<1> HIDE DEF e
<1>4. /\ Len(d) \in Nat /\ Len(v) = Len(d) + Len(q) /\ v \in Payloads
      /\ \A i \in 1 .. Len(d) : v[i] = d[i]
      /\ \A i \in 1 .. Len(q) : v[Len(d) + i] = q[i].payload
  BY PassingOfProperties
<1>5. /\ Len(w) = Len(d) + Len(r)
      /\ \A i \in 1 .. Len(d) : w[i] = d[i]
      /\ \A i \in 1 .. Len(r) : w[Len(d) + i] = r[i].payload
  BY <1>1, PassingOfProperties
<1>6. /\ Len(x) = Len(e) + Len(r) /\ x \in Payloads
      /\ \A i \in 1 .. Len(e) : x[i] = e[i]
      /\ \A i \in 1 .. Len(r) : x[Len(e) + i] = r[i].payload
  BY <1>1, <1>3, PassingOfProperties
<1> HIDE DEF v, w, x
<1>7. /\ v[Len(d) + 1] = p
      /\ \A j \in 1 .. Len(r) : v[Len(d) + 1 + j] = r[j].payload
  <2>1. 1 \in 1 .. Len(q)
    BY <1>1
  <2>2. \A j \in 1 .. Len(r) : j + 1 \in 1 .. Len(q) /\ Len(d) + (j + 1) = Len(d) + 1 + j
    BY <1>1, <1>4
  <2>3. QED BY <1>1, <1>2, <1>4, <2>1, <2>2
<1>8. \A i \in 1 .. Len(w) : w[i] = v[IF i < Len(d) + 1 THEN i ELSE i + 1]
  <2>1. SUFFICES ASSUME NEW i \in 1 .. Len(w)
                 PROVE  w[i] = v[IF i < Len(d) + 1 THEN i ELSE i + 1]
    OBVIOUS
  <2>2. CASE i < Len(d) + 1
    <3>1. i \in 1 .. Len(d)
      BY <1>4, <2>2
    <3>2. QED BY <1>4, <1>5, <2>2, <3>1
  <2>3. CASE ~(i < Len(d) + 1)
    <3>1. PICK j \in 1 .. Len(r) : i = Len(d) + j
      <4>1. i - Len(d) \in 1 .. Len(r) /\ i = Len(d) + (i - Len(d))
        BY <1>1, <1>4, <1>5, <2>3
      <4>2. QED BY <4>1
    <3>2. i + 1 = Len(d) + 1 + j
      BY <1>1, <1>4, <3>1
    <3>3. QED BY <1>5, <1>7, <2>3, <3>1, <3>2
  <2>4. QED BY <2>2, <2>3
<1>9. Len(d) + 1 \in 1 .. Len(v) /\ Len(w) = Len(v) - 1 /\ Len(x) = Len(v)
  BY <1>1, <1>3, <1>4, <1>5, <1>6
<1>10. \A i \in 1 .. Len(x) : x[i] = v[i]
  <2>1. SUFFICES ASSUME NEW i \in 1 .. Len(x) PROVE x[i] = v[i]
    OBVIOUS
  <2>2. CASE i <= Len(d)
    <3>1. i \in 1 .. Len(d) /\ i \in 1 .. Len(e)
      BY <1>3, <1>4, <2>2
    <3>2. QED BY <1>3, <1>4, <1>6, <3>1
  <2>3. CASE i = Len(d) + 1
    <3>1. i \in 1 .. Len(e)
      BY <1>3, <1>4, <2>3
    <3>2. QED BY <1>3, <1>6, <1>7, <2>3, <3>1
  <2>4. CASE i > Len(d) + 1
    <3>1. PICK j \in 1 .. Len(r) : i = Len(e) + j
      <4>1. i - Len(e) \in 1 .. Len(r) /\ i = Len(e) + (i - Len(e))
        BY <1>1, <1>3, <1>4, <1>6, <2>4
      <4>2. QED BY <4>1
    <3>2. i = Len(d) + 1 + j
      BY <1>3, <3>1
    <3>3. QED BY <1>6, <1>7, <3>1, <3>2
  <2>5. i \in Nat /\ Len(d) \in Nat
    BY <1>4, <1>9
  <2>6. i <= Len(d) \/ i = Len(d) + 1 \/ i > Len(d) + 1
    BY <2>5
  <2>7. QED BY <2>2, <2>3, <2>4, <2>6
<1>11. x = v
  <2>1. x \in Seq(Seq(Bytes)) /\ v \in Seq(Seq(Bytes))
    BY <1>4, <1>6 DEF Payloads
  <2>2. QED BY <1>9, <1>10, <2>1, SeqEqual
<1>12. QED BY <1>7, <1>8, <1>9, <1>11 DEF Without, v, w, x, e, r, p

-----------------------------------------------------------------------------
(* Arrivals.                                                               *)

(* What Deliver and Repeat have in common. *)
Arrives(n) ==
  /\ n \in 1 .. Len(Units) /\ NextPacket(Packet(n))
  /\ sent' = n /\ arrived' = Append(arrived, Units[n])
  /\ UNCHANGED <<ccBase, lost, outputVars>>

(* The handler sees a mismatch exactly when the n-th transport packet does *)
(* not arrive right after the one before it.                               *)
Follows(n) ==
  arrived # <<>> =>
    \E m \in 1 .. n : /\ Last(arrived) = Units[m]
                      /\ CCMismatch(Packet(n)) <=> n # m + 1

LEMMA QueueIsLaden ==
  ASSUME ReceptionInv
  PROVE  Laden(PESdata)
<1>1. decoded \in Payloads /\ PESdata \in Seq(PESPacket_t) /\ Begun(Passing, Last(arrived)[1])
  BY DEF ReceptionInv, ChannelTypeOK, Payloads, IInv, TypeOK, PassingInOrder
<1>2. /\ Len(decoded) \in Nat /\ Len(PESdata) \in Nat
      /\ Len(Passing) = Len(decoded) + Len(PESdata)
      /\ \A i \in 1 .. Len(PESdata) : Passing[Len(decoded) + i] = PESdata[i].payload
  BY <1>1, PassingOfProperties DEF Passing
<1>3. \A i \in 1 .. Len(PESdata) : Len(decoded) + i \in 1 .. Len(Passing)
  BY <1>2
<1>4. QED BY <1>1, <1>2, <1>3 DEF Begun, Laden

LEMMA DeliverArrives ==
  ASSUME ReceptionInv, Deliver
  PROVE  Arrives(sent + 1) /\ Follows(sent + 1)
<1>1. /\ ChannelTypeOK /\ InTouch /\ sent < Len(Units)
      /\ sent \in Nat /\ Len(Units) \in Nat
  BY PESFacts DEF ReceptionInv, ChannelTypeOK, Deliver
<1>2. Arrives(sent + 1)
  BY <1>1 DEF Deliver, Arrives
<1>3. ASSUME arrived # <<>>
      PROVE  \E m \in 1 .. sent + 1 : /\ Last(arrived) = Units[m]
                                      /\ CCMismatch(Packet(sent + 1)) <=> sent + 1 # m + 1
  <2>1. PICK m \in 1 .. sent : LastArrival(m)
    BY <1>1, <1>3 DEF InTouch
  <2>2. CCMismatch(Packet(sent + 1)) <=> m # sent
    BY <1>1, <2>1, CounterOfNext
  <2>3. m \in 1 .. sent + 1 /\ (m # sent <=> sent + 1 # m + 1)
    BY <1>1
  <2>4. QED BY <2>1, <2>2, <2>3 DEF LastArrival
<1>4. QED BY <1>2, <1>3 DEF Follows

LEMMA RepeatArrives ==
  ASSUME ReceptionInv, Repeat
  PROVE  Arrives(sent) /\ Follows(sent)
<1>1. /\ ChannelTypeOK /\ arrived # <<>> /\ Last(arrived) = Units[sent]
      /\ Len(Units) \in Nat /\ sent \in 0 .. Len(Units)
  BY PESFacts DEF ReceptionInv, ChannelTypeOK, Repeat
<1>2. PICK m \in 1 .. sent : LastArrival(m)
  BY <1>1 DEF ReceptionInv, InTouch
<1>3. sent \in 1 .. Len(Units) /\ sent \in 1 .. sent /\ sent # sent + 1
  BY <1>1
<1>4. CCMismatch(Packet(sent))
  BY <1>1, <1>2, CounterOfRepeat
<1>5. Arrives(sent)
  BY <1>3 DEF Repeat, Arrives
<1>6. QED BY <1>1, <1>3, <1>4, <1>5 DEF Follows

LEMMA ArrivalFacts ==
  ASSUME ReceptionInv, NEW n, Arrives(n), Follows(n)
  PROVE  /\ n \in 1 .. Len(Units) /\ n \in Nat
         /\ Len(arrived) \in Nat /\ Len(arrived') = Len(arrived) + 1
         /\ \A i \in 1 .. Len(arrived) : arrived'[i] = arrived[i]
         /\ arrived'[Len(arrived) + 1] = Units[n] /\ Last(arrived') = Units[n]
         /\ arrived' # <<>> /\ arrived' \in Seq(Nat \X Nat)
         /\ arrived # <<>> => Last(arrived)[1] \in Nat /\ Last(arrived)[1] <= Units[n][1]
<1>1. n \in 1 .. Len(Units) /\ n \in Nat
  BY DEF Arrives
<1>2. arrived \in Seq(Nat \X Nat) /\ Units[n] \in Nat \X Nat
  BY <1>1, UnitFacts DEF ReceptionInv, ChannelTypeOK
<1>3. arrived' = Append(arrived, Units[n])
  BY DEF Arrives
<1>4. /\ arrived' \in Seq(Nat \X Nat) /\ arrived' # <<>>
      /\ Len(arrived) \in Nat /\ Len(arrived') = Len(arrived) + 1
      /\ \A i \in 1 .. Len(arrived) : arrived'[i] = arrived[i]
      /\ arrived'[Len(arrived) + 1] = Units[n]
  BY <1>2, <1>3, AppendProperties, LenProperties
<1>5. Last(arrived') = Units[n]
  BY <1>4 DEF Last
<1>6. ASSUME arrived # <<>>
      PROVE  Last(arrived)[1] \in Nat /\ Last(arrived)[1] <= Units[n][1]
  <2>1. PICK m \in 1 .. n : Last(arrived) = Units[m]
    BY <1>6 DEF Follows
  <2>2. m \in 1 .. Len(Units)
    BY <1>1, <2>1, PESFacts
  <2>3. /\ Units[m][1] \in Nat /\ Units[n][1] \in Nat
        /\ m < n => Before(Units[m], Units[n])
    BY <1>1, <2>2, UnitFacts, UnitsAreOrdered
  <2>4. m = n \/ m < n
    BY <1>1, <2>1
  <2>5. QED BY <2>1, <2>3, <2>4 DEF Before
<1>7. QED BY <1>1, <1>4, <1>5, <1>6

LEMMA ArrivalIsTyped ==
  ASSUME ReceptionInv, NEW n, Arrives(n), Follows(n)
  PROVE  IInv' /\ ChannelTypeOK' /\ InTouch'
<1>1. /\ IInv /\ ChannelTypeOK
      /\ n \in 1 .. Len(Units) /\ n \in Nat /\ arrived' # <<>>
      /\ Last(arrived') = Units[n] /\ arrived' \in Seq(Nat \X Nat)
  BY ArrivalFacts DEF ReceptionInv
<1>2. /\ IInv' /\ stream_id' = stream_id
      /\ ContinuityCount' = (ccBase + n - 1) % CCModulus
  BY <1>1, QueueIsLaden, HandlerStep DEF Arrives
<1>3. sent' = n /\ UNCHANGED <<ccBase, lost, clock, decoded>>
  BY DEF Arrives, outputVars
<1>4. ChannelTypeOK'
  <2>1. sent' \in 0 .. Len(Units)
    BY <1>1, <1>3
  <2>2. QED BY <1>1, <1>2, <1>3, <2>1 DEF ChannelTypeOK
<1>5. LastArrival(n)'
  <2>1. sent' - n <= lost'
    <3>1. lost \in Nat
      BY <1>1, ChannelAssumption DEF ChannelTypeOK
    <3>2. QED BY <1>1, <1>3, <3>1
  <2>2. QED BY <1>1, <1>2, <1>3, <2>1 DEF LastArrival
<1>6. n \in 1 .. sent'
  BY <1>1, <1>3
<1>7. QED BY <1>1, <1>2, <1>4, <1>5, <1>6 DEF InTouch

LEMMA BegunKeeps ==
  ASSUME NEW v \in Payloads, NEW w \in Payloads, NEW p, NEW k, Begun(v, k)
  PROVE  /\ Grown(w, v, p) /\ p # <<>> /\ Origin(p) \in PES /\ Origin(p) <= k => Begun(w, k)
         /\ Changed(w, v, p) /\ p # <<>> /\ Origin(p) = Origin(v[Len(v)]) => Begun(w, k)
         /\ \A i \in Nat : Without(w, v, i) => Begun(w, k)
<1>1. Len(v) \in Nat /\ Len(w) \in Nat /\ (v # <<>> => Len(v) \in 1 .. Len(v))
  BY LenProperties, EmptySeq DEF Payloads
<1>2. Grown(w, v, p) /\ p # <<>> /\ Origin(p) \in PES /\ Origin(p) <= k => Begun(w, k)
  <2>1. Grown(w, v, p) =>
          \A i \in 1 .. Len(w) : (i \in 1 .. Len(v) /\ w[i] = v[i]) \/ w[i] = p
    BY <1>1 DEF Grown
  <2>2. QED BY <2>1 DEF Begun
<1>3. Changed(w, v, p) /\ p # <<>> /\ Origin(p) = Origin(v[Len(v)]) => Begun(w, k)
  <2>1. Changed(w, v, p) =>
          /\ v # <<>>
          /\ \A i \in 1 .. Len(w) : i \in 1 .. Len(v) /\ (w[i] = v[i] \/ (i = Len(v) /\ w[i] = p))
    <3>1. \A i \in 1 .. Len(v) : i \in 1 .. Len(v) - 1 \/ i = Len(v)
      BY <1>1
    <3>2. QED BY <3>1 DEF Changed
  <2>2. QED BY <1>1, <2>1 DEF Begun
<1>4. \A i \in Nat : Without(w, v, i) => Begun(w, k)
  <2>1. SUFFICES ASSUME NEW n \in Nat, Without(w, v, n), NEW i \in 1 .. Len(w)
                 PROVE  \E j \in 1 .. Len(v) : w[i] = v[j]
    BY DEF Begun
  <2>2. (IF i < n THEN i ELSE i + 1) \in 1 .. Len(v)
    BY <1>1, <2>1 DEF Without
  <2>3. QED BY <2>1, <2>2 DEF Without
<1>5. QED BY <1>2, <1>3, <1>4

(* Between steps. *)
LEMMA PassingFacts ==
  ASSUME ReceptionInv
  PROVE  /\ decoded \in Payloads /\ Queue(PESdata) /\ PESdata \in Seq(PESPacket_t)
         /\ Passing \in Payloads /\ Numbered(Passing) /\ Len(Passing) \in Nat
         /\ Len(Passing) = Len(decoded) + Len(PESdata)
         /\ arrived = <<>> => Len(Passing) = 0 /\ PESdata = <<>> /\ ~doubleCC
<1>1. decoded \in Payloads /\ Queue(PESdata) /\ PESdata \in Seq(PESPacket_t)
  BY DEF ReceptionInv, ChannelTypeOK, Payloads, IInv, TypeOK, QueueDiscipline, Queue
<1>2. /\ Passing \in Payloads /\ Len(Passing) = Len(decoded) + Len(PESdata)
      /\ Len(decoded) \in Nat /\ Len(PESdata) \in Nat
  BY <1>1, PassingOfProperties DEF Passing
<1>3. Numbered(Passing)
  BY PESFacts DEF ReceptionInv, PassingInOrder, Begun, Numbered
<1>4. ASSUME arrived = <<>> PROVE Len(Passing) = 0 /\ PESdata = <<>> /\ ~doubleCC
  <2>1. PESdata = <<>> /\ decoded = <<>> /\ ~doubleCC
    BY <1>4 DEF ReceptionInv, InTouch
  <2>2. Len(PESdata) = 0 /\ Len(decoded) = 0
    BY <2>1, EmptySeq
  <2>3. QED BY <1>2, <2>1, <2>2
<1>5. QED BY <1>1, <1>2, <1>3, <1>4

(* Everything that passed is of the PES packet that arrives, or an earlier  *)
(* one; and of an earlier one when a PES packet begins without a mismatch.  *)
LEMMA PassingIsEarlier ==
  ASSUME ReceptionInv, NEW n, Arrives(n), Follows(n)
  PROVE  /\ Begun(Passing, Units[n][1])
         /\ \A i \in 1 .. Len(Passing) : Origin(Passing[i]) <= Units[n][1]
         /\ Units[n][2] = 1 /\ ~CCMismatch(Packet(n)) =>
              \A i \in 1 .. Len(Passing) : Origin(Passing[i]) < Units[n][1]
<1>1. /\ n \in 1 .. Len(Units) /\ n \in Nat
      /\ arrived # <<>> => Last(arrived)[1] \in Nat /\ Last(arrived)[1] <= Units[n][1]
      /\ Units[n][1] \in Nat /\ Units[n][2] \in Nat
  BY ArrivalFacts, UnitFacts
<1>2. \A i \in 1 .. Len(Passing) : arrived # <<>>
  BY PassingFacts
<1>3. \A i \in 1 .. Len(Passing) :
        /\ Passing[i] # <<>> /\ Origin(Passing[i]) \in PES /\ Origin(Passing[i]) \in Nat
        /\ Origin(Passing[i]) <= Last(arrived)[1]
  BY PassingFacts DEF ReceptionInv, PassingInOrder, Begun, Numbered
<1>4. \A i \in 1 .. Len(Passing) : Origin(Passing[i]) <= Units[n][1]
  BY <1>1, <1>2, <1>3
<1>5. ASSUME Units[n][2] = 1, ~CCMismatch(Packet(n)), NEW i \in 1 .. Len(Passing)
      PROVE  Origin(Passing[i]) < Units[n][1]
  <2>1. PICK m \in 1 .. n : Last(arrived) = Units[m] /\ n = m + 1
    BY <1>2, <1>5 DEF Follows
  <2>2. m \in 1 .. Len(Units) /\ m < n
    BY <1>1, <2>1, PESFacts
  <2>3. /\ Before(Units[m], Units[n])
        /\ Units[m][1] \in Nat /\ Units[m][2] \in Nat /\ 1 <= Units[m][2]
    BY <1>1, <2>2, UnitFacts, UnitsAreOrdered, PESFacts
  <2>4. Units[m][1] < Units[n][1]
    BY <1>1, <1>5, <2>3 DEF Before
  <2>5. QED BY <1>1, <1>3, <2>1, <2>3, <2>4
<1>6. QED BY <1>3, <1>4, <1>5 DEF Begun

(* A packet that is continued without a mismatch stays without a gap. *)
LEMMA ContinuedIsStraight ==
  ASSUME ReceptionInv, NEW n, Arrives(n), Follows(n), ~CCMismatch(Packet(n)),
         Assembling(PESdata), Straight(Last(PESdata).payload)
  PROVE  Straight(Append(Last(PESdata).payload, Units[n]))
<1> DEFINE last == Last(PESdata)
           p == last.payload
           k == Origin(p)
           j == Len(p)
           q == Append(p, Units[n])
<1>1. /\ PESdata # <<>> /\ ~last.Complete /\ Queue(PESdata) /\ Len(PESdata) \in Nat \ {0}
      /\ last \in PESPacket_t /\ WellFormed(last) /\ last = PESdata[Len(PESdata)]
  BY PassingFacts, LastOfQueue DEF Assembling, Last
<1>2. p \in Seq(Bytes) /\ j \in Nat \ {0} /\ j < last.pesPacketLength
  <2>1. last.payload # <<>>
    BY <1>1, QueueIsLaden, LadenQueue
  <2>2. j \in 1 .. last.pesPacketLength /\ (last.Complete <=> j = last.pesPacketLength)
    BY <1>1, <2>1, LadenIsBegun
  <2>3. QED BY <1>1, <2>2 DEF PESPacket_t
<1>3. last.pesPacketLength = Chunks[k]
  <2>1. Len(PESdata) \in 1 .. Len(PESdata)
    BY <1>1
  <2>2. QED BY <1>1, <2>1 DEF ReceptionInv, PassingInOrder, Measured
<1>4. k \in PES
  <2>1. Passing[Len(Passing)] = p
    BY <1>1, PassingFacts, PassingReplaced DEF Passing
  <2>2. Len(Passing) \in 1 .. Len(Passing)
    <3>1. Len(decoded) \in Nat /\ Len(Passing) = Len(decoded) + Len(PESdata)
      BY PassingFacts, LenProperties DEF Payloads
    <3>2. QED BY <1>1, <3>1
  <2>3. QED BY <2>1, <2>2 DEF ReceptionInv, PassingInOrder, Begun
<1>5. Last(arrived) = <<k, j>>
  <2>1. Last(arrived) = Last(p)
    BY DEF ReceptionInv, InStep
  <2>2. p[j] = <<k, j>>
    <3>1. j \in 1 .. Len(p)
      BY <1>2
    <3>2. QED BY <3>1 DEF Straight, FirstUnits
  <2>3. QED BY <2>1, <2>2 DEF Last
<1>6. PICK m \in 1 .. n : Last(arrived) = Units[m] /\ n = m + 1
  <2>1. arrived # <<>>
    BY <1>1, PassingFacts
  <2>2. QED BY <2>1 DEF Follows
<1>7. n \in 1 .. Len(Units) /\ m \in 1 .. Len(Units)
  BY <1>6, ArrivalFacts, PESFacts
<1> HIDE DEF k, j
<1>8. PICK i \in 1 .. Len(Units) : Units[i] = <<k, j + 1>>
  <2>1. k \in PES /\ j + 1 \in 1 .. Chunks[k]
    BY <1>2, <1>3, <1>4, PESFacts
  <2>2. QED BY <2>1, UnitsAssumption, PESFacts
<1>9. Units[n] = <<k, j + 1>>
  <2>1. Units[m][1] = k /\ Units[m][2] = j
    BY <1>5, <1>6
  <2>2. i = m + 1
    BY <1>7, <1>8, <2>1, NextUnit
  <2>3. QED BY <1>6, <1>8, <2>2
<1>10. Units[n] \in Bytes
  BY <1>7, PacketIsOfStream DEF ReceptionInv, ChannelTypeOK
<1>11. /\ Len(q) = j + 1 /\ \A l \in 1 .. j : q[l] = p[l]
       /\ q[j + 1] = Units[n]
  BY <1>2, <1>10, AppendProperties DEF j
<1> HIDE DEF q
<1>12. 1 \in 1 .. j /\ Origin(q) = k
  BY <1>2, <1>11 DEF Origin, k
<1>13. \A l \in 1 .. j + 1 : q[l] = <<k, l>>
  <2>1. \A l \in 1 .. j : p[l] = <<k, l>>
    BY DEF Straight, FirstUnits, k, j
  <2>2. \A l \in 1 .. j + 1 : l \in 1 .. j \/ l = j + 1
    BY <1>2
  <2>3. QED BY <1>9, <1>11, <2>1, <2>2
<1>14. QED BY <1>11, <1>12, <1>13 DEF Straight, FirstUnits, q, p, last

LEMMA ArrivalKeepsOrder ==
  ASSUME ReceptionInv, NEW n, Arrives(n), Follows(n)
  PROVE  PassingInOrder' /\ OneFault' /\ InStep'
<1> DEFINE u == Units[n]
           k == u[1]
           v == Passing
           w == Passing'
           pay == Last(PESdata).payload
<1>1. /\ n \in 1 .. Len(Units) /\ n \in Nat /\ u = <<k, u[2]>> /\ k \in PES /\ k \in Nat
      /\ Last(arrived') = u
  BY ArrivalFacts, UnitFacts
<1>2. /\ decoded \in Payloads /\ Queue(PESdata) /\ PESdata \in Seq(PESPacket_t)
      /\ v \in Payloads /\ Numbered(v) /\ Len(v) \in Nat
      /\ Len(v) = Len(decoded) + Len(PESdata) /\ Len(decoded) \in Nat
  BY PassingFacts, LenProperties DEF Payloads
<1>3. /\ Begun(v, k) /\ (\A i \in 1 .. Len(v) : Origin(v[i]) <= k)
      /\ u[2] = 1 /\ ~CCMismatch(Packet(n)) => \A i \in 1 .. Len(v) : Origin(v[i]) < k
  BY PassingIsEarlier
<1>4. /\ IInv' /\ status = "live"
      /\ doubleCC' = (doubleCC \/ CCMismatch(Packet(n)))
      /\ Starts(n) \/ Continues(n) \/ Skips(n) \/ Crashes(n) \/ Drops(n)
  BY <1>1, QueueIsLaden, HandlerStep DEF ReceptionInv, Arrives
<1>5. /\ decoded' = decoded /\ PESdata' \in Seq(PESPacket_t)
      /\ w = PassingOf(decoded, PESdata') /\ w \in Payloads
  <2>1. decoded' = decoded /\ PESdata' \in Seq(PESPacket_t)
    BY <1>4 DEF Arrives, outputVars, IInv, TypeOK
  <2>2. w = PassingOf(decoded, PESdata')
    BY <2>1 DEF Passing
  <2>3. QED BY <1>2, <2>1, <2>2, PassingOfProperties
<1>6. /\ InOrder(v) /\ Full(decoded) /\ Measured(PESdata)
      /\ OneFlaw(v) /\ (~doubleCC => NoFlaw(v)) /\ doubleCC \in BOOLEAN
  BY DEF ReceptionInv, PassingInOrder, OneFault, IInv, TypeOK
<1>7. ASSUME Begun(w, k), Measured(PESdata'), InOrder(w)
      PROVE  PassingInOrder'
  BY <1>1, <1>5, <1>6, <1>7 DEF PassingInOrder
<1>8. Units[n] \in Bytes
  BY <1>1, PacketIsOfStream DEF ReceptionInv, ChannelTypeOK
<1>9. Len(PESdata) \in Nat
  BY <1>2, LenProperties
<1> HIDE DEF u, k, v, w
<1>10. CASE Starts(n)
  <2>1. PICK pes \in PESPacket_t : /\ pes.payload = <<u>> /\ pes.pesPacketLength = Chunks[k]
                                   /\ PESdata' = Append(PESdata, pes)
    BY <1>10 DEF Starts, u, k
  <2>2. ~(CCMismatch(Packet(n)) /\ doubleCC) /\ u[2] = 1
    BY <1>10 DEF Starts, CheckCCError, u
  <2>3. /\ Straight(<<u>>) /\ Origin(<<u>>) = k /\ <<u>> # <<>>
        /\ k \in PES /\ k \in Nat
    <3>1. Len(<<u>>) = 1 /\ <<u>>[1] = u /\ Origin(<<u>>) = k
      BY DEF Origin, k
    <3>2. u = <<k, 1>>
      BY <1>1, <2>2
    <3>3. \A m \in 1 .. 1 : m = 1
      OBVIOUS
    <3>4. Straight(<<u>>)
      BY <3>1, <3>2, <3>3 DEF Straight, FirstUnits
    <3>5. QED BY <1>1, <3>1, <3>4
  <2> DEFINE p == <<u>>
  <2>4. Grown(w, v, p)
    BY <1>2, <1>5, <2>1, PassingAppended DEF Passing, v
  <2>5. p = pes.payload /\ Origin(p) = k /\ p # <<>> /\ Straight(p)
    BY <2>1, <2>3
  <2> HIDE DEF p
  <2>6. /\ InOrder(w)
        /\ NoFlaw(v) => OneFlaw(w)
        /\ ~CCMismatch(Packet(n)) => /\ OneFlaw(v) => OneFlaw(w)
                                     /\ NoFlaw(v) => NoFlaw(w)
    <3>1. Origin(p) \in Nat /\ \A i \in 1 .. Len(v) : Origin(v[i]) <= Origin(p)
      BY <1>3, <2>3, <2>5
    <3>2. ~CCMismatch(Packet(n)) => \A i \in 1 .. Len(v) : Origin(v[i]) < Origin(p)
      BY <1>3, <2>2, <2>5
    <3>3. QED BY <1>2, <1>5, <1>6, <2>4, <2>5, <3>1, <3>2, GrownKeeps
  <2>7. OneFault'
    <3>1. OneFlaw(w) /\ (~doubleCC' => NoFlaw(w))
      BY <1>4, <1>6, <2>2, <2>6
    <3>2. QED BY <3>1 DEF OneFault, w
  <2>8. Begun(w, k)
    <3>1. Origin(p) <= k
      BY <2>3, <2>5
    <3>2. QED BY <1>2, <1>3, <1>5, <2>3, <2>4, <2>5, <3>1, BegunKeeps
  <2>9. Measured(PESdata') /\ Last(PESdata') = pes
    <3>1. /\ Len(PESdata') = Len(PESdata) + 1
          /\ \A i \in 1 .. Len(PESdata) : PESdata'[i] = PESdata[i]
          /\ PESdata'[Len(PESdata) + 1] = pes
      BY <1>2, <2>1, AppendProperties
    <3>2. \A i \in 1 .. Len(PESdata') : (i \in 1 .. Len(PESdata) /\ PESdata'[i] = PESdata[i])
                                          \/ PESdata'[i] = pes
      BY <1>9, <3>1
    <3>3. pes.pesPacketLength = Chunks[Origin(pes.payload)]
      BY <2>1, <2>5
    <3>4. Last(PESdata') = pes
      BY <3>1 DEF Last
    <3>5. QED BY <1>6, <3>2, <3>3, <3>4 DEF Measured
  <2>10. InStep'
    <3>1. Last(<<u>>) = u
      BY DEF Last
    <3>2. Last(arrived') = Last(Last(PESdata').payload)
      BY <1>1, <2>1, <2>9, <3>1 DEF u
    <3>3. QED BY <3>2 DEF InStep
  <2>11. QED BY <1>7, <2>6, <2>7, <2>8, <2>9, <2>10
<1>11. CASE Continues(n)
  <2>1. PICK pes \in PESPacket_t : /\ pes.payload = Append(pay, u)
                                   /\ pes.pesPacketLength = Last(PESdata).pesPacketLength
                                   /\ PESdata' = [PESdata EXCEPT ![Len(PESdata)] = pes]
    BY <1>11 DEF Continues, WithLast, u
  <2>2. /\ ~(CCMismatch(Packet(n)) /\ doubleCC) /\ Assembling(PESdata) /\ PESdata # <<>>
        /\ Len(PESdata) \in 1 .. Len(PESdata) /\ Last(PESdata) = PESdata[Len(PESdata)]
    <3>1. ~(CCMismatch(Packet(n)) /\ doubleCC) /\ Assembling(PESdata) /\ PESdata # <<>>
      BY <1>11 DEF Continues, CheckCCError, Assembling
    <3>2. Len(PESdata) \in Nat \ {0}
      BY <1>2, <3>1, EmptySeq
    <3>3. QED BY <3>1, <3>2 DEF Last
  <2> DEFINE p == Append(pay, u)
  <2>3. /\ p # <<>> /\ Origin(p) = Origin(pay) /\ Last(p) = u
    <3>1. Last(PESdata) \in PESPacket_t /\ pay # <<>>
      BY <1>2, <2>2, LastOfQueue, QueueIsLaden, LadenQueue
    <3>2. pay \in Seq(Bytes) /\ Len(pay) \in Nat \ {0}
      BY <3>1, EmptySeq DEF PESPacket_t
    <3>3. /\ p # <<>> /\ Len(p) = Len(pay) + 1 /\ p[Len(pay) + 1] = u
          /\ \A i \in 1 .. Len(pay) : p[i] = pay[i]
      BY <1>8, <3>2, AppendProperties DEF u
    <3>4. p[1] = pay[1]
      BY <3>2, <3>3
    <3>5. QED BY <3>3, <3>4 DEF Origin, Last
  <2>4. ~CCMismatch(Packet(n)) => (Straight(pay) => Straight(p))
    BY <2>2, ContinuedIsStraight DEF u
  <2>5. pes.payload = p
    BY <2>1
  <2> HIDE DEF p
  <2>6. Changed(w, v, p) /\ v[Len(v)] = pay
    BY <1>2, <1>5, <2>1, <2>2, <2>5, PassingReplaced DEF Passing, v
  <2>7. /\ InOrder(w)
        /\ NoFlaw(v) => OneFlaw(w)
        /\ ~CCMismatch(Packet(n)) => /\ OneFlaw(v) => OneFlaw(w)
                                     /\ NoFlaw(v) => NoFlaw(w)
    BY <1>2, <1>5, <1>6, <2>3, <2>4, <2>6, ChangedKeeps
  <2>8. OneFault'
    <3>1. OneFlaw(w) /\ (~doubleCC' => NoFlaw(w))
      BY <1>4, <1>6, <2>2, <2>7
    <3>2. QED BY <3>1 DEF OneFault, w
  <2>9. Begun(w, k)
    BY <1>2, <1>3, <1>5, <2>3, <2>6, BegunKeeps
  <2>10. Measured(PESdata') /\ Last(PESdata') = pes
    <3>1. /\ Len(PESdata') = Len(PESdata)
          /\ \A i \in 1 .. Len(PESdata) : PESdata'[i] = IF i = Len(PESdata) THEN pes ELSE PESdata[i]
      BY <1>2, <2>1, <2>2, ExceptSeq
    <3>2. pes.pesPacketLength = Chunks[Origin(pes.payload)]
      BY <1>6, <2>1, <2>2, <2>3, <2>5 DEF Measured
    <3>3. Last(PESdata') = pes
      BY <2>2, <3>1 DEF Last
    <3>4. QED BY <1>6, <3>1, <3>2, <3>3 DEF Measured
  <2>11. InStep'
    <3>1. Last(arrived') = Last(Last(PESdata').payload)
      BY <1>1, <2>3, <2>5, <2>10 DEF u
    <3>2. QED BY <3>1 DEF InStep
  <2>12. QED BY <1>7, <2>7, <2>8, <2>9, <2>10, <2>11
<1>12. ASSUME ~Assembling(PESdata'), PESdata' = PESdata \/ (PESdata # <<>> /\ PESdata' = Front(PESdata))
       PROVE  PassingInOrder' /\ OneFault' /\ InStep'
  <2>1. InStep'
    BY <1>12 DEF InStep
  <2>2. /\ Begun(w, k) /\ InOrder(w) /\ Measured(PESdata')
        /\ OneFlaw(w) /\ (NoFlaw(v) => NoFlaw(w))
    <3>1. CASE PESdata' = PESdata
      <4>1. w = v
        BY <1>5, <3>1 DEF Passing, v
      <4>2. QED BY <1>3, <1>6, <3>1, <4>1
    <3>2. CASE PESdata # <<>> /\ PESdata' = Front(PESdata)
      <4>1. Without(w, v, Len(decoded) + Len(PESdata))
        BY <1>2, <1>5, <3>2, PassingDropped DEF Passing, v
      <4>2. Begun(w, k)
        <5>1. Len(decoded) + Len(PESdata) \in Nat
          BY <1>2, <1>9
        <5>2. QED BY <1>2, <1>3, <1>5, <4>1, <5>1, BegunKeeps
      <4>3. InOrder(w) /\ OneFlaw(w) /\ (NoFlaw(v) => NoFlaw(w))
        BY <1>2, <1>5, <1>6, <4>1, WithoutKeeps
      <4>4. Measured(PESdata')
        <5>1. /\ Len(PESdata') = Len(PESdata) - 1
              /\ \A i \in 1 .. Len(PESdata) - 1 : PESdata'[i] = PESdata[i]
          BY <1>2, <3>2, FrontOfQueue
        <5>2. \A i \in 1 .. Len(PESdata') : i \in 1 .. Len(PESdata) /\ PESdata'[i] = PESdata[i]
          BY <1>9, <5>1
        <5>3. QED BY <1>6, <5>2 DEF Measured
      <4>5. QED BY <4>2, <4>3, <4>4
    <3>3. QED BY <1>12, <3>1, <3>2
  <2>3. OneFault'
    <3>1. ~doubleCC' => NoFlaw(w)
      BY <1>4, <1>6, <2>2
    <3>2. QED BY <2>2, <3>1 DEF OneFault, w
  <2>4. QED BY <1>7, <2>1, <2>2, <2>3
<1>13. PESdata # <<>> => ~Assembling(Front(PESdata))
  BY <1>2, FrontOfQueue
<1>14. CASE Skips(n)
  BY <1>12, <1>14 DEF Skips
<1>15. CASE Crashes(n)
  BY <1>12, <1>13, <1>15 DEF Crashes, Assembling
<1>16. CASE Drops(n)
  <2>1. CASE Assembling(PESdata)
    <3>1. PESdata # <<>> /\ PESdata' = Front(PESdata)
      BY <1>16, <2>1 DEF Drops, Assembling
    <3>2. QED BY <1>12, <1>13, <3>1
  <2>2. CASE ~Assembling(PESdata)
    BY <1>12, <1>16, <2>2 DEF Drops
  <2>3. QED BY <2>1, <2>2
<1>17. QED BY <1>4, <1>10, <1>11, <1>14, <1>15, <1>16

-----------------------------------------------------------------------------
(* Clean arrivals.                                                         *)

LEMMA SourceIsFirstUnits ==
  ASSUME NEW k \in PES, NEW p \in Seq(Bytes), FirstUnits(p, k, Chunks[k])
  PROVE  p = Source(k)
<1> DEFINE s == Source(k)
<1>1. Len(s) = Chunks[k] /\ s \in Seq(Nat \X Nat) /\ \A j \in 1 .. Chunks[k] : s[j] = <<k, j>>
  BY SourceFacts
<1> HIDE DEF s
<1>2. Len(p) = Len(s) /\ \A j \in 1 .. Len(p) : p[j] = s[j]
  BY <1>1 DEF FirstUnits
<1>3. p \in Seq(Bytes \cup (Nat \X Nat)) /\ s \in Seq(Bytes \cup (Nat \X Nat))
  BY <1>1
<1>4. p = s
  BY <1>2, <1>3, SeqEqual
<1>5. QED BY <1>4 DEF s

LEMMA SubSeqIsSource ==
  ASSUME NEW k \in PES, NEW a \in Seq(Nat \X Nat), NEW i \in 1 .. Len(a) - Chunks[k] + 1
  PROVE  SubSeq(a, i, i + Chunks[k] - 1) = Source(k) <=>
           \A m \in 1 .. Chunks[k] : a[i + m - 1] = <<k, m>>
<1> DEFINE C == Chunks[k]
           e == i + C - 1
           s == SubSeq(a, i, e)
           t == Source(k)
<1>1. C \in Nat \ {0} /\ i \in Nat \ {0} /\ Len(a) \in Nat /\ e \in Int /\ i <= e /\ e <= Len(a)
  <2>1. Len(a) \in Nat
    BY LenProperties
  <2>2. C \in Nat \ {0}
    BY PESFacts
  <2> HIDE DEF C
  <2>3. i \in 1 .. Len(a) - C + 1
    BY DEF C
  <2>4. QED BY <2>1, <2>2, <2>3
<1>2. \A m \in i .. e : a[m] \in Nat \X Nat
  <2>1. \A m \in i .. e : m \in 1 .. Len(a)
    BY <1>1
  <2>2. QED BY <2>1, ElementOfSeq
<1>3. t \in Seq(Nat \X Nat) /\ Len(t) = C /\ \A m \in 1 .. C : t[m] = <<k, m>>
  BY SourceFacts
<1> HIDE DEF t
<1>4. /\ s \in Seq(Nat \X Nat) /\ Len(s) = IF i <= e THEN e - i + 1 ELSE 0
      /\ \A m \in 1 .. e - i + 1 : s[m] = a[i + m - 1]
  <2> HIDE DEF e
  <2>1. i \in Int /\ e \in Int
    BY <1>1
  <2>2. QED BY <1>2, <2>1, SubSeqProperties
<1> HIDE DEF s
<1>5. e - i + 1 = C
  BY <1>1
<1>6. Len(s) = C /\ \A m \in 1 .. C : s[m] = a[i + m - 1]
  BY <1>1, <1>4, <1>5
<1> HIDE DEF e, C
<1>7. s = t <=> \A m \in 1 .. C : s[m] = t[m]
  <2>1. s = t => \A m \in 1 .. C : s[m] = t[m]
    OBVIOUS
  <2>2. (\A m \in 1 .. C : s[m] = t[m]) => s = t
    BY <1>3, <1>4, <1>6, SeqEqual
  <2>3. QED BY <2>1, <2>2
<1>8. s = t <=> \A m \in 1 .. C : a[i + m - 1] = <<k, m>>
  BY <1>3, <1>6, <1>7
<1>9. QED BY <1>8 DEF s, t, e, C

(* The last of the clean arrivals finds the handler assembling those before. *)
LEMMA CleanUnitIsTaken ==
  ASSUME ReceptionInv, NEW n, Arrives(n), Follows(n), status' = "live",
         NEW k \in PES, NEW j \in 1 .. Chunks[k], EndsCleanly(k, j)'
  PROVE  PESdata' # <<>> /\ FirstUnits(Last(PESdata').payload, k, j)
<1> DEFINE u == Units[n]
           i == Len(arrived') - j + 1
<1>1. /\ n \in 1 .. Len(Units) /\ n \in Nat
      /\ Len(arrived) \in Nat /\ Len(arrived') = Len(arrived) + 1
      /\ \A m \in 1 .. Len(arrived) : arrived'[m] = arrived[m]
      /\ arrived'[Len(arrived) + 1] = u
      /\ u \in Bytes
  BY ArrivalFacts, PacketIsOfStream DEF ReceptionInv, ChannelTypeOK
<1>2. /\ i >= 1
      /\ \A m \in 1 .. j : arrived'[i + m - 1] = <<k, m>>
      /\ IF k = 1 THEN i = 1 ELSE i > 1 /\ arrived'[i - 1] = <<k - 1, Chunks[k - 1]>>
  BY DEF EndsCleanly
<1>3. j \in Nat \ {0} /\ k \in Nat \ {0} /\ Chunks[k] \in Nat /\ i + j - 1 = Len(arrived) + 1
  BY <1>1, PESFacts
<1>4. u = <<k, j>>
  <2>1. j \in 1 .. j
    BY <1>3
  <2>2. QED BY <1>1, <1>2, <1>3, <2>1
<1>5. Starts(n) \/ Continues(n) \/ Skips(n) \/ Drops(n)
  <2>1. ~Crashes(n)
    BY DEF Crashes
  <2>2. QED BY <1>1, <2>1, QueueIsLaden, HandlerStep DEF ReceptionInv, Arrives
<1>6. arrived # <<>> => Last(arrived) = arrived[Len(arrived)] /\ Len(arrived) \in 1 .. Len(arrived)
  <2>1. arrived # <<>> => Len(arrived) # 0
    BY EmptySeq DEF ReceptionInv, ChannelTypeOK
  <2>2. QED BY <1>1, <2>1 DEF Last
<1>7. ASSUME arrived # <<>>,
             \/ Last(arrived) = <<k, j - 1>>
             \/ j = 1 /\ Last(arrived) = <<k - 1, Chunks[k - 1]>>
      PROVE  ~CCMismatch(Packet(n))
  <2>1. PICK m \in 1 .. n : /\ Last(arrived) = Units[m]
                            /\ CCMismatch(Packet(n)) <=> n # m + 1
    BY <1>7 DEF Follows
  <2>2. m \in 1 .. Len(Units)
    BY <1>1, <2>1, PESFacts
  <2>3. \/ Units[n] = <<Units[m][1], Units[m][2] + 1>>
        \/ /\ Units[m][2] = Chunks[Units[m][1]]
           /\ Units[n] = <<Units[m][1] + 1, 1>>
    <3>1. CASE Last(arrived) = <<k, j - 1>>
      <4>1. Units[m][1] = k /\ Units[m][2] = j - 1 /\ (j - 1) + 1 = j
        BY <1>3, <2>1, <3>1
      <4>2. QED BY <1>4, <4>1
    <3>2. CASE j = 1 /\ Last(arrived) = <<k - 1, Chunks[k - 1]>>
      <4>1. Units[m][1] = k - 1 /\ Units[m][2] = Chunks[k - 1] /\ (k - 1) + 1 = k
        BY <1>3, <2>1, <3>2
      <4>2. QED BY <1>4, <3>2, <4>1
    <3>3. QED BY <1>7, <3>1, <3>2
  <2>4. n = m + 1
    BY <1>1, <2>2, <2>3, NextUnit
  <2>5. QED BY <2>1, <2>4
<1>8. CASE j = 1
  <2>1. ~CheckCCError(Packet(n))
    <3>1. CASE k = 1
      <4>1. Len(arrived) = 0
        BY <1>1, <1>2, <1>8, <3>1
      <4>2. ~doubleCC
        BY <1>6, <4>1, PassingFacts
      <4>3. QED BY <4>2 DEF CheckCCError
    <3>2. CASE k # 1
      <4>1. i > 1 /\ i - 1 = Len(arrived) /\ arrived'[i - 1] = <<k - 1, Chunks[k - 1]>>
        BY <1>1, <1>2, <1>8, <3>2
      <4>2. Len(arrived) # 0 /\ Len(arrived) \in 1 .. Len(arrived)
        BY <1>1, <4>1
      <4>3. arrived # <<>>
        BY <4>2, EmptySeq
      <4>4. Last(arrived) = <<k - 1, Chunks[k - 1]>>
        BY <1>1, <1>6, <4>1, <4>2, <4>3
      <4>5. QED BY <1>7, <1>8, <4>3, <4>4 DEF CheckCCError
    <3>3. QED BY <3>1, <3>2
  <2>2. u[2] = 1
    BY <1>4, <1>8
  <2>3. Starts(n)
    BY <1>5, <2>1, <2>2 DEF Continues, Skips, Drops, u
  <2>4. PICK pes \in PESPacket_t : pes.payload = <<u>> /\ PESdata' = Append(PESdata, pes)
    BY <2>3 DEF Starts, u
  <2>5. PESdata' # <<>> /\ Last(PESdata') = pes
    <3>1. PESdata \in Seq(PESPacket_t)
      BY PassingFacts
    <3>2. /\ PESdata' # <<>> /\ Len(PESdata') = Len(PESdata) + 1
          /\ PESdata'[Len(PESdata) + 1] = pes
      BY <2>4, <3>1, AppendProperties
    <3>3. QED BY <3>2 DEF Last
  <2>6. FirstUnits(<<u>>, k, 1)
    <3>1. Len(<<u>>) = 1 /\ <<u>>[1] = <<k, 1>> /\ \A m \in 1 .. 1 : m = 1
      BY <1>4, <1>8
    <3>2. QED BY <3>1 DEF FirstUnits
  <2>7. QED BY <1>8, <2>4, <2>5, <2>6
<1>9. CASE j # 1
  <2>1. j - 1 \in 1 .. Chunks[k] - 1 /\ i = Len(arrived) - (j - 1) + 1
    BY <1>1, <1>3, <1>9
  <2>2. EndsCleanly(k, j - 1)
    <3>1. \A m \in 1 .. j - 1 : arrived[i + m - 1] = <<k, m>>
      <4>1. i \in Nat \ {0} /\ i + j = Len(arrived) + 2
        BY <1>1, <1>2, <1>3, SMTT(40)
      <4> HIDE DEF i
      <4>2. \A m \in 1 .. j - 1 : m \in 1 .. j /\ i + m - 1 \in 1 .. Len(arrived)
        BY <1>1, <1>3, <4>1
      <4>3. QED BY <1>1, <1>2, <4>2
    <3>2. k # 1 => arrived[i - 1] = <<k - 1, Chunks[k - 1]>>
      <4>1. k # 1 => i - 1 \in 1 .. Len(arrived)
        BY <1>1, <1>2, <1>3
      <4>2. QED BY <1>1, <1>2, <4>1
    <3> HIDE DEF i
    <3>3. QED BY <1>2, <2>1, <3>1, <3>2 DEF EndsCleanly
  <2>3. status = "live" /\ Assembling(PESdata) /\ FirstUnits(Last(PESdata).payload, k, j - 1)
    <3>1. status = "live"
      BY DEF Arrives, NextPacket
    <3>2. QED BY <2>1, <2>2, <3>1 DEF ReceptionInv, CleanIsAssembled
  <2>4. arrived # <<>> /\ Last(arrived) = <<k, j - 1>>
    <3>1. Len(arrived) # 0 /\ i + (j - 1) - 1 = Len(arrived) /\ j - 1 \in 1 .. j
      BY <1>1, <1>2, <1>3, <1>9
    <3>2. arrived # <<>>
      BY <3>1, EmptySeq
    <3>3. arrived'[Len(arrived)] = <<k, j - 1>>
      <4> HIDE DEF i
      <4>1. QED BY <1>2, <3>1
    <3> HIDE DEF i
    <3>4. arrived[Len(arrived)] = <<k, j - 1>>
      BY <1>1, <1>6, <3>2, <3>3
    <3>5. QED BY <1>6, <3>2, <3>4
  <2>5. ~CCMismatch(Packet(n)) /\ u[2] # 1
    BY <1>4, <1>7, <1>9, <2>4
  <2>6. Continues(n)
    BY <1>5, <2>3, <2>5 DEF Starts, Skips, Drops, CheckCCError, u
  <2> DEFINE pay == Last(PESdata).payload
  <2>7. PICK pes \in PESPacket_t : /\ pes.payload = Append(pay, u)
                                   /\ PESdata' = [PESdata EXCEPT ![Len(PESdata)] = pes]
    BY <2>6 DEF Continues, WithLast, u
  <2>8. /\ PESdata' # <<>> /\ Last(PESdata') = pes /\ pay \in Seq(Bytes)
    <3>1. PESdata \in Seq(PESPacket_t) /\ Queue(PESdata) /\ PESdata # <<>>
      BY <2>3, PassingFacts DEF Assembling
    <3>2. Len(PESdata) \in Nat \ {0} /\ Last(PESdata) \in PESPacket_t
      BY <3>1, LastOfQueue
    <3>3. Len(PESdata') = Len(PESdata) /\ PESdata'[Len(PESdata)] = pes
      BY <2>7, <3>1, <3>2, ExceptSeq
    <3>4. PESdata' # <<>>
      <4>1. Len(PESdata') # 0
        BY <3>2, <3>3
      <4>2. QED BY <4>1, EmptySeq
    <3>5. QED BY <3>2, <3>3, <3>4 DEF Last, PESPacket_t
  <2> HIDE DEF pay
  <2>9. FirstUnits(Append(pay, u), k, j)
    <3>1. Len(pay) = j - 1 /\ \A m \in 1 .. j - 1 : pay[m] = <<k, m>>
      BY <2>3 DEF FirstUnits, pay
    <3> DEFINE q == Append(pay, u)
    <3>2. /\ Len(q) = Len(pay) + 1 /\ q[Len(pay) + 1] = u
          /\ \A m \in 1 .. Len(pay) : q[m] = pay[m]
      BY <1>1, <2>8, AppendProperties
    <3> HIDE DEF q
    <3>3. \A m \in 1 .. j : m \in 1 .. j - 1 \/ m = Len(pay) + 1
      BY <1>3, <3>1
    <3>4. Len(q) = j /\ \A m \in 1 .. j : q[m] = <<k, m>>
      BY <1>3, <1>4, <3>1, <3>2, <3>3
    <3>5. QED BY <3>4 DEF FirstUnits, q
  <2>10. QED BY <2>7, <2>8, <2>9
<1>10. QED BY <1>8, <1>9

(* A payload that is a whole PES packet is not touched by an arrival. *)
LEMMA WholeIsNotTouched ==
  ASSUME ReceptionInv, NEW n, Arrives(n), Follows(n), status' = "live",
         NEW k \in PES, NEW x \in 1 .. Len(Passing), Passing[x] = Source(k)
  PROVE  \E y \in 1 .. Len(Passing') : Passing'[y] = Source(k)
<1> DEFINE v == Passing
           w == Passing'
<1>1. /\ decoded \in Payloads /\ Queue(PESdata) /\ PESdata \in Seq(PESPacket_t)
      /\ v \in Payloads /\ Len(v) \in Nat
      /\ Len(v) = Len(decoded) + Len(PESdata) /\ Len(decoded) \in Nat
  BY PassingFacts, LenProperties DEF Payloads
<1>2. Starts(n) \/ Continues(n) \/ Skips(n) \/ Drops(n)
  <2>1. ~Crashes(n)
    BY DEF Crashes
  <2>2. QED BY <2>1, QueueIsLaden, HandlerStep DEF ReceptionInv, Arrives
<1>3. decoded' = decoded /\ w = PassingOf(decoded, PESdata')
  BY DEF Arrives, outputVars, Passing
<1>4. Assembling(PESdata) => x \in 1 .. Len(v) - 1 /\ v # <<>>
  <2>1. SUFFICES ASSUME Assembling(PESdata) PROVE x # Len(v) /\ v # <<>>
    BY <1>1
  <2>2. /\ PESdata # <<>> /\ Len(PESdata) \in Nat \ {0}
        /\ Last(PESdata).Started /\ ~Last(PESdata).Complete
        /\ WellFormed(Last(PESdata)) /\ Last(PESdata) = PESdata[Len(PESdata)]
    BY <1>1, <2>1, LastOfQueue DEF Assembling, Last
  <2>3. v[Len(v)] = Last(PESdata).payload
    BY <1>1, <2>2, PassingReplaced DEF Passing
  <2>4. ASSUME Last(PESdata).payload = Source(k) PROVE FALSE
    <3>1. Last(PESdata).pesPacketLength = Chunks[Origin(Source(k))]
      <4>1. Len(PESdata) \in 1 .. Len(PESdata)
        BY <2>2
      <4>2. QED BY <2>2, <2>4, <4>1 DEF ReceptionInv, PassingInOrder, Measured
    <3>2. Origin(Source(k)) = k
      <4>1. 1 \in 1 .. Chunks[k]
        BY PESFacts
      <4>2. Source(k)[1] = <<k, 1>>
        BY <4>1, SourceFacts
      <4>3. QED BY <4>2 DEF Origin
    <3>3. Len(Source(k)) = Chunks[k]
      BY SourceFacts
    <3>4. QED BY <2>2, <2>4, <3>1, <3>2, <3>3 DEF WellFormed, Void
  <2>5. Len(v) # 0
    BY <1>1, <2>2
  <2>6. QED BY <2>3, <2>4, <2>5, EmptySeq
<1> HIDE DEF v, w
<1>5. CASE Starts(n)
  <2>1. PICK pes \in PESPacket_t : PESdata' = Append(PESdata, pes)
    BY <1>5 DEF Starts
  <2>2. Grown(w, v, pes.payload)
    BY <1>1, <1>3, <2>1, PassingAppended DEF Passing, v
  <2>3. x \in 1 .. Len(w) /\ w[x] = v[x]
    BY <1>1, <2>2 DEF Grown, v
  <2>4. QED BY <2>3 DEF v, w
<1>6. CASE Continues(n)
  <2>1. PICK pes \in PESPacket_t : PESdata' = [PESdata EXCEPT ![Len(PESdata)] = pes]
    BY <1>6 DEF Continues, WithLast
  <2>2. PESdata # <<>> /\ Assembling(PESdata)
    BY <1>6 DEF Continues, Assembling
  <2>3. Changed(w, v, pes.payload)
    BY <1>1, <1>3, <2>1, <2>2, PassingReplaced DEF Passing, v
  <2>4. x \in 1 .. Len(w) /\ w[x] = v[x]
    BY <1>1, <1>4, <2>2, <2>3, SMTT(40) DEF Changed
  <2>5. QED BY <2>4 DEF v, w
<1>7. ASSUME PESdata' = PESdata
      PROVE  \E y \in 1 .. Len(Passing') : Passing'[y] = Source(k)
  BY <1>3, <1>7 DEF Passing, w
<1>8. CASE Skips(n)
  BY <1>7, <1>8 DEF Skips
<1>9. CASE Drops(n)
  <2>1. CASE Assembling(PESdata)
    <3>1. PESdata # <<>> /\ PESdata' = Front(PESdata)
      BY <1>9, <2>1 DEF Drops, Assembling
    <3>2. Without(w, v, Len(v))
      BY <1>1, <1>3, <3>1, PassingDropped DEF Passing, v
    <3>3. x \in 1 .. Len(v) - 1 /\ x < Len(v) /\ Len(w) = Len(v) - 1
      BY <1>1, <1>4, <2>1, <3>2 DEF Without
    <3>4. w[x] = v[x]
      BY <3>2, <3>3 DEF Without
    <3>5. QED BY <3>3, <3>4 DEF v, w
  <2>2. CASE ~Assembling(PESdata)
    BY <1>7, <1>9, <2>2 DEF Drops
  <2>3. QED BY <2>1, <2>2
<1>10. QED BY <1>2, <1>5, <1>6, <1>8, <1>9

LEMMA ArrivalKeepsClean ==
  ASSUME ReceptionInv, NEW n, Arrives(n), Follows(n), status' = "live"
  PROVE  CleanIsAssembled' /\ CleanIsKept'
<1>1. /\ Len(arrived) \in Nat /\ Len(arrived') = Len(arrived) + 1
      /\ \A i \in 1 .. Len(arrived) : arrived'[i] = arrived[i]
      /\ arrived' \in Seq(Nat \X Nat) /\ arrived \in Seq(Nat \X Nat)
  BY ArrivalFacts DEF ReceptionInv, ChannelTypeOK
<1>2. /\ PassingInOrder' /\ IInv' /\ ChannelTypeOK'
      /\ PESdata' \in Seq(PESPacket_t) /\ Queue(PESdata')
  BY ArrivalKeepsOrder, ArrivalIsTyped DEF IInv, TypeOK, QueueDiscipline, Queue
<1>3. status = "live" /\ decoded' = decoded /\ stale' = stale
  BY DEF Arrives, NextPacket, outputVars
<1>4. ASSUME NEW k \in PES, NEW j \in 1 .. Chunks[k] - 1, EndsCleanly(k, j)'
      PROVE  Assembling(PESdata') /\ FirstUnits(Last(PESdata').payload, k, j)
  <2> DEFINE last == Last(PESdata')
  <2>1. j \in 1 .. Chunks[k] /\ j \in Nat \ {0} /\ j # Chunks[k]
    BY PESFacts
  <2>2. PESdata' # <<>> /\ FirstUnits(last.payload, k, j)
    BY <1>4, <2>1, CleanUnitIsTaken
  <2>3. Len(PESdata') \in Nat \ {0} /\ WellFormed(last) /\ last = PESdata'[Len(PESdata')]
    BY <1>2, <2>2, LastOfQueue DEF Last
  <2>4. last.pesPacketLength = Chunks[Origin(last.payload)]
    <3>1. Len(PESdata') \in 1 .. Len(PESdata')
      BY <2>3
    <3>2. QED BY <1>2, <2>3, <3>1 DEF PassingInOrder, Measured
  <2> HIDE DEF last
  <2>5. Len(last.payload) = j /\ Origin(last.payload) = k
    <3>1. 1 \in 1 .. j
      BY <2>1
    <3>2. last.payload[1] = <<k, 1>> /\ Len(last.payload) = j
      BY <2>2, <3>1 DEF FirstUnits
    <3>3. QED BY <3>2 DEF Origin
  <2>6. last.Started /\ ~last.Complete
    <3>1. last.payload # <<>>
      BY <2>1, <2>5, EmptySeq
    <3>2. QED BY <2>1, <2>3, <2>4, <2>5, <3>1 DEF WellFormed, Void
  <2>7. QED BY <2>2, <2>6 DEF Assembling, last
<1>5. CleanIsAssembled'
  BY <1>4 DEF CleanIsAssembled
<1>6. ASSUME NEW k \in PES, ArrivedCleanly(k)' PROVE Kept(k)'
  <2> DEFINE C == Chunks[k]
  <2>1. PICK i \in 1 .. Len(arrived') - C + 1 :
          /\ SubSeq(arrived', i, i + C - 1) = Source(k)
          /\ IF k = 1 THEN i = 1 ELSE i > 1 /\ arrived'[i - 1] = <<k - 1, Chunks[k - 1]>>
          /\ i + C <= Len(arrived') => arrived'[i + C] # <<k, C>>
    BY <1>6 DEF ArrivedCleanly
  <2>2. \A m \in 1 .. C : arrived'[i + m - 1] = <<k, m>>
    BY <1>1, <2>1, SubSeqIsSource
  <2>3. C \in Nat \ {0}
    BY PESFacts
  <2> HIDE DEF C
  <2>4. i \in Nat \ {0} /\ i + C <= Len(arrived') + 1
    BY <1>1, <2>3
  <2>5. CASE i + C <= Len(arrived')
    <3>1. i \in 1 .. Len(arrived) - C + 1
      BY <1>1, <2>3, <2>4, <2>5
    <3>2. \A m \in 1 .. C : arrived[i + m - 1] = <<k, m>>
      <4>1. \A m \in 1 .. C : i + m - 1 \in 1 .. Len(arrived)
        BY <1>1, <2>3, <2>4, <2>5
      <4>2. QED BY <1>1, <2>2, <4>1
    <3>3. SubSeq(arrived, i, i + C - 1) = Source(k)
      BY <1>1, <3>1, <3>2, SubSeqIsSource DEF C
    <3>4. IF k = 1 THEN i = 1 ELSE i > 1 /\ arrived[i - 1] = <<k - 1, Chunks[k - 1]>>
      <4>1. i > 1 => i - 1 \in 1 .. Len(arrived)
        BY <1>1, <2>3, <2>4, <2>5
      <4>2. QED BY <1>1, <2>1, <4>1
    <3>5. i + C <= Len(arrived) => arrived[i + C] # <<k, C>>
      <4>1. i + C <= Len(arrived) => i + C \in 1 .. Len(arrived)
        BY <1>1, <2>3, <2>4
      <4>2. QED BY <1>1, <2>1, <2>5, <4>1
    <3>6. ArrivedCleanly(k)
      BY <3>1, <3>3, <3>4, <3>5 DEF ArrivedCleanly, C
    <3>7. Kept(k)
      BY <1>3, <3>6 DEF ReceptionInv, CleanIsKept
    <3>8. CASE k \in stale
      BY <1>3, <3>8 DEF Kept
    <3>9. CASE \E x \in 1 .. Len(Passing) : Passing[x] = Source(k)
      BY <3>9, WholeIsNotTouched DEF Kept
    <3>10. QED BY <3>7, <3>8, <3>9 DEF Kept
  <2>6. CASE i + C = Len(arrived') + 1
    <3>1. C \in 1 .. Chunks[k] /\ i = Len(arrived') - C + 1
      <4> DEFINE l == Len(arrived')
      <4>1. l \in Nat /\ i + C = l + 1
        BY <1>1, <2>6
      <4> HIDE DEF l
      <4>2. i = l - C + 1
        BY <2>3, <2>4, <4>1
      <4>3. C \in 1 .. C
        BY <2>3
      <4>4. QED BY <4>2, <4>3 DEF C, l
    <3>2. EndsCleanly(k, C)'
      <4>1. Len(arrived') - C + 1 = i /\ i >= 1
        BY <2>4, <3>1
      <4>2. QED BY <2>1, <2>2, <4>1 DEF EndsCleanly
    <3>3. PESdata' # <<>> /\ FirstUnits(Last(PESdata').payload, k, C)
      BY <3>1, <3>2, CleanUnitIsTaken
    <3>4. Len(PESdata') \in Nat \ {0} /\ Last(PESdata') \in PESPacket_t
      BY <1>2, <3>3, LastOfQueue
    <3>5. Last(PESdata').payload = Source(k)
      BY <3>3, <3>4, SourceIsFirstUnits DEF PESPacket_t, C
    <3>6. /\ Len(Passing') = Len(decoded) + Len(PESdata') /\ Len(decoded) \in Nat
          /\ Passing'[Len(decoded) + Len(PESdata')] = Last(PESdata').payload
      <4>1. Passing' = PassingOf(decoded, PESdata') /\ decoded \in Payloads
        BY <1>3, PassingFacts DEF Passing
      <4>2. /\ Len(PassingOf(decoded, PESdata')) = Len(decoded) + Len(PESdata')
            /\ Len(decoded) \in Nat
            /\ \A y \in 1 .. Len(PESdata') :
                 PassingOf(decoded, PESdata')[Len(decoded) + y] = PESdata'[y].payload
        BY <1>2, <4>1, PassingOfProperties
      <4>3. Len(PESdata') \in 1 .. Len(PESdata')
        BY <3>4
      <4>4. QED BY <4>1, <4>2, <4>3 DEF Last
    <3>7. Len(decoded) + Len(PESdata') \in 1 .. Len(Passing')
      BY <3>4, <3>6
    <3>8. QED BY <3>5, <3>6, <3>7 DEF Kept
  <2>7. QED
    <3>1. i + C <= Len(arrived') \/ i + C = Len(arrived') + 1
      BY <1>1, <2>3, <2>4
    <3>2. QED BY <2>5, <2>6, <3>1
<1>7. CleanIsKept'
  BY <1>6 DEF CleanIsKept
<1>8. QED BY <1>5, <1>7

-----------------------------------------------------------------------------
(* Ticks of the clock.                                                     *)

(* The packet at the front of the queue stays, *)
Stays == PESdata' = PESdata /\ decoded' = decoded /\ stale' = stale

FrontLeaves == PESdata # <<>> /\ Head(PESdata).Complete /\ PESdata' = Tail(PESdata)

(* or is decoded, *)
Plays ==
  /\ FrontLeaves
  /\ decoded' = Append(decoded, Head(PESdata).payload) /\ stale' = stale

(* or discarded. *)
Discards ==
  /\ FrontLeaves
  /\ decoded' = decoded /\ stale' = stale \cup {Origin(Head(PESdata).payload)}

LEMMA TickEffect ==
  ASSUME ReceptionInv, Tick \/ TickUnknown
  PROVE  /\ IInv' /\ status' = status /\ UNCHANGED <<channelVars, ContinuityCount, doubleCC, stream_id>>
         /\ clock' \in 0 .. MaxClock
         /\ Stays \/ Plays \/ Discards
<1>1. clock \in 0 .. MaxClock /\ MaxClock \in Nat /\ 0 .. MaxClock \subseteq PCRs
  BY ChannelAssumption DEF ReceptionInv, ChannelTypeOK
<1>2. PICK c \in 0 .. MaxClock :
        /\ PCRTick(c) /\ UNCHANGED channelVars /\ clock' \in 0 .. MaxClock
        /\ decoded' = IF decoding' # NoPES THEN Append(decoded, decoding'.payload) ELSE decoded
        /\ \/ stale' = IF PESdata' # PESdata /\ decoding' = NoPES
                       THEN stale \cup {Head(PESdata).payload[1][1]} ELSE stale
           \/ c = 0 /\ stale' = stale
  <2>1. CASE Tick
    <3>1. PICK step \in 1 .. MaxStep :
            /\ clock' = Smaller(clock + step, MaxClock)
            /\ PCRTick(clock') /\ UNCHANGED channelVars
            /\ decoded' = IF decoding' # NoPES THEN Append(decoded, decoding'.payload) ELSE decoded
            /\ stale' = IF PESdata' # PESdata /\ decoding' = NoPES
                        THEN stale \cup {Head(PESdata).payload[1][1]} ELSE stale
      BY <2>1 DEF Tick
    <3>2. clock' \in 0 .. MaxClock
      <4>1. step \in Nat /\ clock + step \in Nat
        BY <1>1, ChannelAssumption
      <4>2. QED BY <1>1, <3>1, <4>1 DEF Smaller
    <3>3. QED BY <3>1, <3>2
  <2>2. CASE TickUnknown
    <3>1. 0 \in 0 .. MaxClock /\ clock' = clock
      BY <1>1, <2>2 DEF TickUnknown
    <3>2. QED BY <1>1, <2>2, <3>1 DEF TickUnknown
  <2>3. QED BY <2>1, <2>2
<1>3. c \in PCRs /\ IInv'
  BY <1>1, <1>2, PCRTickStep DEF ReceptionInv
<1>4. status' = status /\ UNCHANGED <<ContinuityCount, doubleCC, stream_id>>
  BY <1>2 DEF PCRTick
<1>5. Stays \/ Plays \/ Discards
  <2>1. ASSUME PESdata' = PESdata, decoding' = NoPES PROVE Stays
    BY <1>2, <2>1 DEF Stays
  <2>2. CASE PESdata = <<>>
    BY <1>2, <2>1, <2>2 DEF PCRTick
  <2>3. CASE PESdata # <<>>
    <3> DEFINE front == Head(PESdata)
               control == TickControl(front, c)
    <3>1. /\ decoding' = IF control = "PlayPacket" THEN front ELSE NoPES
          /\ PESdata' = IF control # "Wait" \/ ~(front.Started \/ front.Complete)
                        THEN Tail(PESdata) ELSE PESdata
      BY <1>2, <2>3 DEF PCRTick
    <3>2. /\ front \in PESPacket_t /\ front.Started /\ front # NoPES
      BY <2>3, PassingFacts, LastOfQueue, QueueIsLaden, LadenQueue, StreamAssumption
    <3>3. control # "Wait" => front.Complete
      BY DEF TickControl
    <3>4. c = 0 => control \in {"PlayPacket", "Wait"}
      BY DEF TickControl, PacketControl
    <3>5. Tail(PESdata) # PESdata
      <4>1. PESdata \in Seq(PESPacket_t) /\ Len(PESdata) \in Nat
        BY PassingFacts, LenProperties
      <4> DEFINE rest == Tail(PESdata)
      <4>2. Len(rest) = Len(PESdata) - 1
        BY <2>3, <4>1, HeadTailProperties
      <4> HIDE DEF rest
      <4>3. rest # PESdata
        BY <4>1, <4>2
      <4>4. QED BY <4>3 DEF rest
    <3> HIDE DEF control
    <3>6. CASE control = "Wait"
      BY <2>1, <3>1, <3>2, <3>6
    <3>7. CASE control = "PlayPacket"
      <4>1. FrontLeaves /\ decoding' = front
        BY <2>3, <3>1, <3>3, <3>7 DEF FrontLeaves
      <4>2. QED BY <1>2, <3>2, <4>1 DEF Plays
    <3>8. CASE control # "Wait" /\ control # "PlayPacket"
      <4>1. FrontLeaves /\ decoding' = NoPES /\ PESdata' # PESdata /\ c # 0
        BY <2>3, <3>1, <3>3, <3>4, <3>5, <3>8 DEF FrontLeaves
      <4>2. QED BY <1>2, <4>1 DEF Discards, Origin
    <3>9. QED BY <3>6, <3>7, <3>8
  <2>4. QED BY <2>2, <2>3
<1>6. QED BY <1>2, <1>3, <1>4, <1>5

LEMMA TickKeeps ==
  ASSUME ReceptionInv, Tick \/ TickUnknown
  PROVE  ReceptionInv'
<1> DEFINE v == Passing
           w == Passing'
           front == Head(PESdata)
<1>1. /\ IInv' /\ status' = status /\ clock' \in 0 .. MaxClock
      /\ UNCHANGED <<ccBase, sent, arrived, lost, ContinuityCount, doubleCC, stream_id>>
      /\ Stays \/ Plays \/ Discards
  BY TickEffect DEF channelVars
<1>2. /\ decoded \in Payloads /\ Queue(PESdata) /\ PESdata \in Seq(PESPacket_t)
      /\ v \in Payloads /\ Len(v) \in Nat
      /\ Len(v) = Len(decoded) + Len(PESdata) /\ Len(decoded) \in Nat
  BY PassingFacts, LenProperties DEF Payloads
<1>3. /\ ChannelTypeOK /\ InTouch /\ InOrder(v) /\ Full(decoded) /\ Measured(PESdata)
      /\ Begun(v, Last(arrived)[1]) /\ OneFlaw(v) /\ (~doubleCC => NoFlaw(v))
      /\ InStep /\ CleanIsAssembled /\ CleanIsKept
  BY DEF ReceptionInv, PassingInOrder, OneFault
<1>4. Plays \/ Discards => FrontLeaves /\ PESdata # <<>>
  BY DEF Plays, Discards, FrontLeaves
<1>5. FrontLeaves => /\ front \in PESPacket_t /\ front = PESdata[1] /\ front.payload \in Seq(Bytes)
                     /\ Len(front.payload) = Chunks[Origin(front.payload)]
  <2>1. SUFFICES ASSUME FrontLeaves
                 PROVE  /\ front \in PESPacket_t /\ front = PESdata[1]
                        /\ front.payload \in Seq(Bytes)
                        /\ Len(front.payload) = Chunks[Origin(front.payload)]
    OBVIOUS
  <2>2. PESdata # <<>> /\ front.Complete
    BY <2>1 DEF FrontLeaves
  <2>3. front \in PESPacket_t /\ WellFormed(front) /\ 1 \in 1 .. Len(PESdata)
    BY <1>2, <2>2, LastOfQueue
  <2>4. front = PESdata[1]
    BY <1>2, <2>2
  <2>5. front.pesPacketLength = Chunks[Origin(front.payload)]
    BY <1>3, <2>3, <2>4 DEF Measured
  <2>6. Len(front.payload) = front.pesPacketLength
    BY <2>2, <2>3 DEF WellFormed, Void
  <2>7. QED BY <2>2, <2>3, <2>4, <2>5, <2>6 DEF PESPacket_t
<1>6. decoded' \in Payloads /\ Full(decoded')
  <2>1. CASE Stays \/ Discards
    BY <1>2, <1>3, <2>1 DEF Stays, Discards
  <2>2. CASE Plays
    <3>1. decoded' = Append(decoded, front.payload) /\ FrontLeaves
      BY <2>2 DEF Plays
    <3> HIDE DEF front
    <3>2. /\ decoded' \in Payloads /\ Len(decoded') = Len(decoded) + 1
          /\ \A i \in 1 .. Len(decoded) : decoded'[i] = decoded[i]
          /\ decoded'[Len(decoded) + 1] = front.payload
      BY <1>2, <1>5, <3>1, AppendProperties DEF Payloads
    <3>3. \A i \in 1 .. Len(decoded') : \/ i \in 1 .. Len(decoded) /\ decoded'[i] = decoded[i]
                                       \/ decoded'[i] = front.payload
      BY <1>2, <3>2
    <3>4. QED BY <1>3, <1>5, <3>1, <3>2, <3>3 DEF Full
  <2>3. QED BY <1>1, <2>1, <2>2
<1>7. ChannelTypeOK'
  BY <1>1, <1>3, <1>6 DEF ChannelTypeOK, Payloads
<1>8. InTouch'
  <2>1. CASE arrived = <<>>
    <3>1. Stays
      BY <1>1, <1>3, <1>4, <2>1 DEF InTouch
    <3>2. QED BY <1>1, <1>3, <2>1, <3>1 DEF InTouch, Stays
  <2>2. CASE arrived # <<>>
    BY <1>1, <1>3, <2>2 DEF InTouch, LastArrival
  <2>3. QED BY <2>1, <2>2
<1>9. w = v \/ (FrontLeaves /\ Without(w, v, Len(decoded) + 1))
  <2>1. CASE Stays
    BY <2>1 DEF Stays, Passing
  <2>2. CASE Plays
    <3>1. PESdata # <<>> /\ w = PassingOf(Append(decoded, front.payload), Tail(PESdata))
      BY <2>2 DEF Plays, FrontLeaves, Passing
    <3>2. QED BY <1>2, <3>1, PassingTaken DEF Passing
  <2>3. CASE Discards
    <3>1. PESdata # <<>> /\ w = PassingOf(decoded, Tail(PESdata)) /\ FrontLeaves
      BY <2>3 DEF Discards, FrontLeaves, Passing
    <3>2. QED BY <1>2, <3>1, PassingTaken DEF Passing
  <2>4. QED BY <1>1, <2>1, <2>2, <2>3
<1>10. w \in Payloads
  <2>1. PESdata' \in Seq(PESPacket_t)
    BY <1>1 DEF IInv, TypeOK
  <2>2. QED BY <1>6, <2>1, PassingOfProperties DEF Passing
<1>11. Begun(w, Last(arrived)[1]) /\ InOrder(w) /\ OneFlaw(w) /\ (~doubleCC => NoFlaw(w))
  <2> HIDE DEF v, w
  <2>1. Len(decoded) + 1 \in Nat
    BY <1>2
  <2>2. QED BY <1>2, <1>3, <1>9, <1>10, <2>1, BegunKeeps, WithoutKeeps
<1>12. FrontLeaves =>
         /\ \A i \in 1 .. Len(PESdata') : i + 1 \in 1 .. Len(PESdata) /\ PESdata'[i] = PESdata[i + 1]
         /\ Assembling(PESdata') <=> Assembling(PESdata)
         /\ Assembling(PESdata) => Last(PESdata') = Last(PESdata)
  <2>1. SUFFICES ASSUME FrontLeaves, PESdata # <<>>, front.Complete, PESdata' = Tail(PESdata)
                 PROVE  /\ \A i \in 1 .. Len(Tail(PESdata)) :
                             i + 1 \in 1 .. Len(PESdata) /\ Tail(PESdata)[i] = PESdata[i + 1]
                        /\ Assembling(Tail(PESdata)) <=> Assembling(PESdata)
                        /\ Assembling(PESdata) => Last(Tail(PESdata)) = Last(PESdata)
    BY DEF FrontLeaves
  <2>2. /\ Len(Tail(PESdata)) = Len(PESdata) - 1 /\ Len(PESdata) \in Nat
        /\ \A i \in 1 .. Len(Tail(PESdata)) : Tail(PESdata)[i] = PESdata[i + 1]
    BY <1>2, <2>1, HeadTailProperties, LenProperties
  <2>3. /\ Partial(Tail(PESdata)) = Partial(PESdata)
        /\ Assembling(Tail(PESdata)) <=> Assembling(PESdata)
    BY <1>2, <2>1, TailOfQueue DEF Settled
  <2>4. QED BY <2>2, <2>3 DEF Partial
<1>13. Measured(PESdata')
  <2>1. CASE Stays
    BY <1>3, <2>1 DEF Stays
  <2>2. CASE FrontLeaves
    BY <1>3, <1>12, <2>2 DEF Measured
  <2>3. QED BY <1>1, <1>4, <2>1, <2>2
<1>14. PassingInOrder' /\ OneFault'
  BY <1>1, <1>6, <1>11, <1>13 DEF PassingInOrder, OneFault
<1>15. /\ Assembling(PESdata') <=> Assembling(PESdata)
       /\ Assembling(PESdata) => Last(PESdata') = Last(PESdata)
  BY <1>1, <1>4, <1>12 DEF Stays
<1>16. InStep'
  BY <1>1, <1>3, <1>15 DEF InStep
<1>17. CleanIsAssembled'
  BY <1>1, <1>3, <1>15 DEF CleanIsAssembled, EndsCleanly
<1>18. ASSUME NEW k \in PES, Kept(k) PROVE Kept(k)'
  <2>1. CASE k \in stale
    <3>1. k \in stale'
      BY <1>1, <2>1 DEF Stays, Plays, Discards
    <3>2. QED BY <3>1 DEF Kept
  <2>2. CASE \E x \in 1 .. Len(v) : v[x] = Source(k)
    <3>1. PICK x \in 1 .. Len(v) : v[x] = Source(k)
      BY <2>2
    <3>2. CASE w = v
      BY <3>1, <3>2 DEF Kept
    <3>3. CASE w # v /\ x = Len(decoded) + 1
      <4>1. Discards
        <5>1. Plays => w = v
          <6>1. Plays => PESdata # <<>> /\ w = PassingOf(Append(decoded, front.payload), Tail(PESdata))
            BY DEF Plays, FrontLeaves, Passing
          <6>2. QED BY <1>2, <6>1, PassingTaken DEF Passing
        <5>2. Stays => w = v
          BY DEF Stays, Passing
        <5>3. QED BY <1>1, <3>3, <5>1, <5>2
      <4>2. v[x] = front.payload
        BY <1>2, <1>4, <3>3, <4>1, PassingTaken DEF Passing
      <4>3. Origin(front.payload) = k
        <5>1. 1 \in 1 .. Chunks[k]
          BY PESFacts
        <5>2. Source(k)[1] = <<k, 1>>
          BY <5>1, SourceFacts
        <5>3. QED BY <3>1, <4>2, <5>2 DEF Origin
      <4>4. QED BY <4>1, <4>3 DEF Discards, Kept
    <3>4. CASE w # v /\ x # Len(decoded) + 1
      <4> HIDE DEF v, w
      <4>1. Without(w, v, Len(decoded) + 1)
        BY <1>9, <3>4
      <4>2. \E y \in 1 .. Len(w) : w[y] = v[x]
        <5>1. CASE x < Len(decoded) + 1
          <6>1. x \in 1 .. Len(w) /\ w[x] = v[x]
            BY <1>2, <4>1, <5>1 DEF Without
          <6>2. QED BY <6>1
        <5>2. CASE x > Len(decoded) + 1
          <6>1. /\ x - 1 \in 1 .. Len(w) /\ ~(x - 1 < Len(decoded) + 1)
                /\ (x - 1) + 1 = x
            BY <1>2, <4>1, <5>2 DEF Without
          <6>2. w[x - 1] = v[x]
            BY <4>1, <6>1 DEF Without
          <6>3. QED BY <6>1, <6>2
        <5>3. x < Len(decoded) + 1 \/ x > Len(decoded) + 1
          BY <1>2, <3>4
        <5>4. QED BY <5>1, <5>2, <5>3
      <4>3. QED BY <3>1, <4>2 DEF Kept, v, w
    <3>5. QED BY <3>2, <3>3, <3>4
  <2>3. QED BY <1>18, <2>1, <2>2 DEF Kept
<1>19. CleanIsKept'
  <2>1. \A k \in PES : ArrivedCleanly(k)' <=> ArrivedCleanly(k)
    BY <1>1 DEF ArrivedCleanly
  <2>2. QED BY <1>1, <1>3, <1>18, <2>1 DEF CleanIsKept
<1>20. QED BY <1>1, <1>7, <1>8, <1>14, <1>16, <1>17, <1>19 DEF ReceptionInv

-----------------------------------------------------------------------------
(* The theorems.                                                           *)

LEMMA ReceptionStart ==
  ASSUME ReceptionInit
  PROVE  ReceptionInv
<1>1. /\ Init /\ stream_id = StreamId /\ ccBase \in 0 .. CCModulus - 1
      /\ sent = 0 /\ arrived = <<>> /\ lost = 0 /\ clock = 0
      /\ decoded = <<>> /\ stale = {} /\ PESdata = <<>> /\ ~doubleCC
  BY DEF ReceptionInit, Init
<1>2. IInv
  BY <1>1, InitEstablishes
<1>3. /\ arrived \in Seq(Nat \X Nat) /\ decoded \in Payloads /\ PESdata \in Seq(PESPacket_t)
      /\ Len(arrived) = 0 /\ Len(decoded) = 0 /\ Len(PESdata) = 0
  BY <1>1, EmptySeq DEF Payloads
<1>4. ChannelTypeOK
  BY <1>1, <1>3, PESFacts, ChannelAssumption DEF ChannelTypeOK, Payloads
<1>5. InTouch
  BY <1>1 DEF InTouch
<1>6. Len(Passing) = 0
  <2>1. Len(PassingOf(decoded, PESdata)) = Len(decoded) + Len(PESdata)
    BY <1>3, PassingOfProperties
  <2>2. QED BY <1>3, <2>1 DEF Passing
<1>7. PassingInOrder /\ OneFault
  BY <1>3, <1>6 DEF PassingInOrder, OneFault, Begun, Full, Measured, InOrder, OneFlaw, NoFlaw
<1>8. InStep
  BY <1>1 DEF InStep, Assembling
<1>9. CleanIsAssembled
  <2>1. ASSUME NEW k \in PES, NEW j \in 1 .. Chunks[k] - 1, EndsCleanly(k, j) PROVE FALSE
    <3>1. j \in Nat \ {0}
      BY PESFacts
    <3>2. Len(arrived) - j + 1 >= 1
      BY <2>1 DEF EndsCleanly
    <3>3. QED BY <1>3, <3>1, <3>2
  <2>2. QED BY <2>1 DEF CleanIsAssembled
<1>10. CleanIsKept
  <2>1. ASSUME NEW k \in PES, ArrivedCleanly(k) PROVE FALSE
    <3>1. Chunks[k] \in Nat \ {0}
      BY PESFacts
    <3>2. 1 .. Len(arrived) - Chunks[k] + 1 # {}
      BY <2>1 DEF ArrivedCleanly
    <3>3. QED BY <1>3, <3>1, <3>2
  <2>2. QED BY <2>1 DEF CleanIsKept
<1>11. QED BY <1>2, <1>4, <1>5, <1>7, <1>8, <1>9, <1>10 DEF ReceptionInv

LEMMA ReceptionStep == ReceptionInv /\ [ReceptionNext]_allVars => ReceptionInv'
<1> SUFFICES ASSUME ReceptionInv, [ReceptionNext]_allVars PROVE ReceptionInv'
  OBVIOUS
<1>1. ASSUME NEW n, Arrives(n), Follows(n) PROVE ReceptionInv'
  <2>1. IInv' /\ ChannelTypeOK' /\ InTouch' /\ PassingInOrder' /\ OneFault' /\ InStep'
    BY <1>1, ArrivalIsTyped, ArrivalKeepsOrder
  <2>2. CASE status' = "live"
    BY <1>1, <2>1, <2>2, ArrivalKeepsClean DEF ReceptionInv
  <2>3. CASE status' # "live"
    BY <2>1, <2>3 DEF ReceptionInv, CleanIsAssembled, CleanIsKept
  <2>4. QED BY <2>2, <2>3
<1>2. CASE Deliver
  BY <1>1, <1>2, DeliverArrives
<1>3. CASE Repeat
  BY <1>1, <1>3, RepeatArrives
<1>4. CASE Tick \/ TickUnknown
  BY <1>4, TickKeeps
<1>5. ASSUME UNCHANGED <<vars, ccBase, arrived, outputVars>>,
             ChannelTypeOK', NEW d \in 0 .. 1, sent' = sent + d, lost' = lost + d
      PROVE  ReceptionInv'
  <2>1. /\ UNCHANGED <<CurrentState, PESdata, BufferLevel, stream_id, ContinuityCount,
                       doubleCC, decoding, status>>
        /\ UNCHANGED <<ccBase, arrived, decoded, stale>>
    BY <1>5 DEF vars, outputVars
  <2>2. IInv'
    BY <2>1 DEF ReceptionInv, IInv, TypeOK, QueueDiscipline, DecodesComplete
  <2>3. Passing' = Passing
    BY <2>1 DEF Passing
  <2>4. PassingInOrder' /\ OneFault' /\ InStep'
    BY <2>1, <2>3 DEF ReceptionInv, PassingInOrder, OneFault, InStep
  <2>5. CleanIsAssembled' /\ CleanIsKept'
    BY <2>1, <2>3 DEF ReceptionInv, CleanIsAssembled, EndsCleanly, CleanIsKept, ArrivedCleanly, Kept
  <2>6. InTouch'
    <3>1. sent \in Nat /\ lost \in Nat /\ d \in Nat
      BY PESFacts, ChannelAssumption DEF ReceptionInv, ChannelTypeOK
    <3>2. \A n \in 1 .. sent : n \in 1 .. sent + d /\ (sent - n <= lost => sent + d - n <= lost + d)
      BY <3>1
    <3>3. ASSUME NEW n \in 1 .. sent, LastArrival(n) PROVE LastArrival(n)'
      <4>1. /\ Last(arrived) = Units[n] /\ sent - n <= lost
            /\ ContinuityCount = (ccBase + n - 1) % CCModulus
        BY <3>3 DEF LastArrival
      <4>2. arrived' = arrived /\ ContinuityCount' = ContinuityCount /\ ccBase' = ccBase
        BY <2>1
      <4>3. sent' - n <= lost'
        <5>1. sent' = sent + d /\ lost' = lost + d
          BY <1>5
        <5>2. sent + d - n <= lost + d
          BY <3>2, <4>1
        <5>3. QED BY <3>1, <5>1, <5>2
      <4>4. QED BY <4>1, <4>2, <4>3 DEF LastArrival
    <3>4. QED BY <1>5, <2>1, <3>2, <3>3 DEF ReceptionInv, InTouch
  <2>7. QED BY <1>5, <2>2, <2>4, <2>5, <2>6 DEF ReceptionInv
<1>6. /\ ChannelTypeOK /\ lost \in Nat /\ sent \in Nat /\ MaxLost \in Nat
      /\ Len(Units) \in Nat
  BY PESFacts, ChannelAssumption DEF ReceptionInv, ChannelTypeOK
<1>7. CASE Lose
  <2>1. /\ sent < Len(Units) /\ lost < MaxLost /\ sent' = sent + 1 /\ lost' = lost + 1
        /\ UNCHANGED <<vars, ccBase, arrived, outputVars>>
    BY <1>7 DEF Lose
  <2>2. ChannelTypeOK'
    BY <1>6, <2>1 DEF ChannelTypeOK, vars, outputVars
  <2>3. 1 \in 0 .. 1
    OBVIOUS
  <2>4. QED BY <1>5, <2>1, <2>2, <2>3
<1>8. CASE UNCHANGED allVars
  <2>1. /\ sent' = sent /\ lost' = lost
        /\ UNCHANGED <<vars, ccBase, arrived, outputVars>>
    BY <1>8 DEF allVars, channelVars
  <2>2. ChannelTypeOK'
    BY <1>6, <2>1 DEF ChannelTypeOK, vars, outputVars
  <2>3. 0 \in 0 .. 1 /\ sent' = sent + 0 /\ lost' = lost + 0
    BY <1>6, <2>1
  <2>4. QED BY <1>5, <2>1, <2>2, <2>3
<1>9. QED BY <1>2, <1>3, <1>4, <1>7, <1>8 DEF ReceptionNext

(* The payloads that were decoded come first among those passing. *)
LEMMA DecodedIsPassing ==
  ASSUME ReceptionInv
  PROVE  /\ DOMAIN decoded = 1 .. Len(decoded) /\ Len(decoded) \in Nat
         /\ \A i \in 1 .. Len(decoded) : /\ i \in 1 .. Len(Passing) /\ Passing[i] = decoded[i]
                                        /\ Origin(decoded[i]) \in PES
                                        /\ decoded[i] \in Seq(Bytes)
                                        /\ Len(decoded[i]) = Chunks[Origin(decoded[i])]
<1>1. /\ decoded \in Payloads /\ PESdata \in Seq(PESPacket_t)
      /\ Full(decoded) /\ Begun(Passing, Last(arrived)[1])
  BY PassingFacts DEF ReceptionInv, PassingInOrder
<1>2. /\ DOMAIN decoded = 1 .. Len(decoded) /\ Len(decoded) \in Nat
      /\ \A i \in 1 .. Len(decoded) : decoded[i] \in Seq(Bytes)
  BY <1>1, LenProperties, ElementOfSeq DEF Payloads
<1>3. /\ Len(Passing) = Len(decoded) + Len(PESdata) /\ Len(PESdata) \in Nat
      /\ \A i \in 1 .. Len(decoded) : Passing[i] = decoded[i]
  BY <1>1, PassingOfProperties DEF Passing
<1>4. \A i \in 1 .. Len(decoded) : i \in 1 .. Len(Passing)
  BY <1>2, <1>3
<1>5. QED BY <1>1, <1>2, <1>3, <1>4 DEF Full, Begun

LEMMA InvImpliesOrder == ReceptionInv => DecodedInOrder
<1> SUFFICES ASSUME ReceptionInv PROVE DecodedInOrder
  OBVIOUS
<1>1. InOrder(Passing)
  BY DEF ReceptionInv, PassingInOrder
<1>2. QED BY <1>1, DecodedIsPassing DEF InOrder, DecodedInOrder

LEMMA InvImpliesOneFault == ReceptionInv => AtMostOneFault
<1> SUFFICES ASSUME ReceptionInv PROVE AtMostOneFault
  OBVIOUS
<1> DEFINE faulty == {i \in DOMAIN decoded : Faulty(i)}
<1>1. ASSUME NEW i \in 1 .. Len(decoded), Faulty(i)
      PROVE  i \in 1 .. Len(Passing) /\ Flawed(Passing, i)
  <2>1. i \in 1 .. Len(Passing) /\ Passing[i] = decoded[i] /\ Len(decoded) \in Nat
    BY DecodedIsPassing
  <2>2. CASE decoded[i] # Source(Origin(decoded[i]))
    <3>1. ASSUME Straight(decoded[i]) PROVE FALSE
      <4>1. FirstUnits(decoded[i], Origin(decoded[i]), Chunks[Origin(decoded[i])])
        BY <3>1, DecodedIsPassing DEF Straight
      <4>2. QED BY <2>2, <4>1, SourceIsFirstUnits, DecodedIsPassing
    <3>2. QED BY <2>1, <3>1 DEF Flawed
  <2>3. CASE \E j \in 1 .. i - 1 : Origin(decoded[j]) = Origin(decoded[i])
    <3>1. PICK j \in 1 .. i - 1 : Origin(decoded[j]) = Origin(decoded[i])
      BY <2>3
    <3>2. j \in 1 .. Len(decoded)
      BY <2>1
    <3>3. Passing[j] = decoded[j]
      BY <3>2, DecodedIsPassing
    <3>4. QED BY <2>1, <3>1, <3>3 DEF Flawed
  <2>4. QED BY <1>1, <2>2, <2>3 DEF Faulty
<1>2. \A i, j \in faulty : i = j
  <2>1. OneFlaw(Passing)
    BY DEF ReceptionInv, OneFault
  <2>2. DOMAIN decoded = 1 .. Len(decoded)
    BY DecodedIsPassing
  <2>3. QED BY <1>1, <2>1, <2>2 DEF OneFlaw
<1> HIDE DEF faulty
<1>3. CASE faulty = {}
  BY <1>3, FS_EmptySet DEF AtMostOneFault, faulty
<1>4. CASE faulty # {}
  <2>1. PICK i \in faulty : TRUE
    BY <1>4
  <2>2. faulty = {i}
    BY <1>2, <2>1
  <2>3. Cardinality(faulty) = 1
    BY <2>2, FS_Singleton
  <2>4. QED BY <2>3 DEF AtMostOneFault, faulty
<1>5. QED BY <1>3, <1>4

LEMMA InvImpliesKept == ReceptionInv => CleanPESIsKept
<1> SUFFICES ASSUME ReceptionInv, status = "live", NEW k \in PES, ArrivedCleanly(k)
             PROVE  Source(k) \in Reassembled \/ k \in stale
  BY DEF CleanPESIsKept
<1>1. Kept(k)
  BY DEF ReceptionInv, CleanIsKept
<1>2. ASSUME NEW x \in 1 .. Len(Passing), Passing[x] = Source(k)
      PROVE  Source(k) \in Reassembled
  <2>1. /\ decoded \in Payloads /\ PESdata \in Seq(PESPacket_t)
        /\ DOMAIN decoded = 1 .. Len(decoded) /\ DOMAIN PESdata = 1 .. Len(PESdata)
    BY PassingFacts, LenProperties DEF Payloads
  <2>2. /\ Len(decoded) \in Nat /\ Len(PESdata) \in Nat
        /\ Len(Passing) = Len(decoded) + Len(PESdata)
        /\ \A i \in 1 .. Len(decoded) : Passing[i] = decoded[i]
        /\ \A i \in 1 .. Len(PESdata) : Passing[Len(decoded) + i] = PESdata[i].payload
    BY <2>1, PassingOfProperties DEF Passing
  <2>3. CASE x <= Len(decoded)
    <3>1. x \in DOMAIN decoded /\ decoded[x] = Source(k)
      BY <1>2, <2>1, <2>2, <2>3
    <3>2. QED BY <3>1 DEF Reassembled
  <2>4. CASE x > Len(decoded)
    <3>1. x - Len(decoded) \in 1 .. Len(PESdata) /\ x = Len(decoded) + (x - Len(decoded))
      BY <2>2, <2>4
    <3>2. x - Len(decoded) \in DOMAIN PESdata /\ PESdata[x - Len(decoded)].payload = Source(k)
      BY <1>2, <2>1, <2>2, <3>1
    <3>3. QED BY <3>2 DEF Reassembled
  <2>5. QED BY <2>2, <2>3, <2>4
<1>3. QED BY <1>1, <1>2 DEF Kept

(* However many transport packets the channel loses (fewer than a turn of    *)
(* the continuity counter) or repeats, and however clock ticks fall between  *)
(* arrivals, NextPacket and PCRTick give the decoder PES packets in the      *)
(* order in which they were sent.                                            *)
THEOREM DecodedInOrderHolds == ReceptionSpec => []DecodedInOrder
<1>1. ReceptionInit => ReceptionInv
  BY ReceptionStart
<1>2. ReceptionInv /\ [ReceptionNext]_allVars => ReceptionInv'
  BY ReceptionStep
<1>3. ReceptionInv => DecodedInOrder
  BY InvImpliesOrder
<1>4. QED BY <1>1, <1>2, <1>3, PTL DEF ReceptionSpec

(* Because doubleCC tolerates one continuity mismatch and never is reset, at *)
(* most one PES packet that NextPacket spliced or took twice is ever         *)
(* decoded, for every length of the stream and any number of errors.         *)
THEOREM AtMostOneFaultHolds == ReceptionSpec => []AtMostOneFault
<1>1. ReceptionInit => ReceptionInv
  BY ReceptionStart
<1>2. ReceptionInv /\ [ReceptionNext]_allVars => ReceptionInv'
  BY ReceptionStep
<1>3. ReceptionInv => AtMostOneFault
  BY InvImpliesOneFault
<1>4. QED BY <1>1, <1>2, <1>3, PTL DEF ReceptionSpec

(* A PES packet whose transport packets all arrive, once each and right      *)
(* behind the one sent before them, is in NextPacket's queue or was decoded, *)
(* unless PCRTick found it stale: errors elsewhere in the stream never cost  *)
(* it.                                                                       *)
THEOREM CleanPESIsKeptHolds == ReceptionSpec => []CleanPESIsKept
<1>1. ReceptionInit => ReceptionInv
  BY ReceptionStart
<1>2. ReceptionInv /\ [ReceptionNext]_allVars => ReceptionInv'
  BY ReceptionStep
<1>3. ReceptionInv => CleanPESIsKept
  BY InvImpliesKept
<1>4. QED BY <1>1, <1>2, <1>3, PTL DEF ReceptionSpec

=============================================================================
